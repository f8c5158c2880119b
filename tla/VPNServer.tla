----------------------------- MODULE VPNServer ------------------------------
(***************************************************************************)
(* The session core of Server/VPNServer.py: one thread per client socket   *)
(* (ClientHandler.run), the gateway thread that delivers packets from the  *)
(* internet, the threads of the admin panel and portal API, and what they  *)
(* share: the address pool and session registry of the VPNServer object,   *)
(* the in-memory quota of each handler, and the users table (UserDB).      *)
(*                                                                         *)
(* A step is what one thread does between two points where another thread  *)
(* may run in between with an effect: a critical section of self._lock or  *)
(* of a handler's _quota_lock, one database transaction, one reading of    *)
(* stop, one packet read.                                                  *)
(***************************************************************************)
EXTENDS UserDB, Sequences, FiniteSets

CONSTANTS
    Handlers,       \* ClientHandler objects; a closed one stands for the next to come
    Panels,         \* threads that serve the admin and portal API
    InitialQuotas,  \* quotas of the accounts found in the database
    Sizes,          \* sizes of data packets
    Requests,       \* amounts asked for with QUOTA_REQUEST
    TopUps,         \* amounts added through the panel (or taken away, if negative)
    MaxGranted,     \* bound on the quota ever granted to one account
    MaxDebt         \* bound on how far withdrawals push a session below zero

ASSUME ServerConstants ==
    /\ None \notin Handlers \cup Users \cup Int
    /\ {"free", "offered", "lost", "disputed"} \cap Handlers = {}
    /\ IsFiniteSet(Addresses)
    /\ InitialQuotas \subseteq Nat
    /\ Sizes \subseteq Nat
    /\ Requests \subseteq Nat \ {0}
    /\ TopUps \subseteq Int \ {0}
    /\ MaxGranted \in Nat /\ MaxDebt \in Nat

VARIABLES
    free,       \* _free_ips
    pending,    \* _pending: assigned, not announced
    active,     \* _active_by_ip
    byUser,     \* _by_username
    disputed,   \* addresses registered on a check that no longer held (not in the code)
    accounts,   \* db: the users table
    pc,         \* where the thread of each handler is
    user,       \* username
    addr,       \* assigned_ip
    stop,       \* _stop of the handler
    quota,      \* current_quota
    enforced,   \* _quota_enforced
    carry,      \* local of the thread: amount to credit, or final quota to persist
    gateway,    \* the gateway thread: where it is, the handler and size it holds
    panel,      \* the panel threads: where, and what they still have to do
    listening,  \* the accept loop runs
    held,       \* addresses the clients of a user were given and have not announced (not in the code)
    granted     \* all quota ever granted to a user (not in the code)

pool    == <<free, pending, active, byUser, disputed>>
session == <<user, addr, quota, enforced, carry>>
outside == <<gateway, panel, listening, held, granted>>
vars    == <<pool, accounts, pc, session, stop, outside>>

-----------------------------------------------------------------------------

\* Waiting for a packet before the socket is a data session.
Early == {"opened", "grace", "authed", "await"}

\* Between the checks of the announced address and its registration.
Claiming == {"announced", "vacant"}

\* In the registry, from register_session to unregister_session.
Registered == {"connecting", "loading", "loaded", "reading", "crediting",
               "flagging", "closing", "unregister"}

\* The thread died of an exception inside unregister_session: its socket is open
\* and its object stays in the registry.
Broken == "broken"

Places == {"closed", "accepted", "markzero", "disconnecting", Broken}
              \cup Early \cup Claiming \cup Registered

GatewayIdle == [pc |-> "idle", handler |-> None, size |-> 0]

PanelIdle == [pc |-> "idle", op |-> None, user |-> None, amount |-> 0, todo |-> {}]

\* A panel thread that has written the table and goes on to the sessions of u.
PanelJob(op, u, n) == [pc |-> "snapshot", op |-> op, user |-> u, amount |-> n, todo |-> {}]

\* Some other thread still has a reference to the handler object.
Referenced(h) == gateway.handler = h \/ \E p \in Panels : h \in panel[p].todo

Goto(h, place) == pc' = [pc EXCEPT ![h] = place]

\* The thread ends and closes its socket.  The object goes with it, unless the
\* gateway or a panel thread still refers to it.
Finish(h) ==
    /\ Goto(h, "closed")
    /\ IF Referenced(h)
       THEN UNCHANGED <<session, stop>>
       ELSE /\ user' = [user EXCEPT ![h] = None]
            /\ addr' = [addr EXCEPT ![h] = None]
            /\ quota' = [quota EXCEPT ![h] = 0]
            /\ enforced' = [enforced EXCEPT ![h] = FALSE]
            /\ carry' = [carry EXCEPT ![h] = None]
            /\ stop' = [stop EXCEPT ![h] = FALSE]

\* The receive loop looks at stop before it reads the next packet.
NextPacket(h) == Goto(h, IF stop[h] THEN "closing" ELSE "reading")

\* _charge, under the quota lock of the handler: an account whose quota is no
\* longer enforced is charged nothing, and the first charge that reaches zero
\* ends the enforcement.
Unmetered(h) == ~enforced[h] /\ UNCHANGED <<quota, enforced>>

Deducted(h, n) ==
    /\ enforced[h]
    /\ quota[h] > n
    /\ quota' = [quota EXCEPT ![h] = @ - n]
    /\ UNCHANGED enforced

Exhausted(h, n) ==
    /\ enforced[h]
    /\ quota[h] <= n
    /\ quota' = [quota EXCEPT ![h] = 0]
    /\ enforced' = [enforced EXCEPT ![h] = FALSE]

\* db.add_quota; the history counts what enters an account.
Grant(u, n) ==
    /\ granted[u] + n <= MaxGranted
    /\ granted' = [granted EXCEPT ![u] = @ + AtLeastZero(n)]
    /\ accounts' = AddQuota(accounts, u, n)

-----------------------------------------------------------------------------
\* The thread of a client socket, from accept to the data session.

Accept(h) ==
    /\ listening
    /\ pc[h] = "closed"
    /\ ~Referenced(h)
    /\ Goto(h, "accepted")
    /\ user' = [user EXCEPT ![h] = None]
    /\ addr' = [addr EXCEPT ![h] = None]
    /\ quota' = [quota EXCEPT ![h] = 0]
    /\ enforced' = [enforced EXCEPT ![h] = FALSE]
    /\ carry' = [carry EXCEPT ![h] = None]
    /\ stop' = [stop EXCEPT ![h] = FALSE]
    /\ UNCHANGED <<pool, accounts, outside>>

\* The handler enters the list that stop() goes through, and its thread starts.
Enlist(h) ==
    /\ pc[h] = "accepted"
    /\ Goto(h, "opened")
    /\ UNCHANGED <<pool, accounts, session, stop, outside>>

\* REGISTER_REQUEST.
Register(h, u) ==
    /\ pc[h] = "opened"
    /\ accounts' = CreateUser(accounts, u)
    /\ Finish(h)
    /\ UNCHANGED <<pool, outside>>

\* AUTH_REQUEST with the right password, for an account that is not banned.
Authenticate(h, u) ==
    /\ pc[h] = "opened"
    /\ user' = [user EXCEPT ![h] = u]
    /\ \/ /\ accounts[u].status = "quota_exhausted"
          /\ Goto(h, "grace")
       \/ /\ accounts[u].status = "active"
          /\ Goto(h, IF accounts[u].quota = 0 THEN "markzero" ELSE "authed")
    /\ UNCHANGED <<pool, accounts, addr, quota, enforced, carry, stop, outside>>

\* An account marked active without quota is flagged exhausted.
FlagEmptyAccount(h) ==
    /\ pc[h] = "markzero"
    /\ accounts' = MarkQuotaExhausted(accounts, user[h])
    /\ Goto(h, "grace")
    /\ UNCHANGED <<pool, session, stop, outside>>

\* The socket ends before it is a data session: EOF, malformed or refused
\* packets, DISCONNECT, an empty pool, a window found elapsed.
Hangup(h) ==
    /\ pc[h] \in Early
    /\ Finish(h)
    /\ UNCHANGED <<pool, accounts, outside>>

\* Mutant of StopEarly: a read before the data session never looks at stop.
StopEarlyDeaf(h) ==
    /\ pc[h] = "await"
    /\ Finish(h)
    /\ UNCHANGED <<pool, accounts, outside>>

\* A read times out and finds stop set, or the announce window over.
StopEarly(h) ==
    /\ pc[h] \in Early
    /\ stop[h] \/ pc[h] = "await"
    /\ Finish(h)
    /\ UNCHANGED <<pool, accounts, outside>>

\* QUOTA_REQUEST in the grace window: a grant ends the connection.
GraceGrant(h, n) ==
    /\ pc[h] = "grace"
    /\ Grant(user[h], n)
    /\ Finish(h)
    /\ UNCHANGED <<pool, gateway, panel, listening, held>>

\* Mutant of AssignIP: the address goes back to the end of the list it is taken
\* from.
AssignIPKeepsFree(h, delivered) ==
    /\ pc[h] = "authed"
    /\ free # <<>>
    /\ free' = Append(Tail(free), Head(free))
    /\ pending' = pending \cup {Head(free)}
    /\ held' = IF delivered THEN [held EXCEPT ![user[h]] = @ \cup {Head(free)}] ELSE held
    /\ Finish(h)
    /\ UNCHANGED <<active, byUser, disputed, accounts, gateway, panel, listening, granted>>

\* GET_IP: rotate the free list to its first address that is neither pending nor
\* active.  The reply reaches the client, or is lost with the connection.
AssignIP(h, delivered) ==
    /\ pc[h] = "authed"
    /\ \E i \in DOMAIN free :
        LET taken(a) == a \in pending \/ active[a] # None
        IN  /\ ~taken(free[i])
            /\ \A j \in 1 .. i - 1 : taken(free[j])
            /\ free' = SubSeq(free, i + 1, Len(free)) \o SubSeq(free, 1, i - 1)
            /\ pending' = pending \cup {free[i]}
            /\ held' = IF delivered
                       THEN [held EXCEPT ![user[h]] = @ \cup {free[i]}]
                       ELSE held
    /\ Finish(h)
    /\ UNCHANGED <<active, byUser, disputed, accounts, gateway, panel, listening, granted>>

\* The client dies, or fails to bring its tunnel up: it will not announce.
ClientGivesUp(u, a) ==
    /\ a \in held[u]
    /\ held' = [held EXCEPT ![u] = @ \ {a}]
    /\ UNCHANGED <<pool, accounts, pc, session, stop, gateway, panel, listening, granted>>

\* The first packet is neither GET_IP nor ANNOUNCE_IP: from here on the reads
\* have a deadline.
DropEarly(h) ==
    /\ pc[h] = "authed"
    /\ Goto(h, "await")
    /\ UNCHANGED <<pool, accounts, session, stop, outside>>

\* ANNOUNCE_IP of any address; is_pending asks whether it was offered, not to whom.
Announce(h, a) ==
    /\ pc[h] \in {"authed", "await"}
    /\ held' = [held EXCEPT ![user[h]] = @ \ {a}]
    /\ \/ /\ a \in pending
          /\ addr' = [addr EXCEPT ![h] = a]
          /\ Goto(h, "announced")
          /\ UNCHANGED <<user, quota, enforced, carry, stop>>
       \/ /\ a \notin pending
          /\ Finish(h)
    /\ UNCHANGED <<pool, accounts, gateway, panel, listening, granted>>

\* is_active, under the lock once more: an active address gets GET_NEW_IP.
CheckVacant(h) ==
    /\ pc[h] = "announced"
    /\ \/ /\ active[addr[h]] = None
          /\ Goto(h, "vacant")
          /\ UNCHANGED <<session, stop>>
       \/ /\ active[addr[h]] # None
          /\ Finish(h)
    /\ UNCHANGED <<pool, accounts, outside>>

-----------------------------------------------------------------------------
\* The data session.

\* Whatever became of the address since is_pending and is_active were asked.
RegisterSession(h) ==
    /\ pc[h] = "vacant"
    /\ disputed' = IF addr[h] \in pending THEN disputed ELSE disputed \cup {addr[h]}
    /\ pending' = pending \ {addr[h]}
    /\ active' = [active EXCEPT ![addr[h]] = h]
    /\ byUser' = [byUser EXCEPT ![user[h]] = @ \cup {h}]
    /\ Goto(h, "connecting")
    /\ UNCHANGED <<free, accounts, session, stop, outside>>

ConnectAccount(h) ==
    /\ pc[h] = "connecting"
    /\ accounts' = MarkConnected(accounts, user[h], addr[h])
    /\ Goto(h, "loading")
    /\ UNCHANGED <<pool, session, stop, outside>>

LoadQuota(h) ==
    /\ pc[h] = "loading"
    /\ quota' = [quota EXCEPT ![h] = accounts[user[h]].quota]
    /\ enforced' = [enforced EXCEPT ![h] = TRUE]
    /\ Goto(h, "loaded")
    /\ UNCHANGED <<pool, accounts, user, addr, carry, stop, outside>>

CheckQuota(h) ==
    /\ pc[h] = "loaded"
    /\ IF quota[h] <= 0 THEN Goto(h, "flagging") ELSE NextPacket(h)
    /\ UNCHANGED <<pool, accounts, session, stop, outside>>

\* The last fragment of a DATA packet of n bytes from the client.
Data(h, n) ==
    /\ pc[h] = "reading"
    /\ \/ (Unmetered(h) \/ Deducted(h, n)) /\ NextPacket(h)
       \/ Exhausted(h, n) /\ Goto(h, "flagging")
    /\ UNCHANGED <<pool, accounts, user, addr, carry, stop, outside>>

\* QUOTA_REQUEST: the grant goes to the database,
RequestQuota(h, n) ==
    /\ pc[h] = "reading"
    /\ Grant(user[h], n)
    /\ carry' = [carry EXCEPT ![h] = n]
    /\ Goto(h, "crediting")
    /\ UNCHANGED <<pool, user, addr, quota, enforced, stop, gateway, panel, listening, held>>

\* Mutant of CreditQuota: the grant is added twice.
CreditQuotaTwice(h) ==
    /\ pc[h] = "crediting"
    /\ quota' = [quota EXCEPT ![h] = @ + carry[h] + carry[h]]
    /\ carry' = [carry EXCEPT ![h] = None]
    /\ NextPacket(h)
    /\ UNCHANGED <<pool, accounts, user, addr, enforced, stop, outside>>

\* and then to the session.
CreditQuota(h) ==
    /\ pc[h] = "crediting"
    /\ quota' = [quota EXCEPT ![h] = @ + carry[h]]
    /\ carry' = [carry EXCEPT ![h] = None]
    /\ NextPacket(h)
    /\ UNCHANGED <<pool, accounts, user, addr, enforced, stop, outside>>

\* DISCONNECT, or the connection is gone.
ClientLeaves(h) ==
    /\ pc[h] = "reading"
    /\ Goto(h, "closing")
    /\ UNCHANGED <<pool, accounts, session, stop, outside>>

\* A read times out and finds stop set.
StopSession(h) ==
    /\ pc[h] = "reading"
    /\ stop[h]
    /\ Goto(h, "closing")
    /\ UNCHANGED <<pool, accounts, session, stop, outside>>

\* _quota_exhausted on the handler's own thread.
FlagExhausted(h) ==
    /\ pc[h] = "flagging"
    /\ accounts' = MarkQuotaExhausted(accounts, user[h])
    /\ stop' = [stop EXCEPT ![h] = TRUE]
    /\ Goto(h, "closing")
    /\ UNCHANGED <<pool, session, outside>>

\* _cleanup reads the final quota,
ReadFinalQuota(h) ==
    /\ pc[h] = "closing"
    /\ carry' = [carry EXCEPT ![h] = IF enforced[h] THEN quota[h] ELSE None]
    /\ Goto(h, "unregister")
    /\ UNCHANGED <<pool, accounts, user, addr, quota, enforced, stop, outside>>

\* With the last session at an address, a dispute about it ends.
SharesAddress(h) == \E g \in Handlers \ {h} : pc[g] \in Registered /\ addr[g] = addr[h]

Settled(h) == IF SharesAddress(h) THEN disputed ELSE disputed \ {addr[h]}

\* Mutants of UnregisterSession: the handler stays in the group of its user; the
\* address stays in the map of active sessions.
UnregisterSessionKeepsGroup(h) ==
    /\ pc[h] = "unregister"
    /\ active' = [active EXCEPT ![addr[h]] = None]
    /\ free' = Append(free, addr[h])
    /\ disputed' = Settled(h)
    /\ Goto(h, "disconnecting")
    /\ UNCHANGED <<pending, byUser, accounts, session, stop, outside>>

UnregisterSessionKeepsActive(h) ==
    /\ pc[h] = "unregister"
    /\ free' = Append(free, addr[h])
    /\ byUser' = [byUser EXCEPT ![user[h]] = @ \ {h}]
    /\ disputed' = Settled(h)
    /\ Goto(h, "disconnecting")
    /\ UNCHANGED <<pending, active, accounts, session, stop, outside>>

\* takes the session out of the registry and the address back into the pool,
UnregisterSession(h) ==
    /\ pc[h] = "unregister"
    /\ active' = [active EXCEPT ![addr[h]] = None]
    /\ free' = IF \E i \in DOMAIN free : free[i] = addr[h]
               THEN free ELSE Append(free, addr[h])
    /\ pending' = pending \ {addr[h]}
    /\ byUser' = [byUser EXCEPT ![user[h]] = @ \ {h}]
    /\ disputed' = Settled(h)
    /\ Goto(h, "disconnecting")
    /\ UNCHANGED <<accounts, session, stop, outside>>

\* or dies there: another thread changed the table of the NAT that
\* nat.unregister_client goes through, and the RuntimeError leaves the address
\* out of the pool, the handler in its group and the account online.
UnregisterRaises(h) ==
    /\ pc[h] = "unregister"
    /\ active' = [active EXCEPT ![addr[h]] = None]
    /\ disputed' = Settled(h)
    /\ Goto(h, Broken)
    /\ UNCHANGED <<free, pending, byUser, accounts, session, stop, outside>>

\* and writes the account.
DisconnectAccount(h) ==
    /\ pc[h] = "disconnecting"
    /\ accounts' = MarkDisconnected(accounts, user[h], carry[h])
    /\ Finish(h)
    /\ UNCHANGED <<pool, outside>>

-----------------------------------------------------------------------------
\* The gateway thread: a packet of n bytes from the internet for address a.

GatewayGoto(place) == gateway' = [gateway EXCEPT !.pc = place]

\* The registry is looked up under the lock; the delivery is not under it.
GatewayLookup(a, n) ==
    /\ listening
    /\ gateway.pc = "idle"
    /\ active[a] # None
    /\ gateway' = [pc |-> "charge", handler |-> active[a], size |-> n]
    /\ UNCHANGED <<pool, accounts, pc, session, stop, panel, listening, held, granted>>

GatewayCharge ==
    /\ gateway.pc = "charge"
    /\ LET h == gateway.handler
       IN  \/ (Unmetered(h) \/ Deducted(h, gateway.size)) /\ GatewayGoto("send")
           \/ Exhausted(h, gateway.size) /\ GatewayGoto("flag")
    /\ UNCHANGED <<pool, accounts, pc, user, addr, carry, stop, panel, listening, held, granted>>

\* The packet goes out on the socket, or the send fails and stops the session.
GatewaySend ==
    /\ gateway.pc = "send"
    /\ gateway' = GatewayIdle
    /\ \/ UNCHANGED stop
       \/ stop' = [stop EXCEPT ![gateway.handler] = TRUE]
    /\ UNCHANGED <<pool, accounts, pc, session, panel, listening, held, granted>>

\* _quota_exhausted on the gateway thread: first the database,
GatewayFlag ==
    /\ gateway.pc = "flag"
    /\ accounts' = MarkQuotaExhausted(accounts, user[gateway.handler])
    /\ GatewayGoto("halt")
    /\ UNCHANGED <<pool, pc, session, stop, panel, listening, held, granted>>

\* Mutant of GatewayHalt: the session is not stopped.
GatewayHaltQuietly ==
    /\ gateway.pc = "halt"
    /\ gateway' = GatewayIdle
    /\ UNCHANGED <<pool, accounts, pc, session, stop, panel, listening, held, granted>>

\* then the session.
GatewayHalt ==
    /\ gateway.pc = "halt"
    /\ stop' = [stop EXCEPT ![gateway.handler] = TRUE]
    /\ gateway' = GatewayIdle
    /\ UNCHANGED <<pool, accounts, pc, session, panel, listening, held, granted>>

GatewayStep == GatewayCharge \/ GatewaySend \/ GatewayFlag \/ GatewayHalt

-----------------------------------------------------------------------------
\* The panel and the portal.

\* ban_user writes the status; kick follows.
PanelBan(p, u) ==
    /\ panel[p].pc = "idle"
    /\ accounts' = SetAccountStatus(accounts, u, "banned")
    /\ panel' = [panel EXCEPT ![p] = PanelJob("ban", u, 0)]
    /\ UNCHANGED <<pool, pc, session, stop, gateway, listening, held, granted>>

\* unban_user: whatever the status was.
PanelUnban(p, u) ==
    /\ panel[p].pc = "idle"
    /\ accounts' = SetAccountStatus(accounts, u, "active")
    /\ UNCHANGED <<pool, pc, session, stop, outside>>

\* add_quota of the panel and of portal_request_quota: first the database.
PanelAddQuota(p, u, n) ==
    /\ panel[p].pc = "idle"
    /\ Exists(accounts, u)
    /\ n < 0 => \A h \in Handlers : quota[h] >= -MaxDebt
    /\ Grant(u, n)
    /\ panel' = [panel EXCEPT ![p] = PanelJob("add", u, n)]
    /\ UNCHANGED <<pool, pc, session, stop, gateway, listening, held>>

\* portal_register and register_user.
PanelRegister(p, u) ==
    /\ panel[p].pc = "idle"
    /\ accounts' = CreateUser(accounts, u)
    /\ UNCHANGED <<pool, pc, session, stop, outside>>

\* The sessions of the user, copied under the lock.
PanelSnapshot(p) ==
    /\ panel[p].pc = "snapshot"
    /\ LET sessions == byUser[panel[p].user]
       IN  panel' = [panel EXCEPT ![p] = IF sessions = {} THEN PanelIdle
                                         ELSE [panel[p] EXCEPT !.pc = "visit", !.todo = sessions]]
    /\ UNCHANGED <<pool, accounts, pc, session, stop, gateway, listening, held, granted>>

\* kick stops each of them; add_quota adds to each of them that is metered.
PanelVisit(p, h) ==
    /\ panel[p].pc = "visit"
    /\ h \in panel[p].todo
    /\ LET rest == panel[p].todo \ {h}
       IN  panel' = [panel EXCEPT ![p] = IF rest = {} THEN PanelIdle
                                         ELSE [panel[p] EXCEPT !.todo = rest]]
    /\ \/ /\ panel[p].op = "ban"
          /\ stop' = [stop EXCEPT ![h] = TRUE]
          /\ UNCHANGED quota
       \/ /\ panel[p].op = "add"
          /\ quota' = [quota EXCEPT ![h] = IF enforced[h] THEN @ + panel[p].amount ELSE @]
          /\ UNCHANGED stop
    /\ UNCHANGED <<pool, accounts, pc, user, addr, enforced, carry, gateway, listening, held, granted>>

\* stop() of the server: every handler on the list is told to stop.
Shutdown ==
    /\ listening
    /\ listening' = FALSE
    /\ stop' = [h \in Handlers |-> stop[h] \/ pc[h] \notin {"closed", "accepted"}]
    /\ UNCHANGED <<pool, accounts, pc, session, gateway, panel, held, granted>>

-----------------------------------------------------------------------------

InitialAccounts == {Row("absent", 0)} \cup {Row("active", q) : q \in InitialQuotas}

\* The free list is every address of the subnet, shuffled.
Shuffles == {s \in [1 .. Cardinality(Addresses) -> Addresses] :
                /\ \A a \in Addresses : \E i \in DOMAIN s : s[i] = a
                /\ \A i, j \in DOMAIN s : s[i] = s[j] => i = j}

\* A new server process over the table an earlier one left.
Init ==
    /\ free \in Shuffles
    /\ pending = {}
    /\ active = [a \in Addresses |-> None]
    /\ byUser = [u \in Users |-> {}]
    /\ disputed = {}
    /\ accounts \in [Users -> InitialAccounts]
    /\ pc = [h \in Handlers |-> "closed"]
    /\ user = [h \in Handlers |-> None]
    /\ addr = [h \in Handlers |-> None]
    /\ stop = [h \in Handlers |-> FALSE]
    /\ quota = [h \in Handlers |-> 0]
    /\ enforced = [h \in Handlers |-> FALSE]
    /\ carry = [h \in Handlers |-> None]
    /\ gateway = GatewayIdle
    /\ panel = [p \in Panels |-> PanelIdle]
    /\ listening = TRUE
    /\ held = [u \in Users |-> {}]
    /\ granted = [u \in Users |-> accounts[u].quota]

\* What the server's own threads do, without a client or an operator.
HandlerStep(h) ==
    \/ Enlist(h) \/ FlagEmptyAccount(h) \/ StopEarly(h) \/ CheckVacant(h)
    \/ RegisterSession(h) \/ ConnectAccount(h) \/ LoadQuota(h) \/ CheckQuota(h)
    \/ CreditQuota(h) \/ StopSession(h) \/ FlagExhausted(h)
    \/ ReadFinalQuota(h) \/ UnregisterSession(h) \/ UnregisterRaises(h)
    \/ DisconnectAccount(h)

\* What the client at the other end of the socket makes the thread do.
ClientStep(h) ==
    \/ Accept(h) \/ Hangup(h) \/ DropEarly(h) \/ ClientLeaves(h)
    \/ \E u \in Users : Register(h, u) \/ Authenticate(h, u)
    \/ \E n \in Requests : GraceGrant(h, n) \/ RequestQuota(h, n)
    \/ \E delivered \in BOOLEAN : AssignIP(h, delivered)
    \/ \E a \in Addresses : Announce(h, a)
    \/ \E n \in Sizes : Data(h, n)

PanelStep(p) == PanelSnapshot(p) \/ \E h \in Handlers : PanelVisit(p, h)

OperatorStep(p) == \E u \in Users :
    \/ PanelBan(p, u) \/ PanelUnban(p, u) \/ PanelRegister(p, u)
    \/ \E n \in TopUps : PanelAddQuota(p, u, n)

Next ==
    \/ \E h \in Handlers : HandlerStep(h) \/ ClientStep(h)
    \/ \E a \in Addresses : \E n \in Sizes : GatewayLookup(a, n)
    \/ GatewayStep
    \/ \E p \in Panels : PanelStep(p) \/ OperatorStep(p)
    \/ \E u \in Users, a \in Addresses : ClientGivesUp(u, a)
    \/ Shutdown

Spec == Init /\ [][Next]_vars

\* The process dies at any point and is started again on the same database: the
\* registry, the pool and every handler are gone; the table loses only the online
\* flags.  Clients keep the addresses they were given.
Restart ==
    /\ free' \in Shuffles
    /\ pending' = {}
    /\ active' = [a \in Addresses |-> None]
    /\ byUser' = [u \in Users |-> {}]
    /\ disputed' = {}
    /\ accounts' = ResetAllConnections(accounts)
    /\ pc' = [h \in Handlers |-> "closed"]
    /\ user' = [h \in Handlers |-> None]
    /\ addr' = [h \in Handlers |-> None]
    /\ stop' = [h \in Handlers |-> FALSE]
    /\ quota' = [h \in Handlers |-> 0]
    /\ enforced' = [h \in Handlers |-> FALSE]
    /\ carry' = [h \in Handlers |-> None]
    /\ gateway' = GatewayIdle
    /\ panel' = [p \in Panels |-> PanelIdle]
    /\ listening' = TRUE
    /\ UNCHANGED <<held, granted>>

SpecWithRestarts == Init /\ [][Next \/ Restart]_vars

\* Every socket read has a one-second timeout and no lock is held across a wait,
\* so a thread that can take a step of its own eventually takes it.
Fairness ==
    /\ \A h \in Handlers : WF_vars(HandlerStep(h))
    /\ WF_vars(GatewayStep)
    /\ \A p \in Panels : WF_vars(PanelStep(p))

FairSpec == Spec /\ Fairness

-----------------------------------------------------------------------------

PoolTypes ==
    /\ free \in Seq(Addresses)
    /\ pending \subseteq Addresses
    /\ active \in [Addresses -> Handlers \cup {None}]
    /\ byUser \in [Users -> SUBSET Handlers]
    /\ disputed \subseteq Addresses
    /\ held \in [Users -> SUBSET Addresses]

ThreadTypes ==
    /\ pc \in [Handlers -> Places]
    /\ user \in [Handlers -> Users \cup {None}]
    /\ addr \in [Handlers -> Addresses \cup {None}]
    /\ stop \in [Handlers -> BOOLEAN]
    /\ quota \in [Handlers -> Int]
    /\ enforced \in [Handlers -> BOOLEAN]
    /\ carry \in [Handlers -> Int \cup {None}]

GatewayStates == [pc : {"idle", "charge", "send", "flag", "halt"},
                  handler : Handlers \cup {None}, size : Nat]

PanelStates == [pc : {"idle", "snapshot", "visit"}, op : {"ban", "add", None},
                user : Users \cup {None}, amount : Int, todo : SUBSET Handlers]

\* Types of the state.
TypeOK ==
    /\ PoolTypes
    /\ ThreadTypes
    /\ accounts \in Tables
    /\ gateway \in GatewayStates
    /\ panel \in [Panels -> PanelStates]
    /\ listening \in BOOLEAN
    /\ granted \in [Users -> Nat]

InFree(a) == \E i \in DOMAIN free : free[i] = a

\* The books of the pool: no address is listed free twice, an offered one is neither
\* free nor leased, and one that is nowhere was left behind by a thread that died in
\* unregister_session.  An address is free and leased at once only after a session
\* registered it on a check that no longer held, and only until the sessions on it
\* have ended: assign_ip, register_session and unregister_session repair that, in
\* whatever order their threads run.
AddressesPartitioned ==
    /\ \A i, j \in DOMAIN free : free[i] = free[j] => i = j
    /\ \A a \in Addresses :
        /\ a \in pending => ~InFree(a) /\ active[a] = None
        /\ InFree(a) /\ active[a] # None => a \in disputed
        /\ \/ InFree(a) \/ a \in pending \/ active[a] # None
           \/ \E h \in Handlers : pc[h] = Broken /\ addr[h] = a

\* _active_by_ip leads to a live session at that address, and leads to every one of
\* them but those whose address is disputed; _by_username lists the live sessions
\* of the account, which kick relies on, and those that died in unregister_session.
RegistryAgrees ==
    /\ \A a \in Addresses, h \in Handlers :
        active[a] = h => pc[h] \in Registered /\ addr[h] = a
    /\ \A h \in Handlers :
        pc[h] \in Registered /\ addr[h] \notin disputed => active[addr[h]] = h
    /\ \A u \in Users :
        byUser[u] = {h \in Handlers : pc[h] \in Registered \cup {Broken} /\ user[h] = u}

\* The panel shows an account online at an address only while a thread of that
\* account is between mark_connected and mark_disconnected with that address, or
\* died there: a flag that outlives its session has no other cause.
OnlineFlagBacked == \A u \in Users : accounts[u].ip # None =>
    \E h \in Handlers :
        /\ pc[h] \in (Registered \ {"connecting"}) \cup {"disconnecting", Broken}
        /\ user[h] = u
        /\ addr[h] = accounts[u].ip

\* Neither the table nor a session ever has more quota than was granted to the
\* account, however loads, charges, requests and persists interleave.
EarnedQuota ==
    /\ \A u \in Users : accounts[u].quota <= granted[u]
    /\ \A h \in Handlers : pc[h] \in Registered => quota[h] <= granted[user[h]]

-----------------------------------------------------------------------------

\* The address pool as the abstract lease.
lease == [a \in Addresses |->
    CASE a \in disputed -> "disputed"
      [] a \notin disputed /\ active[a] # None -> active[a]
      [] a \notin disputed /\ active[a] = None /\ a \in pending -> "offered"
      [] a \notin disputed /\ active[a] = None /\ a \notin pending /\ InFree(a) -> "free"
      [] OTHER -> "lost"]

Leases == INSTANCE AddressLease WITH Sessions <- Handlers

\* The server implements the lease: an address is offered before it is leased, no
\* session leases two, and a lease ends with a release, a loss or a dispute.
ImplementsLease == Leases!LeaseSpec

Ended(h) == pc[h] \in {"closed", Broken}

\* A session told to stop -- by a ban, exhaustion, a failed send or shutdown --
\* ends, wherever its thread was.
StoppedCloses == \A h \in Handlers : stop[h] ~> Ended(h)

\* A session whose quota ran out -- on its own thread or on the gateway's -- ends.
ExhaustedCloses == \A h \in Handlers :
    (pc[h] \in {"reading", "crediting"} /\ ~enforced[h]) ~> Ended(h)

-----------------------------------------------------------------------------
\* What the comments of the code promise and the code does not keep.

\* Once ban_user is done, every data session of the account was told to stop
\* (Server/api.py: "bans in DB and kicks live sessions").
BannedHasNoSession == \A u \in Users :
    (accounts[u].status = "banned" /\ \A p \in Panels : panel[p].pc = "idle")
        => \A h \in Handlers : (pc[h] = "reading" /\ user[h] = u) => stop[h]

\* With no socket open and no client holding an address, there is one to assign
\* (_await_announce: "socket closes, IP stays reusable").
IdlePoolUsable ==
    ((\A h \in Handlers : pc[h] = "closed") /\ (\A u \in Users : held[u] = {}))
        => free # <<>>

=============================================================================
