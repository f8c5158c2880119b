-------------------------- MODULE Accounts_proofs ---------------------------
(***************************************************************************)
(* Theorems about what VPNServer keeps in the users table: the online flag *)
(* and the quota of an account, for every number of users, addresses,      *)
(* handlers and panel threads, and across restarts of the server process.  *)
(***************************************************************************)
EXTENDS VPNServer_proofs

\* Between mark_connected and mark_disconnected, or dead there: the thread answers
\* for the flag.
Online == (Registered \ {"connecting"}) \cup {"disconnecting", Broken}

\* The flag of every account is backed, and a name without a row has none.
FlagInv == OnlineFlagBacked /\ \A u \in Users : ~Exists(accounts, u) => accounts[u].ip = None

\* What one thread may hold of the quota of its account: nothing before the quota is
\* loaded, then no more than was granted, the credit and the final quota included.
SessionEarned(h) ==
    /\ pc[h] \in Registered => quota[h] <= granted[user[h]]
    /\ pc[h] \in {"accepted", "markzero"} \cup Early \cup Claiming => quota[h] <= 0
    /\ pc[h] = "crediting" =>
        /\ carry[h] <= granted[user[h]]
        /\ quota[h] + carry[h] <= granted[user[h]]
    /\ (pc[h] \in {"unregister", "disconnecting"} /\ carry[h] # None) => carry[h] <= granted[user[h]]

TableEarned == \A u \in Users : accounts[u].quota <= granted[u]

\* No panel thread is on its way to add to a session.
NothingToAdd == \A p \in Panels : panel[p].amount <= 0

\* The panel and the portal only take quota away; what goes wrong when they add is
\* top_up_race.
OnlyWithdrawals == \A n \in TopUps : n < 0

QuotaInv == TableEarned /\ NothingToAdd /\ \A h \in Handlers : SessionEarned(h)

-----------------------------------------------------------------------------
\* The types, the locals of every thread and the map of active sessions are right in
\* every state of the server, however often its process dies and is started again.
THEOREM CoreHolds == SpecWithRestarts => []CoreInv
BY Invariant, CoreOfInv, PTL

-----------------------------------------------------------------------------
\* The online flag.  Only mark_connected sets one, and no statement deletes a row.

NoNewFlag(db, new) == \A v \in Users :
    /\ new[v].ip = db[v].ip \/ new[v].ip = None
    /\ Exists(db, v) => Exists(new, v)

LEMMA FlagStatements ==
    ASSUME NEW db \in Tables, NEW u \in Users
    PROVE  /\ NoNewFlag(db, CreateUser(db, u))
           /\ \A n \in Int \cup {None} : NoNewFlag(db, MarkDisconnected(db, u, n))
           /\ \A n \in Int : NoNewFlag(db, AddQuota(db, u, n))
           /\ NoNewFlag(db, MarkQuotaExhausted(db, u))
           /\ \A s \in {"active", "banned"} : NoNewFlag(db, SetAccountStatus(db, u, s))
           /\ NoNewFlag(db, ResetAllConnections(db))
<1>1. \A v \in Users : db[v] \in Account
  BY DEF Tables
<1>2. ASSUME NEW row \in Account, row.ip \in {db[u].ip, None}, row.status # "absent"
      PROVE  NoNewFlag(db, Update(db, u, row))
  BY <1>1, <1>2 DEF NoNewFlag, Update, Exists, Tables
<1>3. NoNewFlag(db, CreateUser(db, u))
  BY <1>1 DEF NoNewFlag, CreateUser, Exists, Row, Tables
<1>4. \A n \in Int \cup {None} : NoNewFlag(db, MarkDisconnected(db, u, n))
  BY <1>1 DEF NoNewFlag, MarkDisconnected, Update, Exists, Account, Tables
<1>5. \A n \in Int : NoNewFlag(db, AddQuota(db, u, n))
  BY <1>1 DEF NoNewFlag, AddQuota, Update, Exists, Account, Tables
<1>6. NoNewFlag(db, MarkQuotaExhausted(db, u))
  BY <1>1 DEF NoNewFlag, MarkQuotaExhausted, Update, Exists, Row, Tables
<1>7. \A s \in {"active", "banned"} : NoNewFlag(db, SetAccountStatus(db, u, s))
  BY <1>1 DEF NoNewFlag, SetAccountStatus, Update, Exists, Account, Tables
<1>8. NoNewFlag(db, ResetAllConnections(db))
  BY <1>1 DEF NoNewFlag, ResetAllConnections, Exists, Account
<1>9. QED
  BY <1>3, <1>4, <1>5, <1>6, <1>7, <1>8

LEMMA FlagKept ==
    ASSUME CoreInv, FlagInv, NoNewFlag(accounts, accounts'),
           \A g \in Handlers : pc[g] \in Online =>
               pc'[g] \in Online /\ user'[g] = user[g] /\ addr'[g] = addr[g]
    PROVE  FlagInv'
<1>1. \A u \in Users : ~Exists(accounts, u)' => accounts'[u].ip = None
  BY DEF NoNewFlag, FlagInv, Exists
<1>2. ASSUME NEW u \in Users, accounts'[u].ip # None
      PROVE  \E h \in Handlers : pc'[h] \in Online /\ user'[h] = u /\ addr'[h] = accounts'[u].ip
  <2>1. accounts'[u].ip = accounts[u].ip
    BY <1>2 DEF NoNewFlag
  <2>2. PICK h \in Handlers : pc[h] \in Online /\ user[h] = u /\ addr[h] = accounts[u].ip
    BY <1>2, <2>1 DEF FlagInv, OnlineFlagBacked, Online
  <2>3. QED
    BY <2>1, <2>2
<1>3. QED
  BY <1>1, <1>2 DEF FlagInv, OnlineFlagBacked, Online

LEMMA FlagStep == CoreInv /\ FlagInv /\ Next => FlagInv'
<1> SUFFICES ASSUME CoreInv, FlagInv, Next PROVE FlagInv'
  OBVIOUS
<1> USE DEF CoreInv, TypeOK, LocalsOK
<1>0. NoNewFlag(accounts, accounts)
  BY DEF NoNewFlag
<1>1. ASSUME NoNewFlag(accounts, accounts'), pc' = pc, user' = user, addr' = addr
      PROVE  FlagInv'
  BY <1>1, FlagKept
<1>2. ASSUME NEW h \in Handlers, Finish(h), pc[h] \notin Online, NoNewFlag(accounts, accounts')
      PROVE  FlagInv'
  <2>1. \A g \in Handlers : pc[g] \in Online =>
            pc'[g] = pc[g] /\ user'[g] = user[g] /\ addr'[g] = addr[g]
    BY <1>2, FinishEffect DEF ThreadTypes
  <2>2. QED
    BY <1>2, <2>1, FlagKept
<1>3. ASSUME NEW h \in Handlers, NEW place \in Places, Goto(h, place),
             pc[h] \in Online => place \in Online,
             pc[h] \in Online => user'[h] = user[h] /\ addr'[h] = addr[h],
             \A g \in Handlers \ {h} : user'[g] = user[g] /\ addr'[g] = addr[g],
             NoNewFlag(accounts, accounts')
      PROVE  FlagInv'
  <2>1. \A g \in Handlers : pc[g] \in Online =>
            pc'[g] \in Online /\ user'[g] = user[g] /\ addr'[g] = addr[g]
    BY <1>3 DEF Goto, ThreadTypes
  <2>2. QED
    BY <1>3, <2>1, FlagKept
<1>4. ASSUME NEW h \in Handlers, HandlerStep(h) PROVE FlagInv'
  <2>1. CASE Enlist(h)
    BY <1>0, <1>3, <2>1 DEF Enlist, session, Places, Early, Online, Registered, Broken
  <2>2. CASE FlagEmptyAccount(h) \/ FlagExhausted(h)
    <3>1. user[h] \in Users
      BY <2>2 DEF FlagEmptyAccount, FlagExhausted, ThreadLocals
    <3>2. NoNewFlag(accounts, accounts')
      BY <2>2, <3>1, FlagStatements DEF FlagEmptyAccount, FlagExhausted
    <3>3. QED
      BY <1>3, <2>2, <3>2 DEF FlagEmptyAccount, FlagExhausted, session, Places, Early, Online, Registered, Broken
  <2>3. CASE StopEarly(h)
    BY <1>0, <1>2, <2>3 DEF StopEarly, Early, Online, Registered, Broken
  <2>4. CASE CheckVacant(h)
    <3>1. CASE Finish(h)
      BY <1>0, <1>2, <2>4, <3>1 DEF CheckVacant, Online, Registered, Broken
    <3>2. CASE Goto(h, "vacant") /\ UNCHANGED session
      BY <1>0, <1>3, <2>4, <3>2 DEF CheckVacant, session, Places, Claiming, Online, Registered, Broken
    <3>3. QED
      BY <2>4, <3>1, <3>2 DEF CheckVacant
  <2>5. CASE RegisterSession(h)
    BY <1>0, <1>3, <2>5 DEF RegisterSession, session, Places, Online, Registered, Broken
  <2>6. CASE ConnectAccount(h)
    <3>1. user[h] \in Users /\ addr[h] \in Addresses /\ pc[h] = "connecting"
      BY <2>6 DEF ConnectAccount, ThreadLocals, Claiming, Registered
    <3>2. pc'[h] \in Online /\ user' = user /\ addr' = addr
      BY <2>6 DEF ConnectAccount, Goto, session, ThreadTypes, Online, Registered, Broken
    <3>3. \A g \in Handlers : pc[g] \in Online => pc'[g] \in Online
      BY <3>2, <2>6 DEF ConnectAccount, Goto, ThreadTypes
    <3>4. \A v \in Users : v # user[h] => accounts'[v] = accounts[v]
      BY <2>6 DEF ConnectAccount, MarkConnected, Update, Tables
    <3>5. /\ ~Exists(accounts, user[h]) => accounts' = accounts
          /\ Exists(accounts, user[h]) => /\ accounts'[user[h]].ip = addr[h]
                                          /\ accounts'[user[h]].status = accounts[user[h]].status
      BY <2>6, <3>1 DEF ConnectAccount, MarkConnected, Update, Tables, Account
    <3>6. \A v \in Users : ~Exists(accounts, v)' => accounts'[v].ip = None
      BY <3>4, <3>5 DEF FlagInv, Exists
    <3>7. ASSUME NEW v \in Users, accounts'[v].ip # None
          PROVE  \E g \in Handlers : pc'[g] \in Online /\ user'[g] = v /\ addr'[g] = accounts'[v].ip
      <4>1. CASE v = user[h] /\ Exists(accounts, user[h])
        BY <3>2, <3>5, <4>1
      <4>2. CASE ~(v = user[h] /\ Exists(accounts, user[h]))
        <5>1. accounts'[v] = accounts[v]
          BY <3>4, <3>5, <4>2
        <5>2. PICK g \in Handlers : pc[g] \in Online /\ user[g] = v /\ addr[g] = accounts[v].ip
          BY <3>7, <5>1 DEF FlagInv, OnlineFlagBacked, Online
        <5>3. QED
          BY <3>2, <3>3, <5>1, <5>2
      <4>3. QED
        BY <4>1, <4>2
    <3>8. QED
      BY <3>6, <3>7 DEF FlagInv, OnlineFlagBacked, Online
  <2>7. CASE LoadQuota(h)
    BY <1>0, <1>3, <2>7 DEF LoadQuota, Places, Online, Registered, Broken
  <2>8. CASE CheckQuota(h) \/ CreditQuota(h)
    <3>1. PICK place \in {"flagging", "closing", "reading"} : Goto(h, place)
      BY <2>8 DEF CheckQuota, CreditQuota, NextPacket
    <3>2. UNCHANGED <<accounts, user, addr>>
      BY <2>8 DEF CheckQuota, CreditQuota, session
    <3>3. QED
      BY <1>0, <1>3, <3>1, <3>2 DEF Places, Online, Registered, Broken
  <2>9. CASE StopSession(h)
    BY <1>0, <1>3, <2>9 DEF StopSession, session, Places, Online, Registered, Broken
  <2>10. CASE ReadFinalQuota(h)
    BY <1>0, <1>3, <2>10 DEF ReadFinalQuota, Places, Online, Registered, Broken
  <2>11. CASE UnregisterSession(h)
    BY <1>0, <1>3, <2>11 DEF UnregisterSession, session, Places, Online, Registered, Broken
  <2>12. CASE UnregisterRaises(h)
    BY <1>0, <1>3, <2>12 DEF UnregisterRaises, session, Places, Online
  <2>13. CASE DisconnectAccount(h)
    <3>1. user[h] \in Users /\ carry[h] \in Int \cup {None} /\ Finish(h)
      BY <2>13 DEF DisconnectAccount, ThreadLocals, ThreadTypes
    <3>2. NoNewFlag(accounts, accounts')
      BY <2>13, <3>1, FlagStatements DEF DisconnectAccount
    <3>3. accounts'[user[h]].ip = None
      BY <2>13, <3>1 DEF DisconnectAccount, MarkDisconnected, Update, FlagInv, Tables, Account
    <3>4. \A v \in Users : ~Exists(accounts, v)' => accounts'[v].ip = None
      BY <3>2 DEF NoNewFlag, FlagInv, Exists
    <3>5. ASSUME NEW v \in Users, accounts'[v].ip # None
          PROVE  \E g \in Handlers : pc'[g] \in Online /\ user'[g] = v /\ addr'[g] = accounts'[v].ip
      <4>1. v # user[h] /\ accounts'[v].ip = accounts[v].ip
        BY <3>2, <3>3, <3>5 DEF NoNewFlag
      <4>2. PICK g \in Handlers : pc[g] \in Online /\ user[g] = v /\ addr[g] = accounts[v].ip
        BY <3>5, <4>1 DEF FlagInv, OnlineFlagBacked, Online
      <4>3. pc'[g] = pc[g] /\ user'[g] = user[g] /\ addr'[g] = addr[g]
        BY <3>1, <4>1, <4>2, FinishEffect DEF ThreadTypes
      <4>4. QED
        BY <4>1, <4>2, <4>3
    <3>6. QED
      BY <3>4, <3>5 DEF FlagInv, OnlineFlagBacked, Online
  <2>14. QED
    BY <1>4, <2>1, <2>2, <2>3, <2>4, <2>5, <2>6, <2>7, <2>8, <2>9, <2>10, <2>11, <2>12, <2>13 DEF HandlerStep
<1>5. ASSUME NEW h \in Handlers, ClientStep(h) PROVE FlagInv'
  <2>1. CASE Accept(h)
    BY <1>0, <1>3, <2>1 DEF Accept, ThreadTypes, Places, Online, Registered, Broken
  <2>2. CASE Hangup(h)
    BY <1>0, <1>2, <2>2 DEF Hangup, Early, Online, Registered, Broken
  <2>3. CASE DropEarly(h) \/ ClientLeaves(h)
    BY <1>0, <1>3, <2>3 DEF DropEarly, ClientLeaves, session, Places, Early, Online, Registered, Broken
  <2>4. ASSUME NEW u \in Users, Register(h, u) PROVE FlagInv'
    BY <1>2, <2>4, FlagStatements DEF Register, Online, Registered, Broken
  <2>5. ASSUME NEW u \in Users, Authenticate(h, u) PROVE FlagInv'
    <3>1. PICK place \in {"grace", "markzero", "authed"} : Goto(h, place)
      BY <2>5 DEF Authenticate
    <3>2. QED
      BY <1>0, <1>3, <2>5, <3>1 DEF Authenticate, ThreadTypes, Places, Early, Online, Registered, Broken
  <2>6. ASSUME NEW n \in Requests, GraceGrant(h, n) PROVE FlagInv'
    <3>1. user[h] \in Users /\ n \in Int
      BY <2>6, ServerConstants DEF GraceGrant, ThreadLocals
    <3>2. NoNewFlag(accounts, accounts')
      BY <2>6, <3>1, FlagStatements DEF GraceGrant, Grant
    <3>3. QED
      BY <1>2, <2>6, <3>2 DEF GraceGrant, Online, Registered, Broken
  <2>7. ASSUME NEW n \in Requests, RequestQuota(h, n) PROVE FlagInv'
    <3>1. user[h] \in Users /\ n \in Int
      BY <2>7, ServerConstants DEF RequestQuota, ThreadLocals
    <3>2. NoNewFlag(accounts, accounts')
      BY <2>7, <3>1, FlagStatements DEF RequestQuota, Grant
    <3>3. QED
      BY <1>3, <2>7, <3>2 DEF RequestQuota, Places, Online, Registered, Broken
  <2>8. ASSUME NEW delivered \in BOOLEAN, AssignIP(h, delivered) PROVE FlagInv'
    BY <1>0, <1>2, <2>8 DEF AssignIP, Online, Registered, Broken
  <2>9. ASSUME NEW a \in Addresses, Announce(h, a) PROVE FlagInv'
    <3>1. CASE Finish(h)
      BY <1>0, <1>2, <2>9, <3>1 DEF Announce, Online, Registered, Broken
    <3>2. CASE addr' = [addr EXCEPT ![h] = a] /\ Goto(h, "announced") /\ user' = user
      BY <1>0, <1>3, <2>9, <3>2 DEF Announce, ThreadTypes, Places, Claiming, Online, Registered, Broken
    <3>3. QED
      BY <2>9, <3>1, <3>2 DEF Announce
  <2>10. ASSUME NEW n \in Sizes, Data(h, n) PROVE FlagInv'
    <3>1. PICK place \in {"flagging", "closing", "reading"} : Goto(h, place)
      BY <2>10 DEF Data, NextPacket
    <3>2. QED
      BY <1>0, <1>3, <2>10, <3>1 DEF Data, Places, Online, Registered, Broken
  <2>11. QED
    BY <1>5, <2>1, <2>2, <2>3, <2>4, <2>5, <2>6, <2>7, <2>8, <2>9, <2>10 DEF ClientStep
<1>6. ASSUME GatewayStep \/ \E a \in Addresses, n \in Sizes : GatewayLookup(a, n)
      PROVE  FlagInv'
  <2>1. CASE GatewayFlag
    <3>1. user[gateway.handler] \in Users
      BY <2>1 DEF GatewayFlag, GatewayLocals
    <3>2. NoNewFlag(accounts, accounts')
      BY <2>1, <3>1, FlagStatements DEF GatewayFlag
    <3>3. QED
      BY <1>1, <2>1, <3>2 DEF GatewayFlag, session
  <2>2. CASE ~GatewayFlag
    BY <1>0, <1>1, <1>6, <2>2 DEF GatewayStep, GatewayLookup, GatewayCharge, GatewaySend, GatewayHalt, session
  <2>3. QED
    BY <2>1, <2>2
<1>7. ASSUME NEW p \in Panels, PanelStep(p) PROVE FlagInv'
  BY <1>0, <1>1, <1>7 DEF PanelStep, PanelSnapshot, PanelVisit, session
<1>8. ASSUME NEW p \in Panels, NEW u \in Users,
             PanelBan(p, u) \/ PanelUnban(p, u) \/ PanelRegister(p, u)
      PROVE  FlagInv'
  <2>1. NoNewFlag(accounts, accounts')
    BY <1>8, FlagStatements DEF PanelBan, PanelUnban, PanelRegister
  <2>2. QED
    BY <1>1, <1>8, <2>1 DEF PanelBan, PanelUnban, PanelRegister, session
<1>9. ASSUME NEW p \in Panels, NEW u \in Users, NEW n \in TopUps, PanelAddQuota(p, u, n)
      PROVE  FlagInv'
  <2>1. n \in Int
    BY ServerConstants
  <2>2. NoNewFlag(accounts, accounts')
    BY <1>9, <2>1, FlagStatements DEF PanelAddQuota, Grant
  <2>3. QED
    BY <1>1, <1>9, <2>2 DEF PanelAddQuota, session
<1>10. ASSUME Shutdown \/ \E u \in Users, a \in Addresses : ClientGivesUp(u, a) PROVE FlagInv'
  BY <1>0, <1>1, <1>10 DEF Shutdown, ClientGivesUp, session
<1>11. QED
  BY <1>4, <1>5, <1>6, <1>7, <1>8, <1>9, <1>10 DEF Next, OperatorStep

LEMMA FlagInit == Init => FlagInv
BY DEF Init, FlagInv, OnlineFlagBacked, InitialAccounts, Row

LEMMA FlagRestart == CoreInv /\ Restart => FlagInv'
BY DEF CoreInv, TypeOK, Restart, FlagInv, OnlineFlagBacked, ResetAllConnections, Tables, Account

LEMMA FlagStutter == FlagInv /\ UNCHANGED vars => FlagInv'
BY DEF FlagInv, OnlineFlagBacked, Exists, vars, session

\* An account is shown online at an address only while a thread of that account serves
\* that address or died in unregister_session with it: no order of the threads leaves
\* another flag behind, and after a restart ResetAllConnections has taken down those of
\* the sessions that died with the process.
THEOREM OnlineFlagHolds == SpecWithRestarts => []OnlineFlagBacked
<1>1. CoreInv /\ FlagInv /\ [Next \/ Restart]_vars => FlagInv'
  BY FlagStep, FlagRestart, FlagStutter
<1>2. FlagInv => OnlineFlagBacked
  BY DEF FlagInv
<1>3. QED
  BY <1>1, <1>2, FlagInit, CoreHolds, PTL DEF SpecWithRestarts

-----------------------------------------------------------------------------
\* The quota.  What a statement writes is bounded by what was granted before it,
\* and by what the grant adds.

LEMMA ClampBound == \A n \in Int : \A b \in Nat : n <= b => AtLeastZero(n) <= b
BY DEF AtLeastZero

LEMMA QuotaStatements ==
    ASSUME NEW db \in Tables, NEW u \in Users
    PROVE  /\ \A v \in Users : CreateUser(db, u)[v].quota \in {db[v].quota, 0}
           /\ \A n \in Int \cup {None}, v \in Users :
                MarkDisconnected(db, u, n)[v].quota = db[v].quota
                    \/ (v = u /\ n # None /\ MarkDisconnected(db, u, n)[v].quota = AtLeastZero(n))
           /\ \A v \in Users : MarkQuotaExhausted(db, u)[v].quota \in {db[v].quota, 0}
           /\ \A a \in Addresses, v \in Users : MarkConnected(db, u, a)[v].quota = db[v].quota
           /\ \A s \in {"active", "banned"}, v \in Users :
                SetAccountStatus(db, u, s)[v].quota = db[v].quota
           /\ \A v \in Users : ResetAllConnections(db)[v].quota = db[v].quota
<1>1. \A v \in Users : db[v] \in Account
  BY DEF Tables
<1>2. \A v \in Users : CreateUser(db, u)[v].quota \in {db[v].quota, 0}
  BY <1>1 DEF CreateUser, Row, Tables
<1>3. \A n \in Int \cup {None}, v \in Users :
        MarkDisconnected(db, u, n)[v].quota = db[v].quota
            \/ (v = u /\ n # None /\ MarkDisconnected(db, u, n)[v].quota = AtLeastZero(n))
  BY <1>1 DEF MarkDisconnected, Update, Account, Tables
<1>4. \A v \in Users : MarkQuotaExhausted(db, u)[v].quota \in {db[v].quota, 0}
  BY <1>1 DEF MarkQuotaExhausted, Update, Row, Tables
<1>5. \A a \in Addresses, v \in Users : MarkConnected(db, u, a)[v].quota = db[v].quota
  BY <1>1 DEF MarkConnected, Update, Account, Tables
<1>6. \A s \in {"active", "banned"}, v \in Users :
        SetAccountStatus(db, u, s)[v].quota = db[v].quota
  BY <1>1 DEF SetAccountStatus, Update, Account, Tables
<1>7. \A v \in Users : ResetAllConnections(db)[v].quota = db[v].quota
  BY <1>1 DEF ResetAllConnections, Account
<1>8. QED
  BY <1>2, <1>3, <1>4, <1>5, <1>6, <1>7

\* A grant raises the history, and the table by no more.
LEMMA GrantEarned ==
    ASSUME accounts \in Tables, granted \in [Users -> Nat], TableEarned,
           NEW u \in Users, NEW n \in Int, Grant(u, n)
    PROVE  /\ TableEarned'
           /\ \A v \in Users : granted[v] <= granted'[v]
           /\ granted'[u] = granted[u] + AtLeastZero(n)
<1>1. AtLeastZero(n) \in Nat /\ n <= AtLeastZero(n)
  BY DEF AtLeastZero
<1>2. /\ granted'[u] = granted[u] + AtLeastZero(n)
      /\ \A v \in Users : v # u => granted'[v] = granted[v]
  BY DEF Grant
<1>3. accounts[u] \in Account /\ accounts[u].quota \in Nat
  BY DEF Tables, Account
<1>4. /\ accounts'[u].quota \in {accounts[u].quota, AtLeastZero(accounts[u].quota + n)}
      /\ \A v \in Users : v # u => accounts'[v] = accounts[v]
  BY <1>3 DEF Grant, AddQuota, Update, Tables, Account
<1>5. AtLeastZero(accounts[u].quota + n) <= accounts[u].quota + AtLeastZero(n)
  BY <1>3 DEF AtLeastZero
<1>6. accounts'[u].quota <= granted'[u]
  <2>1. granted[u] \in Nat /\ accounts[u].quota <= granted[u]
    BY DEF TableEarned
  <2>2. CASE accounts'[u].quota = accounts[u].quota
    BY <1>1, <1>2, <1>3, <2>1, <2>2
  <2>3. CASE accounts'[u].quota = AtLeastZero(accounts[u].quota + n)
    <3>1. AtLeastZero(accounts[u].quota + n) \in Nat
      BY <1>3 DEF AtLeastZero
    <3>2. QED
      BY <1>1, <1>2, <1>3, <1>5, <2>1, <2>3, <3>1
  <2>4. QED
    BY <1>4, <2>2, <2>3
<1>7. \A v \in Users : granted[v] <= granted'[v]
  BY <1>1, <1>2
<1>8. TableEarned'
  BY <1>2, <1>4, <1>6 DEF TableEarned
<1>9. QED
  BY <1>2, <1>7, <1>8

\* A step leaves a handler as it was, or with less quota.
Spared(g) ==
    /\ pc'[g] = pc[g] /\ user'[g] = user[g] /\ carry'[g] = carry[g]
    /\ quota'[g] <= quota[g] \/ quota'[g] = 0

LEMMA SparedEarned ==
    ASSUME CoreInv, ThreadTypes', granted' \in [Users -> Nat],
           \A v \in Users : granted[v] <= granted'[v],
           NEW g \in Handlers, SessionEarned(g), Spared(g)
    PROVE  SessionEarned(g)'
<1> USE DEF CoreInv, TypeOK, LocalsOK
<1>1. quota[g] \in Int /\ quota'[g] \in Int /\ (quota'[g] <= quota[g] \/ quota'[g] = 0)
  BY DEF ThreadTypes, Spared
<1>2. pc'[g] = pc[g] /\ user'[g] = user[g] /\ carry'[g] = carry[g]
  BY DEF Spared
<1>3. CASE user[g] \in Users
  <2>1. granted[user[g]] \in Nat /\ granted'[user[g]] \in Nat /\ granted[user[g]] <= granted'[user[g]]
    BY <1>3
  <2>2. pc'[g] \in Registered => quota'[g] <= granted'[user'[g]]
    BY <1>1, <1>2, <2>1 DEF SessionEarned
  <2>3. pc'[g] \in {"accepted", "markzero"} \cup Early \cup Claiming => quota'[g] <= 0
    BY <1>1, <1>2 DEF SessionEarned
  <2>4. pc'[g] = "crediting" =>
          carry'[g] <= granted'[user'[g]] /\ quota'[g] + carry'[g] <= granted'[user'[g]]
    <3>1. SUFFICES ASSUME pc[g] = "crediting"
                   PROVE  carry[g] <= granted'[user[g]] /\ quota'[g] + carry[g] <= granted'[user[g]]
      BY <1>2
    <3>2. /\ carry[g] \in Int /\ carry[g] <= granted[user[g]]
          /\ quota[g] + carry[g] <= granted[user[g]]
      BY <3>1 DEF ThreadLocals, SessionEarned
    <3>3. QED
      BY <1>1, <2>1, <3>2
  <2>5. (pc'[g] \in {"unregister", "disconnecting"} /\ carry'[g] # None) => carry'[g] <= granted'[user'[g]]
    <3>1. SUFFICES ASSUME pc[g] \in {"unregister", "disconnecting"}, carry[g] # None
                   PROVE  carry[g] <= granted'[user[g]]
      BY <1>2
    <3>2. carry[g] \in Int /\ carry[g] <= granted[user[g]]
      BY <3>1 DEF ThreadTypes, SessionEarned
    <3>3. QED
      BY <2>1, <3>2
  <2>6. QED
    BY <2>2, <2>3, <2>4, <2>5 DEF SessionEarned
<1>4. CASE user[g] \notin Users
  <2>1. pc[g] \in {"closed", "accepted", "opened"}
    BY <1>4 DEF ThreadLocals
  <2>2. pc[g] \in {"accepted", "opened"} => quota'[g] <= 0
    BY <1>1 DEF SessionEarned, Early
  <2>3. QED
    BY <1>2, <2>1, <2>2 DEF SessionEarned, Early, Claiming, Registered
<1>5. QED
  BY <1>3, <1>4

\* A charge, on whichever thread, takes quota from one handler.
LEMMA ChargeSpares ==
    ASSUME CoreInv, NEW h \in Handlers, NEW n \in Nat,
           Unmetered(h) \/ Deducted(h, n) \/ Exhausted(h, n)
    PROVE  /\ quota'[h] <= quota[h] \/ quota'[h] = 0
           /\ \A g \in Handlers \ {h} : quota'[g] = quota[g]
<1> USE DEF CoreInv, TypeOK, ThreadTypes
<1>1. CASE Unmetered(h)
  BY <1>1 DEF Unmetered
<1>2. CASE Deducted(h, n)
  BY <1>2 DEF Deducted
<1>3. CASE Exhausted(h, n)
  BY <1>3 DEF Exhausted
<1>4. QED
  BY <1>1, <1>2, <1>3

LEMMA FinishSpares ==
    ASSUME CoreInv, NEW h \in Handlers, Finish(h)
    PROVE  SessionEarned(h)' /\ \A g \in Handlers \ {h} : Spared(g)
<1> USE DEF CoreInv, TypeOK, ThreadTypes
<1>1. pc'[h] = "closed"
  BY DEF Finish, Goto
<1>2. \A g \in Handlers \ {h} : pc'[g] = pc[g] /\ user'[g] = user[g] /\ carry'[g] = carry[g]
  BY DEF Finish, Goto, session
<1>3. \A g \in Handlers \ {h} : quota'[g] = quota[g]
  BY DEF Finish, session
<1>4. SessionEarned(h)'
  BY <1>1 DEF SessionEarned, Early, Claiming, Registered
<1>5. \A g \in Handlers \ {h} : quota'[g] <= quota[g]
  BY <1>3
<1>6. QED
  BY <1>2, <1>4, <1>5 DEF Spared

\* What every step has to keep when it changes only one handler, or none.
LEMMA OneHandler ==
    ASSUME CoreInv, CoreInv', QuotaInv, TableEarned', NothingToAdd',
           \A v \in Users : granted[v] <= granted'[v],
           NEW h \in Handlers, SessionEarned(h)', \A g \in Handlers \ {h} : Spared(g)
    PROVE  QuotaInv'
<1>1. \A g \in Handlers \ {h} : SessionEarned(g)'
  BY SparedEarned DEF QuotaInv, CoreInv, TypeOK
<1>2. QED
  BY <1>1 DEF QuotaInv

LEMMA AllSpared ==
    ASSUME CoreInv, CoreInv', QuotaInv, TableEarned', NothingToAdd',
           \A v \in Users : granted[v] <= granted'[v],
           \A g \in Handlers : Spared(g)
    PROVE  QuotaInv'
<1>1. \A g \in Handlers : SessionEarned(g)'
  BY SparedEarned DEF QuotaInv, CoreInv, TypeOK
<1>2. QED
  BY <1>1 DEF QuotaInv

LEMMA QuotaStep == OnlyWithdrawals /\ CoreInv /\ CoreInv' /\ QuotaInv /\ Next => QuotaInv'
<1> SUFFICES ASSUME OnlyWithdrawals, CoreInv, CoreInv', QuotaInv, Next PROVE QuotaInv'
  OBVIOUS
<1> USE DEF CoreInv, TypeOK, LocalsOK
<1>0. /\ TableEarned /\ NothingToAdd
      /\ accounts' = accounts /\ granted' = granted => TableEarned'
      /\ panel' = panel => NothingToAdd'
      /\ granted' = granted => \A v \in Users : granted[v] <= granted'[v]
  BY DEF QuotaInv, TableEarned, NothingToAdd
<1>1. ASSUME NEW h \in Handlers, Finish(h), TableEarned', panel' = panel,
             \A v \in Users : granted[v] <= granted'[v]
      PROVE  QuotaInv'
  BY <1>0, <1>1, FinishSpares, OneHandler
\* A handler moves on and keeps what it has.
<1>2. ASSUME NEW h \in Handlers, NEW place \in Places, Goto(h, place),
             user' = user, carry' = carry, quota' = quota, granted' = granted,
             TableEarned', panel' = panel, SessionEarned(h)'
      PROVE  QuotaInv'
  <2>1. \A g \in Handlers \ {h} : Spared(g)
    BY <1>2 DEF Spared, Goto, ThreadTypes
  <2>2. QED
    BY <1>0, <1>2, <2>1, OneHandler
<1>3. ASSUME pc' = pc, user' = user, carry' = carry, quota' = quota,
             TableEarned', NothingToAdd', \A v \in Users : granted[v] <= granted'[v]
      PROVE  QuotaInv'
  <2>1. \A g \in Handlers : Spared(g)
    BY <1>3 DEF Spared, ThreadTypes
  <2>2. QED
    BY <1>3, <2>1, AllSpared
<1>4. ASSUME NEW h \in Handlers, HandlerStep(h) PROVE QuotaInv'
  <2>0. SessionEarned(h) /\ quota[h] \in Int
    BY DEF QuotaInv, ThreadTypes
  <2>1. CASE Enlist(h)
    <3>1. SessionEarned(h)'
      BY <2>0, <2>1 DEF Enlist, Goto, session, outside, SessionEarned, ThreadTypes, Early, Claiming, Registered
    <3>2. QED
      BY <1>0, <1>2, <2>1, <3>1 DEF Enlist, session, outside, Places, Early
  <2>2. CASE FlagEmptyAccount(h)
    <3>1. SessionEarned(h)'
      BY <2>0, <2>2 DEF FlagEmptyAccount, Goto, session, outside, SessionEarned, ThreadTypes, Early, Claiming, Registered
    <3>2. user[h] \in Users
      BY <2>2 DEF FlagEmptyAccount, ThreadLocals
    <3>3. TableEarned'
      BY <1>0, <2>2, <3>2, QuotaStatements DEF FlagEmptyAccount, outside, TableEarned
    <3>4. QED
      BY <1>2, <2>2, <3>1, <3>3 DEF FlagEmptyAccount, session, outside, Places, Early
  <2>3. CASE StopEarly(h)
    BY <1>0, <1>1, <2>3 DEF StopEarly, outside
  <2>4. CASE CheckVacant(h)
    <3>1. CASE Finish(h)
      BY <1>0, <1>1, <2>4, <3>1 DEF CheckVacant, outside
    <3>2. CASE Goto(h, "vacant") /\ UNCHANGED session
      <4>1. SessionEarned(h)'
        BY <2>0, <2>4, <3>2 DEF CheckVacant, Goto, session, outside, SessionEarned, ThreadTypes, Early, Claiming, Registered
      <4>2. QED
        BY <1>0, <1>2, <2>4, <3>2, <4>1 DEF CheckVacant, session, outside, Places, Claiming
    <3>3. QED
      BY <2>4, <3>1, <3>2 DEF CheckVacant
  \* A session starts with no quota of its own,
  <2>5. CASE RegisterSession(h)
    <3>1. user[h] \in Users /\ granted[user[h]] \in Nat /\ quota[h] <= 0
      BY <2>0, <2>5 DEF RegisterSession, ThreadLocals, SessionEarned, Claiming
    <3>2. quota[h] <= granted[user[h]]
      BY <2>0, <3>1
    <3>3. pc'[h] = "connecting" /\ UNCHANGED <<user, quota, carry, granted>>
      BY <2>5 DEF RegisterSession, Goto, session, outside, ThreadTypes
    <3>4. SessionEarned(h)'
      BY <3>2, <3>3 DEF SessionEarned, Early, Claiming, Registered
    <3>5. QED
      BY <1>0, <1>2, <2>5, <3>4 DEF RegisterSession, session, outside, Places, Registered
  <2>6. CASE ConnectAccount(h)
    <3>1. SessionEarned(h)'
      BY <2>0, <2>6 DEF ConnectAccount, Goto, session, outside, SessionEarned, ThreadTypes, Early, Claiming, Registered
    <3>2. user[h] \in Users /\ addr[h] \in Addresses
      BY <2>6 DEF ConnectAccount, ThreadLocals, Registered
    <3>3. TableEarned'
      BY <1>0, <2>6, <3>2, QuotaStatements DEF ConnectAccount, outside, TableEarned
    <3>4. QED
      BY <1>2, <2>6, <3>1, <3>3 DEF ConnectAccount, session, outside, Places, Registered
  \* and takes what the table has.
  <2>7. CASE LoadQuota(h)
    <3>1. user[h] \in Users
      BY <2>7 DEF LoadQuota, ThreadLocals
    <3>2. quota'[h] <= granted'[user'[h]] /\ pc'[h] = "loaded"
      BY <1>0, <2>7, <3>1 DEF LoadQuota, TableEarned, Goto, outside, ThreadTypes
    <3>3. SessionEarned(h)'
      BY <3>2 DEF SessionEarned, Early, Claiming
    <3>4. \A g \in Handlers \ {h} : Spared(g)
      BY <2>7 DEF LoadQuota, Spared, Goto, ThreadTypes
    <3>5. QED
      BY <1>0, <2>7, <3>3, <3>4, OneHandler DEF LoadQuota, outside
  <2>8. CASE CheckQuota(h)
    <3>1. PICK place \in {"flagging", "closing", "reading"} : Goto(h, place)
      BY <2>8 DEF CheckQuota, NextPacket
    <3>2. SessionEarned(h)'
      BY <2>0, <2>8, <3>1 DEF CheckQuota, Goto, session, outside, SessionEarned, ThreadTypes, Early, Claiming, Registered
    <3>3. QED
      BY <1>0, <1>2, <2>8, <3>1, <3>2 DEF CheckQuota, session, outside, Places, Registered
  <2>9. CASE CreditQuota(h)
    <3>1. PICK place \in {"closing", "reading"} : Goto(h, place)
      BY <2>9 DEF CreditQuota, NextPacket
    <3>2. quota'[h] = quota[h] + carry[h] /\ pc'[h] = place /\ user' = user /\ granted' = granted
      BY <2>9, <3>1 DEF CreditQuota, Goto, outside, ThreadTypes
    <3>3. quota'[h] <= granted'[user'[h]]
      BY <2>0, <2>9, <3>2 DEF CreditQuota, SessionEarned
    <3>4. SessionEarned(h)'
      BY <3>2, <3>3 DEF SessionEarned, Early, Claiming
    <3>5. \A g \in Handlers \ {h} : Spared(g)
      BY <2>9, <3>1 DEF CreditQuota, Spared, Goto, ThreadTypes
    <3>6. QED
      BY <1>0, <2>9, <3>4, <3>5, OneHandler DEF CreditQuota, outside
  <2>10. CASE StopSession(h)
    <3>1. SessionEarned(h)'
      BY <2>0, <2>10 DEF StopSession, Goto, session, outside, SessionEarned, ThreadTypes, Early, Claiming, Registered
    <3>2. QED
      BY <1>0, <1>2, <2>10, <3>1 DEF StopSession, session, outside, Places, Registered
  <2>11. CASE FlagExhausted(h)
    <3>1. SessionEarned(h)'
      BY <2>0, <2>11 DEF FlagExhausted, Goto, session, outside, SessionEarned, ThreadTypes, Early, Claiming, Registered
    <3>2. user[h] \in Users
      BY <2>11 DEF FlagExhausted, ThreadLocals
    <3>3. TableEarned'
      BY <1>0, <2>11, <3>2, QuotaStatements DEF FlagExhausted, outside, TableEarned
    <3>4. QED
      BY <1>2, <2>11, <3>1, <3>3 DEF FlagExhausted, session, outside, Places, Registered
  \* What a session ends with is at most what it may have,
  <2>12. CASE ReadFinalQuota(h)
    <3>1. user' = user /\ granted' = granted /\ quota' = quota /\ pc'[h] = "unregister"
      BY <2>12 DEF ReadFinalQuota, Goto, outside, ThreadTypes
    <3>2. quota[h] <= granted[user[h]] /\ carry'[h] \in {quota[h], None}
      BY <2>0, <2>12 DEF ReadFinalQuota, SessionEarned, Registered, ThreadTypes
    <3>3. SessionEarned(h)'
      BY <3>1, <3>2 DEF SessionEarned, Early, Claiming
    <3>4. \A g \in Handlers \ {h} : Spared(g)
      BY <2>12 DEF ReadFinalQuota, Spared, Goto, ThreadTypes
    <3>5. QED
      BY <1>0, <2>12, <3>3, <3>4, OneHandler DEF ReadFinalQuota, outside
  <2>13. CASE UnregisterSession(h)
    <3>1. SessionEarned(h)'
      BY <2>0, <2>13 DEF UnregisterSession, Goto, session, outside, SessionEarned, ThreadTypes, Early, Claiming, Registered
    <3>2. QED
      BY <1>0, <1>2, <2>13, <3>1 DEF UnregisterSession, session, outside, Places
  <2>14. CASE UnregisterRaises(h)
    <3>1. SessionEarned(h)'
      BY <2>0, <2>14 DEF UnregisterRaises, Goto, session, outside, SessionEarned, ThreadTypes, Early, Claiming, Registered, Broken
    <3>2. QED
      BY <1>0, <1>2, <2>14, <3>1 DEF UnregisterRaises, session, outside, Places
  \* and so is what it writes back, clamped at zero.
  <2>15. CASE DisconnectAccount(h)
    <3>1. user[h] \in Users /\ carry[h] \in Int \cup {None} /\ granted[user[h]] \in Nat
      BY <2>15 DEF DisconnectAccount, ThreadLocals, ThreadTypes
    <3>2. carry[h] # None => AtLeastZero(carry[h]) <= granted[user[h]]
      BY <2>0, <2>15, <3>1, ClampBound DEF DisconnectAccount, SessionEarned
    <3>3. accounts' = MarkDisconnected(accounts, user[h], carry[h]) /\ granted' = granted
      BY <2>15 DEF DisconnectAccount, outside
    <3>4. \A v \in Users : accounts'[v].quota = accounts[v].quota
              \/ (v = user[h] /\ carry[h] # None /\ accounts'[v].quota = AtLeastZero(carry[h]))
      <4>1. ASSUME NEW n \in Int \cup {None}, NEW v \in Users
            PROVE  LET new == MarkDisconnected(accounts, user[h], n)
                   IN  new[v].quota = accounts[v].quota
                           \/ (v = user[h] /\ n # None /\ new[v].quota = AtLeastZero(n))
        BY <3>1, QuotaStatements
      <4>2. QED
        BY <3>1, <3>3, <4>1
    <3>5. TableEarned'
      BY <1>0, <3>2, <3>3, <3>4 DEF TableEarned
    <3>6. QED
      BY <1>0, <1>1, <2>15, <3>5 DEF DisconnectAccount, outside
  <2>16. QED
    BY <1>4, <2>1, <2>2, <2>3, <2>4, <2>5, <2>6, <2>7, <2>8, <2>9, <2>10, <2>11, <2>12, <2>13, <2>14, <2>15 DEF HandlerStep
<1>5. ASSUME NEW h \in Handlers, ClientStep(h) PROVE QuotaInv'
  <2>0. SessionEarned(h) /\ quota[h] \in Int
    BY DEF QuotaInv, ThreadTypes
  <2>1. CASE Accept(h)
    <3>1. pc'[h] = "accepted" /\ quota'[h] = 0
      BY <2>1 DEF Accept, Goto, ThreadTypes
    <3>2. SessionEarned(h)'
      BY <3>1 DEF SessionEarned, Registered
    <3>3. \A g \in Handlers \ {h} : Spared(g)
      BY <2>1 DEF Accept, Spared, Goto, ThreadTypes
    <3>4. QED
      BY <1>0, <2>1, <3>2, <3>3, OneHandler DEF Accept, outside
  <2>2. CASE Hangup(h)
    BY <1>0, <1>1, <2>2 DEF Hangup, outside
  <2>3. CASE DropEarly(h) \/ ClientLeaves(h)
    <3>1. SessionEarned(h)'
      BY <2>0, <2>3 DEF DropEarly, ClientLeaves, Goto, session, outside, SessionEarned, ThreadTypes, Early, Claiming, Registered
    <3>2. QED
      BY <1>0, <1>2, <2>3, <3>1 DEF DropEarly, ClientLeaves, session, outside, Places, Early, Registered
  <2>4. ASSUME NEW u \in Users, Register(h, u) PROVE QuotaInv'
    <3>1. TableEarned'
      BY <1>0, <2>4, QuotaStatements DEF Register, outside, TableEarned
    <3>2. QED
      BY <1>0, <1>1, <2>4, <3>1 DEF Register, outside
  <2>5. ASSUME NEW u \in Users, Authenticate(h, u) PROVE QuotaInv'
    <3>1. PICK place \in {"grace", "markzero", "authed"} : Goto(h, place)
      BY <2>5 DEF Authenticate
    <3>2. quota' = quota /\ carry' = carry /\ pc'[h] = place /\ quota[h] <= 0
      BY <2>0, <2>5, <3>1 DEF Authenticate, Goto, SessionEarned, ThreadTypes, Early
    <3>3. SessionEarned(h)'
      BY <3>2 DEF SessionEarned, Registered
    <3>4. \A g \in Handlers \ {h} : Spared(g)
      BY <2>5, <3>1, <3>2 DEF Authenticate, Spared, Goto, ThreadTypes
    <3>5. QED
      BY <1>0, <2>5, <3>3, <3>4, OneHandler DEF Authenticate, outside
  <2>6. ASSUME NEW n \in Requests, GraceGrant(h, n) PROVE QuotaInv'
    <3>1. user[h] \in Users /\ n \in Int
      BY <2>6, ServerConstants DEF GraceGrant, ThreadLocals
    <3>2. TableEarned' /\ \A v \in Users : granted[v] <= granted'[v]
      BY <1>0, <2>6, <3>1, GrantEarned DEF GraceGrant
    <3>3. QED
      BY <1>0, <1>1, <2>6, <3>2 DEF GraceGrant
  \* A grant leaves room for the credit that follows it.
  <2>7. ASSUME NEW n \in Requests, RequestQuota(h, n) PROVE QuotaInv'
    <3>1. user[h] \in Users /\ n \in Nat
      BY <2>7, ServerConstants DEF RequestQuota, ThreadLocals
    <3>2. /\ TableEarned'
          /\ \A v \in Users : granted[v] <= granted'[v]
          /\ granted'[user[h]] = granted[user[h]] + AtLeastZero(n)
      BY <1>0, <2>7, <3>1, GrantEarned DEF RequestQuota
    <3>3. granted'[user[h]] = granted[user[h]] + n /\ granted[user[h]] \in Nat
      BY <3>1, <3>2 DEF AtLeastZero
    <3>4. quota[h] <= granted[user[h]]
      BY <2>0, <2>7 DEF RequestQuota, SessionEarned, Registered
    <3>5. n <= granted'[user[h]] /\ quota[h] + n <= granted'[user[h]] /\ quota[h] <= granted'[user[h]]
      BY <2>0, <3>1, <3>3, <3>4
    <3>6. pc'[h] = "crediting" /\ carry'[h] = n /\ quota' = quota /\ user' = user
      BY <2>7 DEF RequestQuota, Goto, ThreadTypes
    <3>7. SessionEarned(h)'
      BY <3>5, <3>6 DEF SessionEarned, Early, Claiming
    <3>8. \A g \in Handlers \ {h} : Spared(g)
      BY <2>7 DEF RequestQuota, Spared, Goto, ThreadTypes
    <3>9. QED
      BY <1>0, <2>7, <3>2, <3>7, <3>8, OneHandler DEF RequestQuota
  <2>8. ASSUME NEW delivered \in BOOLEAN, AssignIP(h, delivered) PROVE QuotaInv'
    BY <1>0, <1>1, <2>8 DEF AssignIP
  <2>9. ASSUME NEW a \in Addresses, Announce(h, a) PROVE QuotaInv'
    <3>1. CASE Finish(h)
      BY <1>0, <1>1, <2>9, <3>1 DEF Announce
    <3>2. CASE Goto(h, "announced") /\ UNCHANGED <<user, quota, carry>>
      <4>1. pc'[h] = "announced" /\ quota[h] <= 0
        BY <2>0, <2>9, <3>2 DEF Announce, Goto, SessionEarned, ThreadTypes, Early
      <4>2. SessionEarned(h)'
        BY <3>2, <4>1 DEF SessionEarned, Registered
      <4>3. QED
        BY <1>0, <1>2, <2>9, <3>2, <4>2 DEF Announce, Places, Claiming
    <3>3. QED
      BY <2>9, <3>1, <3>2 DEF Announce
  <2>10. ASSUME NEW n \in Sizes, Data(h, n) PROVE QuotaInv'
    <3>1. PICK place \in {"flagging", "closing", "reading"} : Goto(h, place)
      BY <2>10 DEF Data, NextPacket
    <3>2. n \in Nat /\ user[h] \in Users /\ granted[user[h]] \in Nat
      BY <2>10, ServerConstants DEF Data, ThreadLocals
    <3>3. /\ quota'[h] <= quota[h] \/ quota'[h] = 0
          /\ \A g \in Handlers \ {h} : quota'[g] = quota[g]
      BY <2>10, <3>2, ChargeSpares DEF Data
    <3>4. quota[h] <= granted[user[h]] /\ quota'[h] \in Int
      BY <2>0, <2>10 DEF Data, SessionEarned, Registered, ThreadTypes
    <3>5. quota'[h] <= granted[user[h]]
      BY <2>0, <3>2, <3>3, <3>4
    <3>6. pc'[h] = place /\ user' = user /\ carry' = carry /\ granted' = granted
      BY <2>10, <3>1 DEF Data, Goto, outside, ThreadTypes
    <3>7. SessionEarned(h)'
      BY <3>5, <3>6 DEF SessionEarned, Early, Claiming
    <3>8. \A g \in Handlers \ {h} : Spared(g)
      BY <3>1, <3>3, <3>6 DEF Spared, Goto, ThreadTypes
    <3>9. QED
      BY <1>0, <2>10, <3>7, <3>8, OneHandler DEF Data, outside
  <2>11. QED
    BY <1>5, <2>1, <2>2, <2>3, <2>4, <2>5, <2>6, <2>7, <2>8, <2>9, <2>10 DEF ClientStep
<1>6. ASSUME GatewayStep \/ \E a \in Addresses, n \in Sizes : GatewayLookup(a, n)
      PROVE  QuotaInv'
  <2>1. CASE GatewayCharge
    <3>1. gateway.handler \in Handlers /\ gateway.size \in Nat
      BY <2>1 DEF GatewayCharge, GatewayLocals, GatewayStates
    <3>2. /\ quota'[gateway.handler] <= quota[gateway.handler] \/ quota'[gateway.handler] = 0
          /\ \A g \in Handlers \ {gateway.handler} : quota'[g] = quota[g]
      BY <2>1, <3>1, ChargeSpares DEF GatewayCharge
    <3>3. \A g \in Handlers : Spared(g)
      BY <2>1, <3>2 DEF GatewayCharge, Spared, ThreadTypes
    <3>4. QED
      BY <1>0, <2>1, <3>3, AllSpared DEF GatewayCharge
  <2>2. CASE GatewayFlag
    <3>1. user[gateway.handler] \in Users
      BY <2>2 DEF GatewayFlag, GatewayLocals
    <3>2. TableEarned'
      BY <1>0, <2>2, <3>1, QuotaStatements DEF GatewayFlag, TableEarned
    <3>3. QED
      BY <1>0, <1>3, <2>2, <3>2 DEF GatewayFlag, session
  <2>3. CASE ~GatewayCharge /\ ~GatewayFlag
    BY <1>0, <1>3, <1>6, <2>3 DEF GatewayStep, GatewayLookup, GatewaySend, GatewayHalt, session
  <2>4. QED
    BY <2>1, <2>2, <2>3
<1>7. ASSUME NEW p \in Panels, PanelSnapshot(p) PROVE QuotaInv'
  <2>1. NothingToAdd'
    BY <1>0, <1>7 DEF PanelSnapshot, NothingToAdd, PanelIdle, PanelStates
  <2>2. QED
    BY <1>0, <1>3, <1>7, <2>1 DEF PanelSnapshot, session
\* What a panel thread adds to a session is not positive.
<1>8. ASSUME NEW p \in Panels, NEW h \in Handlers, PanelVisit(p, h) PROVE QuotaInv'
  <2>1. NothingToAdd'
    BY <1>0, <1>8 DEF PanelVisit, NothingToAdd, PanelIdle, PanelStates
  <2>2. panel[p].amount \in Int /\ panel[p].amount <= 0
    BY <1>0 DEF NothingToAdd, PanelStates
  <2>3. /\ quota'[h] \in {quota[h], quota[h] + panel[p].amount}
        /\ \A g \in Handlers \ {h} : quota'[g] = quota[g]
    BY <1>8 DEF PanelVisit, ThreadTypes
  <2>4. \A g \in Handlers : quota'[g] <= quota[g]
    BY <2>2, <2>3 DEF ThreadTypes
  <2>5. \A g \in Handlers : Spared(g)
    BY <1>8, <2>4 DEF PanelVisit, Spared
  <2>6. QED
    BY <1>0, <1>8, <2>1, <2>5, AllSpared DEF PanelVisit
<1>9. ASSUME NEW p \in Panels, NEW u \in Users, PanelBan(p, u) \/ PanelUnban(p, u) \/ PanelRegister(p, u)
      PROVE  QuotaInv'
  <2>1. TableEarned'
    BY <1>0, <1>9, QuotaStatements DEF PanelBan, PanelUnban, PanelRegister, outside, TableEarned
  <2>2. NothingToAdd'
    BY <1>0, <1>9 DEF PanelBan, PanelUnban, PanelRegister, outside, NothingToAdd, PanelJob
  <2>3. QED
    BY <1>0, <1>3, <1>9, <2>1, <2>2 DEF PanelBan, PanelUnban, PanelRegister, session, outside
<1>10. ASSUME NEW p \in Panels, NEW u \in Users, NEW n \in TopUps, PanelAddQuota(p, u, n)
      PROVE  QuotaInv'
  <2>1. n \in Int /\ n < 0
    BY ServerConstants DEF OnlyWithdrawals
  <2>2. TableEarned' /\ \A v \in Users : granted[v] <= granted'[v]
    BY <1>0, <1>10, <2>1, GrantEarned DEF PanelAddQuota
  <2>3. NothingToAdd'
    BY <1>0, <1>10, <2>1 DEF PanelAddQuota, NothingToAdd, PanelJob
  <2>4. QED
    BY <1>3, <1>10, <2>2, <2>3 DEF PanelAddQuota, session
<1>11. ASSUME Shutdown \/ \E u \in Users, a \in Addresses : ClientGivesUp(u, a) PROVE QuotaInv'
  BY <1>0, <1>3, <1>11 DEF Shutdown, ClientGivesUp, session
<1>12. QED
  BY <1>4, <1>5, <1>6, <1>7, <1>8, <1>9, <1>10, <1>11 DEF Next, OperatorStep, PanelStep

LEMMA QuotaInit == Init => QuotaInv
<1> SUFFICES ASSUME Init PROVE QuotaInv
  OBVIOUS
<1>1. TableEarned
  <2>1. IInv
    BY InitInv
  <2>2. \A u \in Users : accounts[u].quota \in Nat
    BY <2>1 DEF IInv, TypeOK, Tables, Account
  <2>3. \A u \in Users : granted[u] = accounts[u].quota
    BY DEF Init
  <2>4. ASSUME NEW u \in Users PROVE accounts[u].quota <= granted[u]
    <3>1. granted[u] \in Nat /\ granted[u] = accounts[u].quota
      BY <2>2, <2>3
    <3>2. QED
      BY <3>1
  <2>5. QED
    BY <2>4 DEF TableEarned
<1>2. NothingToAdd
  BY DEF Init, NothingToAdd, PanelIdle
<1>3. \A h \in Handlers : SessionEarned(h)
  BY DEF Init, SessionEarned, Early, Claiming, Registered
<1>4. QED
  BY <1>1, <1>2, <1>3 DEF QuotaInv

LEMMA QuotaRestart == CoreInv /\ QuotaInv /\ Restart => QuotaInv'
<1> SUFFICES ASSUME CoreInv, QuotaInv, Restart PROVE QuotaInv'
  OBVIOUS
<1>1. TableEarned'
  BY DEF Restart, QuotaInv, TableEarned, ResetAllConnections, CoreInv, TypeOK, Tables, Account
<1>2. NothingToAdd'
  BY DEF Restart, NothingToAdd, PanelIdle
<1>3. \A h \in Handlers : SessionEarned(h)'
  BY DEF Restart, SessionEarned, Early, Claiming, Registered
<1>4. QED
  BY <1>1, <1>2, <1>3 DEF QuotaInv

LEMMA QuotaStutter == QuotaInv /\ UNCHANGED vars => QuotaInv'
BY DEF QuotaInv, TableEarned, NothingToAdd, SessionEarned, vars, session, outside

\* As long as the panel only takes quota away, neither the table nor a session has
\* more quota than was granted, whatever the loads, charges, requests, persists and
\* restarts do in between.
THEOREM QuotaIsEarned == ASSUME OnlyWithdrawals PROVE SpecWithRestarts => []EarnedQuota
<1>1. CoreInv /\ CoreInv' /\ QuotaInv /\ [Next \/ Restart]_vars => QuotaInv'
  BY QuotaStep, QuotaRestart, QuotaStutter
<1>2. QuotaInv => EarnedQuota
  BY DEF QuotaInv, TableEarned, SessionEarned, EarnedQuota
<1>3. QED
  BY <1>1, <1>2, QuotaInit, CoreHolds, PTL DEF SpecWithRestarts

=============================================================================
