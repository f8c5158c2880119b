-------------------------- MODULE VPNServer_proofs --------------------------
(***************************************************************************)
(* Theorems about VPNServer for every number of users, addresses, handlers *)
(* and panel threads, with their proofs.                                   *)
(***************************************************************************)
EXTENDS VPNServer, FiniteSetTheorems, SequenceTheorems, TLAPS

\* What the thread of a handler, the gateway and a panel thread know of their own
\* locals at each place.
ThreadLocals == \A h \in Handlers :
    /\ pc[h] \notin {"closed", "accepted", "opened"} => user[h] \in Users
    /\ pc[h] \in Claiming \cup Registered \cup {"disconnecting", Broken} => addr[h] \in Addresses
    /\ pc[h] = "crediting" => carry[h] \in Int

GatewayLocals == gateway.pc # "idle" =>
    gateway.handler \in Handlers /\ user[gateway.handler] \in Users

PanelLocals == \A p \in Panels : panel[p].pc # "idle" => panel[p].user \in Users

LocalsOK == ThreadLocals /\ GatewayLocals /\ PanelLocals

\* What is registered is a session of its address.
SessionsListed == \A a \in Addresses : active[a] # None =>
    pc[active[a]] \in Registered /\ addr[active[a]] = a

\* The part of the invariant that the accounts rest on.
CoreInv ==
    /\ TypeOK
    /\ LocalsOK
    /\ SessionsListed

\* The inductive invariant.
IInv ==
    /\ TypeOK
    /\ LocalsOK
    /\ AddressesPartitioned
    /\ RegistryAgrees

\* The registry lists no other handlers, so the core is part of it.
LEMMA CoreOfInv == IInv => CoreInv
BY DEF IInv, CoreInv, SessionsListed, RegistryAgrees, TypeOK, PoolTypes

-----------------------------------------------------------------------------
\* The statements of UserDB map tables to tables.

LEMMA UpdateType ==
    ASSUME NEW db \in Tables, NEW u \in Users, NEW row \in Account
    PROVE  Update(db, u, row) \in Tables
BY DEF Update, Tables

LEMMA AtLeastZeroType == \A n \in Int : AtLeastZero(n) \in Nat
BY DEF AtLeastZero

LEMMA TableTypes ==
    ASSUME NEW db \in Tables, NEW u \in Users
    PROVE  /\ CreateUser(db, u) \in Tables
           /\ \A a \in Addresses : MarkConnected(db, u, a) \in Tables
           /\ \A n \in Int \cup {None} : MarkDisconnected(db, u, n) \in Tables
           /\ \A n \in Int : AddQuota(db, u, n) \in Tables
           /\ MarkQuotaExhausted(db, u) \in Tables
           /\ \A s \in {"active", "banned"} : SetAccountStatus(db, u, s) \in Tables
<1>0. db[u] \in Account
  BY DEF Tables
<1>1. CreateUser(db, u) \in Tables
  BY <1>0 DEF CreateUser, Tables, Row, Account, AccountStatus
<1>2. \A a \in Addresses : MarkConnected(db, u, a) \in Tables
  BY <1>0, UpdateType DEF MarkConnected, Account
<1>3. \A n \in Int \cup {None} : MarkDisconnected(db, u, n) \in Tables
  BY <1>0, UpdateType, AtLeastZeroType DEF MarkDisconnected, Account
<1>4. \A n \in Int : AddQuota(db, u, n) \in Tables
  <2> SUFFICES ASSUME NEW n \in Int PROVE AddQuota(db, u, n) \in Tables
    OBVIOUS
  <2> DEFINE total == AtLeastZero(db[u].quota + n)
             status == IF db[u].status = "quota_exhausted" /\ total > 0
                       THEN "active" ELSE db[u].status
             row == [[db[u] EXCEPT !.quota = total] EXCEPT !.status = status]
  <2>1. db[u].quota + n \in Int
    BY <1>0 DEF Account
  <2>2. total \in Nat
    BY <2>1, AtLeastZeroType
  <2>3. status \in AccountStatus
    BY <1>0 DEF Account, AccountStatus
  <2>4. row \in Account
    BY <1>0, <2>2, <2>3 DEF Account
  <2>5. AddQuota(db, u, n) = Update(db, u, row)
    BY <1>0 DEF AddQuota, Account
  <2>6. QED
    BY <2>4, <2>5, UpdateType
<1>5. MarkQuotaExhausted(db, u) \in Tables
  BY UpdateType DEF MarkQuotaExhausted, Row, Account, AccountStatus
<1>6. \A s \in {"active", "banned"} : SetAccountStatus(db, u, s) \in Tables
  BY <1>0, UpdateType DEF SetAccountStatus, Account, AccountStatus
<1>7. QED
  BY <1>1, <1>2, <1>3, <1>4, <1>5, <1>6

-----------------------------------------------------------------------------
\* A handler that finishes: its object is kept or reset, the others are untouched.

LEMMA FinishTypes ==
    ASSUME ThreadTypes, NEW h \in Handlers, Finish(h)
    PROVE  ThreadTypes'
<1>1. pc' \in [Handlers -> Places]
  BY DEF Finish, Goto, ThreadTypes, Places
<1>2. CASE Referenced(h)
  BY <1>1, <1>2 DEF Finish, ThreadTypes, session
<1>3. CASE ~Referenced(h)
  <2>1. user' \in [Handlers -> Users \cup {None}] /\ addr' \in [Handlers -> Addresses \cup {None}]
    BY <1>3 DEF Finish, ThreadTypes
  <2>2. stop' \in [Handlers -> BOOLEAN] /\ enforced' \in [Handlers -> BOOLEAN]
    BY <1>3 DEF Finish, ThreadTypes
  <2>3. quota' \in [Handlers -> Int] /\ carry' \in [Handlers -> Int \cup {None}]
    BY <1>3 DEF Finish, ThreadTypes
  <2>4. QED
    BY <1>1, <2>1, <2>2, <2>3 DEF ThreadTypes
<1>4. QED
  BY <1>2, <1>3

LEMMA FinishEffect ==
    ASSUME ThreadTypes, NEW h \in Handlers, Finish(h)
    PROVE  /\ pc' = [pc EXCEPT ![h] = "closed"]
           /\ \A g \in Handlers \ {h} : user'[g] = user[g] /\ addr'[g] = addr[g] /\ carry'[g] = carry[g]
           /\ Referenced(h) => user' = user
BY DEF Finish, Goto, ThreadTypes, session

\* A charge, on whichever thread, and a grant keep the types.

LEMMA ChargeTypes ==
    ASSUME ThreadTypes, NEW h \in Handlers, NEW n \in Int,
           Unmetered(h) \/ Deducted(h, n) \/ Exhausted(h, n)
    PROVE  quota' \in [Handlers -> Int] /\ enforced' \in [Handlers -> BOOLEAN]
<1>1. CASE Unmetered(h)
  BY <1>1 DEF Unmetered, ThreadTypes
<1>2. CASE Deducted(h, n)
  BY <1>2 DEF Deducted, ThreadTypes
<1>3. CASE Exhausted(h, n)
  <2>1. quota' \in [Handlers -> Int]
    BY <1>3 DEF Exhausted, ThreadTypes
  <2>2. enforced' \in [Handlers -> BOOLEAN]
    BY <1>3 DEF Exhausted, ThreadTypes
  <2>3. QED
    BY <2>1, <2>2
<1>4. QED
  BY <1>1, <1>2, <1>3

LEMMA GrantTypes ==
    ASSUME accounts \in Tables, granted \in [Users -> Nat],
           NEW u \in Users, NEW n \in Int, Grant(u, n)
    PROVE  accounts' \in Tables /\ granted' \in [Users -> Nat]
<1>1. accounts' \in Tables
  BY TableTypes DEF Grant
<1>2. AtLeastZero(n) \in Nat
  BY AtLeastZeroType
<1>3. granted' \in [Users -> Nat]
  BY <1>2 DEF Grant
<1>4. QED
  BY <1>1, <1>3

-----------------------------------------------------------------------------
\* Each step keeps the types.

LEMMA TypeStep == CoreInv /\ Next => TypeOK'
<1> SUFFICES ASSUME CoreInv, Next PROVE TypeOK'
  OBVIOUS
<1> USE DEF CoreInv, TypeOK, LocalsOK
<1>1. ASSUME NEW h \in Handlers, Enlist(h) PROVE TypeOK'
  <2>1. ThreadTypes'
    BY <1>1 DEF Enlist, ThreadTypes, Goto, session, Places, Early
  <2>2. QED
    BY <1>1, <2>1 DEF Enlist, pool, session, outside, PoolTypes
<1>2. ASSUME NEW h \in Handlers, FlagEmptyAccount(h) PROVE TypeOK'
  <2>1. ThreadTypes'
    BY <1>2 DEF FlagEmptyAccount, ThreadTypes, Goto, session, Places, Early
  <2>2. accounts' \in Tables /\ granted' \in [Users -> Nat]
    BY <1>2, TableTypes DEF FlagEmptyAccount, outside, ThreadLocals
  <2>3. QED
    BY <1>2, <2>1, <2>2 DEF FlagEmptyAccount, pool, session, outside, PoolTypes
<1>3. ASSUME NEW h \in Handlers, StopEarly(h) PROVE TypeOK'
  <2>1. ThreadTypes'
    BY <1>3, FinishTypes DEF StopEarly
  <2>2. QED
    BY <1>3, <2>1 DEF StopEarly, pool, outside, PoolTypes
<1>4. ASSUME NEW h \in Handlers, CheckVacant(h) PROVE TypeOK'
  <2>1. ThreadTypes'
    BY <1>4, FinishTypes DEF CheckVacant, ThreadTypes, Goto, session, Places, Claiming
  <2>2. QED
    BY <1>4, <2>1 DEF CheckVacant, pool, session, outside, PoolTypes
<1>5. ASSUME NEW h \in Handlers, RegisterSession(h) PROVE TypeOK'
  <2>1. ThreadTypes'
    BY <1>5 DEF RegisterSession, ThreadTypes, Goto, session, Places, Registered
  <2>2. PoolTypes'
    <3>1. addr[h] \in Addresses /\ user[h] \in Users
      BY <1>5 DEF RegisterSession, ThreadLocals, Claiming
    <3>2. disputed' \subseteq Addresses
      BY <1>5, <3>1 DEF RegisterSession, PoolTypes
    <3>3. QED
      BY <1>5, <3>1, <3>2 DEF RegisterSession, PoolTypes, outside
  <2>3. QED
    BY <1>5, <2>1, <2>2 DEF RegisterSession, session, outside
<1>6. ASSUME NEW h \in Handlers, ConnectAccount(h) PROVE TypeOK'
  <2>1. ThreadTypes'
    BY <1>6 DEF ConnectAccount, ThreadTypes, Goto, session, Places, Registered
  <2>2. accounts' \in Tables /\ granted' \in [Users -> Nat]
    BY <1>6, TableTypes DEF ConnectAccount, outside, ThreadLocals, Registered
  <2>3. QED
    BY <1>6, <2>1, <2>2 DEF ConnectAccount, pool, session, outside, PoolTypes
<1>7. ASSUME NEW h \in Handlers, LoadQuota(h) PROVE TypeOK'
  <2>1. ThreadTypes'
    BY <1>7 DEF LoadQuota, ThreadTypes, Goto, Places, Registered, Tables, Account, ThreadLocals
  <2>2. QED
    BY <1>7, <2>1 DEF LoadQuota, pool, outside, PoolTypes
<1>8. ASSUME NEW h \in Handlers, CheckQuota(h) PROVE TypeOK'
  <2>1. ThreadTypes'
    BY <1>8 DEF CheckQuota, ThreadTypes, Goto, NextPacket, session, Places, Registered
  <2>2. QED
    BY <1>8, <2>1 DEF CheckQuota, pool, session, outside, PoolTypes
<1>9. ASSUME NEW h \in Handlers, CreditQuota(h) PROVE TypeOK'
  <2>1. ThreadTypes'
    <3>1. carry[h] \in Int
      BY <1>9 DEF CreditQuota, ThreadLocals
    <3>2. quota' \in [Handlers -> Int] /\ carry' \in [Handlers -> Int \cup {None}]
      BY <1>9, <3>1 DEF CreditQuota, ThreadTypes
    <3>3. pc' \in [Handlers -> Places]
      BY <1>9 DEF CreditQuota, Goto, NextPacket, Places, Registered, ThreadTypes
    <3>4. QED
      BY <1>9, <3>2, <3>3 DEF CreditQuota, ThreadTypes
  <2>2. QED
    BY <1>9, <2>1 DEF CreditQuota, pool, outside, PoolTypes
<1>10. ASSUME NEW h \in Handlers, StopSession(h) PROVE TypeOK'
  <2>1. ThreadTypes'
    BY <1>10 DEF StopSession, ThreadTypes, Goto, session, Places, Registered
  <2>2. QED
    BY <1>10, <2>1 DEF StopSession, pool, session, outside, PoolTypes
<1>11. ASSUME NEW h \in Handlers, FlagExhausted(h) PROVE TypeOK'
  <2>1. ThreadTypes'
    BY <1>11 DEF FlagExhausted, ThreadTypes, Goto, session, Places, Registered
  <2>2. accounts' \in Tables /\ granted' \in [Users -> Nat]
    BY <1>11, TableTypes DEF FlagExhausted, outside, ThreadLocals
  <2>3. QED
    BY <1>11, <2>1, <2>2 DEF FlagExhausted, pool, session, outside, PoolTypes
<1>12. ASSUME NEW h \in Handlers, ReadFinalQuota(h) PROVE TypeOK'
  <2>1. ThreadTypes'
    BY <1>12 DEF ReadFinalQuota, ThreadTypes, Goto, Places, Registered
  <2>2. QED
    BY <1>12, <2>1 DEF ReadFinalQuota, pool, outside, PoolTypes
<1>13. ASSUME NEW h \in Handlers, UnregisterSession(h) PROVE TypeOK'
  <2>1. ThreadTypes'
    BY <1>13 DEF UnregisterSession, ThreadTypes, Goto, session, Places
  <2>2. PoolTypes'
    <3>1. addr[h] \in Addresses /\ user[h] \in Users
      BY <1>13 DEF UnregisterSession, ThreadLocals, Registered
    <3>2. free' \in Seq(Addresses)
      BY <1>13, <3>1 DEF UnregisterSession, PoolTypes
    <3>3. active' \in [Addresses -> Handlers \cup {None}] /\ pending' \subseteq Addresses
      BY <1>13, <3>1 DEF UnregisterSession, PoolTypes
    <3>4. byUser' \in [Users -> SUBSET Handlers]
      BY <1>13, <3>1 DEF UnregisterSession, PoolTypes
    <3>5. disputed' \subseteq Addresses
      BY <1>13 DEF UnregisterSession, Settled, PoolTypes
    <3>6. QED
      BY <1>13, <3>2, <3>3, <3>4, <3>5 DEF UnregisterSession, PoolTypes, outside
  <2>3. QED
    BY <1>13, <2>1, <2>2 DEF UnregisterSession, session, outside
<1>14. ASSUME NEW h \in Handlers, DisconnectAccount(h) PROVE TypeOK'
  <2>1. ThreadTypes'
    BY <1>14, FinishTypes DEF DisconnectAccount
  <2>2. accounts' \in Tables /\ granted' \in [Users -> Nat]
    BY <1>14, TableTypes DEF DisconnectAccount, outside, ThreadLocals, ThreadTypes
  <2>3. QED
    BY <1>14, <2>1, <2>2 DEF DisconnectAccount, pool, outside, PoolTypes
<1>15. ASSUME NEW h \in Handlers, Accept(h) PROVE TypeOK'
  <2>1. ThreadTypes'
    BY <1>15 DEF Accept, ThreadTypes, Goto, Places
  <2>2. QED
    BY <1>15, <2>1 DEF Accept, pool, outside, PoolTypes
<1>16. ASSUME NEW h \in Handlers, Hangup(h) PROVE TypeOK'
  <2>1. ThreadTypes'
    BY <1>16, FinishTypes DEF Hangup
  <2>2. QED
    BY <1>16, <2>1 DEF Hangup, pool, outside, PoolTypes
<1>17. ASSUME NEW h \in Handlers, DropEarly(h) PROVE TypeOK'
  <2>1. ThreadTypes'
    BY <1>17 DEF DropEarly, ThreadTypes, Goto, session, Places, Early
  <2>2. QED
    BY <1>17, <2>1 DEF DropEarly, pool, session, outside, PoolTypes
<1>18. ASSUME NEW h \in Handlers, ClientLeaves(h) PROVE TypeOK'
  <2>1. ThreadTypes'
    BY <1>18 DEF ClientLeaves, ThreadTypes, Goto, session, Places, Registered
  <2>2. QED
    BY <1>18, <2>1 DEF ClientLeaves, pool, session, outside, PoolTypes
<1>19. ASSUME NEW h \in Handlers, NEW u \in Users, Register(h, u) PROVE TypeOK'
  <2>1. ThreadTypes'
    BY <1>19, FinishTypes DEF Register
  <2>2. accounts' \in Tables /\ granted' \in [Users -> Nat]
    BY <1>19, TableTypes DEF Register, outside
  <2>3. QED
    BY <1>19, <2>1, <2>2 DEF Register, pool, outside, PoolTypes
<1>20. ASSUME NEW h \in Handlers, NEW u \in Users, Authenticate(h, u) PROVE TypeOK'
  <2>1. ThreadTypes'
    BY <1>20 DEF Authenticate, ThreadTypes, Goto, Places, Early
  <2>2. QED
    BY <1>20, <2>1 DEF Authenticate, pool, outside, PoolTypes
<1>21. ASSUME NEW h \in Handlers, NEW n \in Requests, GraceGrant(h, n) PROVE TypeOK'
  <2>1. ThreadTypes'
    BY <1>21, FinishTypes DEF GraceGrant
  <2>2. accounts' \in Tables /\ granted' \in [Users -> Nat]
    <3>1. user[h] \in Users
      BY <1>21 DEF GraceGrant, ThreadLocals
    <3>2. n \in Int
      BY ServerConstants
    <3>3. QED
      BY <1>21, <3>1, <3>2, GrantTypes DEF GraceGrant
  <2>3. QED
    BY <1>21, <2>1, <2>2 DEF GraceGrant, pool, PoolTypes
<1>22. ASSUME NEW h \in Handlers, NEW n \in Requests, RequestQuota(h, n) PROVE TypeOK'
  <2>1. ThreadTypes'
    BY <1>22, ServerConstants DEF RequestQuota, ThreadTypes, Goto, Places, Registered
  <2>2. accounts' \in Tables /\ granted' \in [Users -> Nat]
    <3>1. user[h] \in Users
      BY <1>22 DEF RequestQuota, ThreadLocals
    <3>2. n \in Int
      BY ServerConstants
    <3>3. QED
      BY <1>22, <3>1, <3>2, GrantTypes DEF RequestQuota
  <2>3. QED
    BY <1>22, <2>1, <2>2 DEF RequestQuota, pool, PoolTypes
<1>23. ASSUME NEW h \in Handlers, NEW delivered \in BOOLEAN, AssignIP(h, delivered) PROVE TypeOK'
  <2>1. ThreadTypes'
    BY <1>23, FinishTypes DEF AssignIP
  <2>2. PoolTypes'
    <3>1. PICK i \in DOMAIN free :
            /\ free' = SubSeq(free, i + 1, Len(free)) \o SubSeq(free, 1, i - 1)
            /\ pending' = pending \cup {free[i]}
            /\ held' = IF delivered THEN [held EXCEPT ![user[h]] = @ \cup {free[i]}] ELSE held
      BY <1>23 DEF AssignIP
    <3>2. free \in Seq(Addresses) /\ i \in 1 .. Len(free) /\ free[i] \in Addresses
      BY DEF PoolTypes
    <3>3. SubSeq(free, i + 1, Len(free)) \in Seq(Addresses) /\ SubSeq(free, 1, i - 1) \in Seq(Addresses)
      BY <3>2
    <3>4. free' \in Seq(Addresses)
      BY <3>1, <3>3
    <3>5. user[h] \in Users
      BY <1>23 DEF AssignIP, ThreadLocals
    <3>6. held' \in [Users -> SUBSET Addresses]
      BY <3>1, <3>2, <3>5 DEF PoolTypes
    <3>7. QED
      BY <1>23, <3>1, <3>2, <3>4, <3>6 DEF AssignIP, PoolTypes
  <2>3. QED
    BY <1>23, <2>1, <2>2 DEF AssignIP
<1>24. ASSUME NEW h \in Handlers, NEW a \in Addresses, Announce(h, a) PROVE TypeOK'
  <2>1. ThreadTypes'
    BY <1>24, FinishTypes DEF Announce, ThreadTypes, Goto, Places, Claiming
  <2>2. PoolTypes'
    BY <1>24 DEF Announce, PoolTypes, pool
  <2>3. QED
    BY <1>24, <2>1, <2>2 DEF Announce, pool
<1>25. ASSUME NEW h \in Handlers, NEW n \in Sizes, Data(h, n) PROVE TypeOK'
  <2>1. ThreadTypes'
    <3>1. n \in Int
      BY ServerConstants
    <3>2. quota' \in [Handlers -> Int] /\ enforced' \in [Handlers -> BOOLEAN]
      BY <1>25, <3>1, ChargeTypes DEF Data
    <3>3. pc' \in [Handlers -> Places]
      BY <1>25 DEF Data, Goto, NextPacket, Places, Registered, ThreadTypes
    <3>4. QED
      BY <1>25, <3>2, <3>3 DEF Data, ThreadTypes
  <2>2. QED
    BY <1>25, <2>1 DEF Data, pool, outside, PoolTypes
<1>26. ASSUME NEW a \in Addresses, NEW n \in Sizes, GatewayLookup(a, n) PROVE TypeOK'
  <2>1. gateway' \in GatewayStates /\ panel' \in [Panels -> PanelStates] /\ listening' \in BOOLEAN
    BY <1>26, ServerConstants DEF GatewayLookup, GatewayStates, PoolTypes
  <2>2. QED
    BY <1>26, <2>1 DEF GatewayLookup, pool, session, PoolTypes, ThreadTypes
<1>27. ASSUME GatewayCharge PROVE TypeOK'
  <2>1. ThreadTypes'
    <3>1. gateway.handler \in Handlers /\ gateway.size \in Int
      BY <1>27 DEF GatewayCharge, GatewayLocals, GatewayStates
    <3>2. quota' \in [Handlers -> Int] /\ enforced' \in [Handlers -> BOOLEAN]
      BY <1>27, <3>1, ChargeTypes DEF GatewayCharge
    <3>3. QED
      BY <1>27, <3>2 DEF GatewayCharge, ThreadTypes
  <2>2. gateway' \in GatewayStates /\ panel' \in [Panels -> PanelStates] /\ listening' \in BOOLEAN
    BY <1>27 DEF GatewayCharge, GatewayStates, GatewayGoto
  <2>3. QED
    BY <1>27, <2>1, <2>2 DEF GatewayCharge, pool, PoolTypes
<1>28. ASSUME GatewaySend PROVE TypeOK'
  <2>1. ThreadTypes'
    BY <1>28 DEF GatewaySend, ThreadTypes, session, GatewayLocals
  <2>2. gateway' \in GatewayStates /\ panel' \in [Panels -> PanelStates] /\ listening' \in BOOLEAN
    BY <1>28 DEF GatewaySend, GatewayStates, GatewayIdle
  <2>3. QED
    BY <1>28, <2>1, <2>2 DEF GatewaySend, pool, session, PoolTypes
<1>29. ASSUME GatewayFlag PROVE TypeOK'
  <2>1. accounts' \in Tables /\ granted' \in [Users -> Nat]
    BY <1>29, TableTypes DEF GatewayFlag, GatewayLocals
  <2>2. gateway' \in GatewayStates /\ panel' \in [Panels -> PanelStates] /\ listening' \in BOOLEAN
    BY <1>29 DEF GatewayFlag, GatewayStates, GatewayGoto
  <2>3. QED
    BY <1>29, <2>1, <2>2 DEF GatewayFlag, pool, session, PoolTypes, ThreadTypes
<1>30. ASSUME GatewayHalt PROVE TypeOK'
  <2>1. ThreadTypes'
    BY <1>30 DEF GatewayHalt, ThreadTypes, session, GatewayLocals
  <2>2. gateway' \in GatewayStates /\ panel' \in [Panels -> PanelStates] /\ listening' \in BOOLEAN
    BY <1>30 DEF GatewayHalt, GatewayStates, GatewayIdle
  <2>3. QED
    BY <1>30, <2>1, <2>2 DEF GatewayHalt, pool, session, PoolTypes
<1>31. ASSUME NEW p \in Panels, PanelSnapshot(p) PROVE TypeOK'
  <2>1. gateway' \in GatewayStates /\ panel' \in [Panels -> PanelStates] /\ listening' \in BOOLEAN
    <3>1. panel[p] \in PanelStates /\ byUser[panel[p].user] \subseteq Handlers
      BY <1>31 DEF PanelSnapshot, PanelLocals, PoolTypes
    <3>2. PanelIdle \in PanelStates
      BY DEF PanelIdle, PanelStates
    <3>3. [panel[p] EXCEPT !.pc = "visit", !.todo = byUser[panel[p].user]] \in PanelStates
      BY <3>1 DEF PanelStates
    <3>4. panel' \in [Panels -> PanelStates]
      BY <1>31, <3>2, <3>3 DEF PanelSnapshot
    <3>5. QED
      BY <1>31, <3>4 DEF PanelSnapshot, outside
  <2>2. QED
    BY <1>31, <2>1 DEF PanelSnapshot, pool, session, PoolTypes, ThreadTypes
<1>32. ASSUME NEW p \in Panels, NEW h \in Handlers, PanelVisit(p, h) PROVE TypeOK'
  <2>1. ThreadTypes'
    <3>1. panel[p].amount \in Int
      BY DEF PanelStates
    <3>2. quota' \in [Handlers -> Int]
      BY <1>32, <3>1 DEF PanelVisit, ThreadTypes
    <3>3. stop' \in [Handlers -> BOOLEAN]
      BY <1>32 DEF PanelVisit, ThreadTypes
    <3>4. QED
      BY <1>32, <3>2, <3>3 DEF PanelVisit, ThreadTypes
  <2>2. gateway' \in GatewayStates /\ panel' \in [Panels -> PanelStates] /\ listening' \in BOOLEAN
    <3>1. PanelIdle \in PanelStates
      BY DEF PanelIdle, PanelStates
    <3>2. [panel[p] EXCEPT !.todo = panel[p].todo \ {h}] \in PanelStates
      BY DEF PanelStates
    <3>3. QED
      BY <1>32, <3>1, <3>2 DEF PanelVisit
  <2>3. QED
    BY <1>32, <2>1, <2>2 DEF PanelVisit, pool, PoolTypes
<1>33. ASSUME NEW p \in Panels, NEW u \in Users, PanelBan(p, u) PROVE TypeOK'
  <2>1. accounts' \in Tables /\ granted' \in [Users -> Nat]
    BY <1>33, TableTypes DEF PanelBan
  <2>2. gateway' \in GatewayStates /\ panel' \in [Panels -> PanelStates] /\ listening' \in BOOLEAN
    BY <1>33 DEF PanelBan, PanelJob, PanelStates
  <2>3. QED
    BY <1>33, <2>1, <2>2 DEF PanelBan, pool, session, PoolTypes, ThreadTypes
<1>34. ASSUME NEW p \in Panels, NEW u \in Users, PanelUnban(p, u) PROVE TypeOK'
  <2>1. accounts' \in Tables /\ granted' \in [Users -> Nat]
    BY <1>34, TableTypes DEF PanelUnban, outside
  <2>2. QED
    BY <1>34, <2>1 DEF PanelUnban, pool, session, outside, PoolTypes, ThreadTypes
<1>35. ASSUME NEW p \in Panels, NEW u \in Users, PanelRegister(p, u) PROVE TypeOK'
  <2>1. accounts' \in Tables /\ granted' \in [Users -> Nat]
    BY <1>35, TableTypes DEF PanelRegister, outside
  <2>2. QED
    BY <1>35, <2>1 DEF PanelRegister, pool, session, outside, PoolTypes, ThreadTypes
<1>36. ASSUME NEW p \in Panels, NEW u \in Users, NEW n \in TopUps, PanelAddQuota(p, u, n) PROVE TypeOK'
  <2>1. accounts' \in Tables /\ granted' \in [Users -> Nat]
    <3>1. n \in Int
      BY ServerConstants
    <3>2. QED
      BY <1>36, <3>1, GrantTypes DEF PanelAddQuota
  <2>2. gateway' \in GatewayStates /\ panel' \in [Panels -> PanelStates] /\ listening' \in BOOLEAN
    BY <1>36, ServerConstants DEF PanelAddQuota, PanelJob, PanelStates
  <2>3. QED
    BY <1>36, <2>1, <2>2 DEF PanelAddQuota, pool, session, PoolTypes, ThreadTypes
<1>37. ASSUME NEW u \in Users, NEW a \in Addresses, ClientGivesUp(u, a) PROVE TypeOK'
  <2>1. PoolTypes'
    BY <1>37 DEF ClientGivesUp, PoolTypes, pool
  <2>2. QED
    BY <1>37, <2>1 DEF ClientGivesUp, pool, session, ThreadTypes
<1>38. ASSUME Shutdown PROVE TypeOK'
  <2>1. ThreadTypes'
    BY <1>38 DEF Shutdown, ThreadTypes, session
  <2>2. gateway' \in GatewayStates /\ panel' \in [Panels -> PanelStates] /\ listening' \in BOOLEAN
    BY <1>38 DEF Shutdown
  <2>3. QED
    BY <1>38, <2>1, <2>2 DEF Shutdown, pool, session, PoolTypes
<1>39. ASSUME NEW h \in Handlers, UnregisterRaises(h) PROVE TypeOK'
  <2>1. ThreadTypes'
    BY <1>39 DEF UnregisterRaises, ThreadTypes, Goto, session, Places
  <2>2. PoolTypes'
    BY <1>39 DEF UnregisterRaises, Settled, ThreadLocals, Registered, PoolTypes, outside
  <2>3. QED
    BY <1>39, <2>1, <2>2 DEF UnregisterRaises, session, outside
<1>99. QED
  BY <1>1, <1>2, <1>3, <1>4, <1>5, <1>6, <1>7, <1>8, <1>9, <1>10, <1>11, <1>12, <1>13, <1>14, <1>15, <1>16, <1>17, <1>18, <1>19, <1>20, <1>21, <1>22, <1>23, <1>24, <1>25, <1>26, <1>27, <1>28, <1>29, <1>30, <1>31, <1>32, <1>33, <1>34, <1>35, <1>36, <1>37, <1>38, <1>39
  DEF Next, HandlerStep, ClientStep, GatewayStep, PanelStep, OperatorStep

-----------------------------------------------------------------------------
\* Each step keeps what the threads know of their locals.

LEMMA LocalsStep == CoreInv /\ Next => LocalsOK'
<1> SUFFICES ASSUME CoreInv, Next PROVE LocalsOK'
  OBVIOUS
<1> USE DEF CoreInv, TypeOK, LocalsOK
<1>1. ASSUME NEW h \in Handlers, Enlist(h) PROVE LocalsOK'
  <2>1. ThreadLocals'
    BY <1>1 DEF Enlist, ThreadTypes, ThreadLocals, Goto, session, Claiming, Registered, Broken
  <2>2. QED
    BY <1>1, <2>1 DEF Enlist, session, outside, GatewayLocals, PanelLocals
<1>2. ASSUME NEW h \in Handlers, FlagEmptyAccount(h) PROVE LocalsOK'
  <2>1. ThreadLocals'
    BY <1>2 DEF FlagEmptyAccount, ThreadTypes, ThreadLocals, Goto, session, Claiming, Registered, Broken
  <2>2. QED
    BY <1>2, <2>1 DEF FlagEmptyAccount, session, outside, GatewayLocals, PanelLocals
<1>3. ASSUME NEW h \in Handlers, StopEarly(h) PROVE LocalsOK'
  <2>1. ThreadLocals'
    BY <1>3, FinishEffect DEF StopEarly, ThreadTypes, ThreadLocals, Claiming, Registered, Broken
  <2>2. GatewayLocals'
    BY <1>3, FinishEffect DEF StopEarly, GatewayLocals, outside, Referenced, Finish, ThreadTypes
  <2>3. QED
    BY <1>3, <2>1, <2>2 DEF StopEarly, outside, PanelLocals
<1>4. ASSUME NEW h \in Handlers, CheckVacant(h) PROVE LocalsOK'
  <2>1. ThreadLocals'
    BY <1>4, FinishEffect DEF CheckVacant, ThreadTypes, ThreadLocals, Goto, session, Claiming, Registered, Broken
  <2>2. GatewayLocals'
    BY <1>4, FinishEffect DEF CheckVacant, GatewayLocals, session, outside, Referenced, Finish, ThreadTypes
  <2>3. QED
    BY <1>4, <2>1, <2>2 DEF CheckVacant, session, outside, PanelLocals
<1>5. ASSUME NEW h \in Handlers, RegisterSession(h) PROVE LocalsOK'
  <2>1. ThreadLocals'
    BY <1>5 DEF RegisterSession, ThreadTypes, ThreadLocals, Goto, session, Claiming, Registered, Broken
  <2>2. QED
    BY <1>5, <2>1 DEF RegisterSession, session, outside, GatewayLocals, PanelLocals
<1>6. ASSUME NEW h \in Handlers, ConnectAccount(h) PROVE LocalsOK'
  <2>1. ThreadLocals'
    BY <1>6 DEF ConnectAccount, ThreadTypes, ThreadLocals, Goto, session, Claiming, Registered, Broken
  <2>2. QED
    BY <1>6, <2>1 DEF ConnectAccount, session, outside, GatewayLocals, PanelLocals
<1>7. ASSUME NEW h \in Handlers, LoadQuota(h) PROVE LocalsOK'
  <2>1. ThreadLocals'
    BY <1>7 DEF LoadQuota, ThreadTypes, ThreadLocals, Goto, Claiming, Registered, Broken
  <2>2. QED
    BY <1>7, <2>1 DEF LoadQuota, outside, GatewayLocals, PanelLocals
<1>8. ASSUME NEW h \in Handlers, CheckQuota(h) PROVE LocalsOK'
  <2>1. ThreadLocals'
    BY <1>8 DEF CheckQuota, ThreadTypes, ThreadLocals, Goto, NextPacket, session, Claiming, Registered, Broken
  <2>2. QED
    BY <1>8, <2>1 DEF CheckQuota, session, outside, GatewayLocals, PanelLocals
<1>9. ASSUME NEW h \in Handlers, CreditQuota(h) PROVE LocalsOK'
  <2>1. ThreadLocals'
    <3>1. pc[h] = "crediting" /\ (pc' = [pc EXCEPT ![h] = "reading"] \/ pc' = [pc EXCEPT ![h] = "closing"])
      BY <1>9 DEF CreditQuota, NextPacket, Goto
    <3>2. user' = user /\ addr' = addr /\ \A g \in Handlers \ {h} : carry'[g] = carry[g]
      BY <1>9 DEF CreditQuota, ThreadTypes
    <3>3. QED
      BY <3>1, <3>2 DEF ThreadLocals, ThreadTypes, Claiming, Registered, Broken
  <2>2. QED
    BY <1>9, <2>1 DEF CreditQuota, outside, GatewayLocals, PanelLocals
<1>10. ASSUME NEW h \in Handlers, StopSession(h) PROVE LocalsOK'
  <2>1. ThreadLocals'
    BY <1>10 DEF StopSession, ThreadTypes, ThreadLocals, Goto, session, Claiming, Registered, Broken
  <2>2. QED
    BY <1>10, <2>1 DEF StopSession, session, outside, GatewayLocals, PanelLocals
<1>11. ASSUME NEW h \in Handlers, FlagExhausted(h) PROVE LocalsOK'
  <2>1. ThreadLocals'
    BY <1>11 DEF FlagExhausted, ThreadTypes, ThreadLocals, Goto, session, Claiming, Registered, Broken
  <2>2. QED
    BY <1>11, <2>1 DEF FlagExhausted, session, outside, GatewayLocals, PanelLocals
<1>12. ASSUME NEW h \in Handlers, ReadFinalQuota(h) PROVE LocalsOK'
  <2>1. ThreadLocals'
    BY <1>12 DEF ReadFinalQuota, ThreadTypes, ThreadLocals, Goto, Claiming, Registered, Broken
  <2>2. QED
    BY <1>12, <2>1 DEF ReadFinalQuota, outside, GatewayLocals, PanelLocals
<1>13. ASSUME NEW h \in Handlers, UnregisterSession(h) PROVE LocalsOK'
  <2>1. ThreadLocals'
    BY <1>13 DEF UnregisterSession, ThreadTypes, ThreadLocals, Goto, session, Claiming, Registered, Broken
  <2>2. QED
    BY <1>13, <2>1 DEF UnregisterSession, session, outside, GatewayLocals, PanelLocals
<1>14. ASSUME NEW h \in Handlers, DisconnectAccount(h) PROVE LocalsOK'
  <2>1. ThreadLocals'
    BY <1>14, FinishEffect DEF DisconnectAccount, ThreadTypes, ThreadLocals, Claiming, Registered, Broken
  <2>2. GatewayLocals'
    BY <1>14, FinishEffect DEF DisconnectAccount, GatewayLocals, outside, Referenced, Finish, ThreadTypes
  <2>3. QED
    BY <1>14, <2>1, <2>2 DEF DisconnectAccount, outside, PanelLocals
<1>15. ASSUME NEW h \in Handlers, Accept(h) PROVE LocalsOK'
  <2>1. ThreadLocals'
    BY <1>15 DEF Accept, ThreadTypes, ThreadLocals, Goto, Claiming, Registered, Broken
  <2>2. GatewayLocals'
    BY <1>15 DEF Accept, GatewayLocals, outside, Referenced, ThreadTypes
  <2>3. QED
    BY <1>15, <2>1, <2>2 DEF Accept, outside, PanelLocals
<1>16. ASSUME NEW h \in Handlers, Hangup(h) PROVE LocalsOK'
  <2>1. ThreadLocals'
    BY <1>16, FinishEffect DEF Hangup, ThreadTypes, ThreadLocals, Claiming, Registered, Broken
  <2>2. GatewayLocals'
    BY <1>16, FinishEffect DEF Hangup, GatewayLocals, outside, Referenced, Finish, ThreadTypes
  <2>3. QED
    BY <1>16, <2>1, <2>2 DEF Hangup, outside, PanelLocals
<1>17. ASSUME NEW h \in Handlers, DropEarly(h) PROVE LocalsOK'
  <2>1. ThreadLocals'
    BY <1>17 DEF DropEarly, ThreadTypes, ThreadLocals, Goto, session, Claiming, Registered, Broken
  <2>2. QED
    BY <1>17, <2>1 DEF DropEarly, session, outside, GatewayLocals, PanelLocals
<1>18. ASSUME NEW h \in Handlers, ClientLeaves(h) PROVE LocalsOK'
  <2>1. ThreadLocals'
    BY <1>18 DEF ClientLeaves, ThreadTypes, ThreadLocals, Goto, session, Claiming, Registered, Broken
  <2>2. QED
    BY <1>18, <2>1 DEF ClientLeaves, session, outside, GatewayLocals, PanelLocals
<1>19. ASSUME NEW h \in Handlers, NEW u \in Users, Register(h, u) PROVE LocalsOK'
  <2>1. ThreadLocals'
    BY <1>19, FinishEffect DEF Register, ThreadTypes, ThreadLocals, Claiming, Registered, Broken
  <2>2. GatewayLocals'
    BY <1>19, FinishEffect DEF Register, GatewayLocals, outside, Referenced, Finish, ThreadTypes
  <2>3. QED
    BY <1>19, <2>1, <2>2 DEF Register, outside, PanelLocals
<1>20. ASSUME NEW h \in Handlers, NEW u \in Users, Authenticate(h, u) PROVE LocalsOK'
  <2>1. ThreadLocals'
    BY <1>20 DEF Authenticate, ThreadTypes, ThreadLocals, Goto, Claiming, Registered, Broken
  <2>2. GatewayLocals'
    BY <1>20 DEF Authenticate, GatewayLocals, outside, ThreadTypes
  <2>3. QED
    BY <1>20, <2>1, <2>2 DEF Authenticate, outside, PanelLocals
<1>21. ASSUME NEW h \in Handlers, NEW n \in Requests, GraceGrant(h, n) PROVE LocalsOK'
  <2>1. ThreadLocals'
    BY <1>21, FinishEffect DEF GraceGrant, ThreadTypes, ThreadLocals, Claiming, Registered, Broken
  <2>2. GatewayLocals'
    BY <1>21, FinishEffect DEF GraceGrant, GatewayLocals, Referenced, Finish, ThreadTypes
  <2>3. QED
    BY <1>21, <2>1, <2>2 DEF GraceGrant, PanelLocals
<1>22. ASSUME NEW h \in Handlers, NEW n \in Requests, RequestQuota(h, n) PROVE LocalsOK'
  <2>1. ThreadLocals'
    BY <1>22, ServerConstants DEF RequestQuota, ThreadTypes, ThreadLocals, Goto, Claiming, Registered, Broken
  <2>2. QED
    BY <1>22, <2>1 DEF RequestQuota, GatewayLocals, PanelLocals
<1>23. ASSUME NEW h \in Handlers, NEW delivered \in BOOLEAN, AssignIP(h, delivered) PROVE LocalsOK'
  <2>1. ThreadLocals'
    <3>1. pc[h] = "authed" /\ Finish(h)
      BY <1>23 DEF AssignIP
    <3>2. QED
      BY <3>1, FinishEffect DEF ThreadLocals, ThreadTypes, Claiming, Registered, Broken
  <2>2. GatewayLocals'
    BY <1>23, FinishEffect DEF AssignIP, GatewayLocals, Referenced, Finish, ThreadTypes
  <2>3. QED
    BY <1>23, <2>1, <2>2 DEF AssignIP, PanelLocals
<1>24. ASSUME NEW h \in Handlers, NEW a \in Addresses, Announce(h, a) PROVE LocalsOK'
  <2>1. ThreadLocals'
    <3>1. CASE Finish(h)
      BY <1>24, <3>1, FinishEffect DEF Announce, ThreadTypes, ThreadLocals, Claiming, Registered, Broken
    <3>2. CASE addr' = [addr EXCEPT ![h] = a] /\ Goto(h, "announced") /\ user' = user /\ carry' = carry
      BY <1>24, <3>2 DEF Announce, ThreadTypes, ThreadLocals, Goto, Claiming, Registered, Broken
    <3>3. QED
      BY <1>24, <3>1, <3>2 DEF Announce
  <2>2. GatewayLocals'
    BY <1>24, FinishEffect DEF Announce, GatewayLocals, Referenced, Finish, ThreadTypes
  <2>3. QED
    BY <1>24, <2>1, <2>2 DEF Announce, PanelLocals
<1>25. ASSUME NEW h \in Handlers, NEW n \in Sizes, Data(h, n) PROVE LocalsOK'
  <2>1. ThreadLocals'
    BY <1>25 DEF Data, ThreadTypes, ThreadLocals, Goto, NextPacket, Claiming, Registered, Broken
  <2>2. QED
    BY <1>25, <2>1 DEF Data, outside, GatewayLocals, PanelLocals
<1>26. ASSUME NEW a \in Addresses, NEW n \in Sizes, GatewayLookup(a, n) PROVE LocalsOK'
  <2>1. GatewayLocals'
    <3>1. active[a] \in Handlers
      BY <1>26 DEF GatewayLookup, PoolTypes
    <3>2. pc[active[a]] \in Registered
      BY <1>26 DEF GatewayLookup, SessionsListed
    <3>3. user[active[a]] \in Users
      BY <3>1, <3>2 DEF ThreadLocals, Registered
    <3>4. QED
      BY <1>26, <3>1, <3>3 DEF GatewayLookup, GatewayLocals, session
  <2>2. QED
    BY <1>26, <2>1 DEF GatewayLookup, session, ThreadLocals, PanelLocals
<1>27. ASSUME GatewayCharge PROVE LocalsOK'
  <2>1. GatewayLocals'
    BY <1>27 DEF GatewayCharge, GatewayLocals, GatewayGoto, GatewayStates
  <2>2. QED
    BY <1>27, <2>1 DEF GatewayCharge, ThreadLocals, PanelLocals
<1>28. ASSUME GatewaySend PROVE LocalsOK'
  <2>1. GatewayLocals'
    BY <1>28 DEF GatewaySend, GatewayLocals, session, GatewayIdle, GatewayStates
  <2>2. QED
    BY <1>28, <2>1 DEF GatewaySend, session, ThreadLocals, PanelLocals
<1>29. ASSUME GatewayFlag PROVE LocalsOK'
  <2>1. GatewayLocals'
    BY <1>29 DEF GatewayFlag, GatewayLocals, session, GatewayGoto, GatewayStates
  <2>2. QED
    BY <1>29, <2>1 DEF GatewayFlag, session, ThreadLocals, PanelLocals
<1>30. ASSUME GatewayHalt PROVE LocalsOK'
  <2>1. GatewayLocals'
    BY <1>30 DEF GatewayHalt, GatewayLocals, session, GatewayIdle, GatewayStates
  <2>2. QED
    BY <1>30, <2>1 DEF GatewayHalt, session, ThreadLocals, PanelLocals
<1>31. ASSUME NEW p \in Panels, PanelSnapshot(p) PROVE LocalsOK'
  <2>1. PanelLocals'
    BY <1>31 DEF PanelSnapshot, PanelLocals, PanelStates, PanelIdle
  <2>2. QED
    BY <1>31, <2>1 DEF PanelSnapshot, session, ThreadLocals, GatewayLocals
<1>32. ASSUME NEW p \in Panels, NEW h \in Handlers, PanelVisit(p, h) PROVE LocalsOK'
  <2>1. PanelLocals'
    BY <1>32 DEF PanelVisit, PanelLocals, PanelStates, PanelIdle
  <2>2. QED
    BY <1>32, <2>1 DEF PanelVisit, ThreadLocals, GatewayLocals
<1>33. ASSUME NEW p \in Panels, NEW u \in Users, PanelBan(p, u) PROVE LocalsOK'
  <2>1. PanelLocals'
    BY <1>33 DEF PanelBan, PanelLocals, PanelStates, PanelJob
  <2>2. QED
    BY <1>33, <2>1 DEF PanelBan, session, ThreadLocals, GatewayLocals
<1>34. ASSUME NEW p \in Panels, NEW u \in Users, PanelUnban(p, u) PROVE LocalsOK'
  <2>1. QED
    BY <1>34 DEF PanelUnban, session, outside, ThreadLocals, GatewayLocals, PanelLocals
<1>35. ASSUME NEW p \in Panels, NEW u \in Users, PanelRegister(p, u) PROVE LocalsOK'
  <2>1. QED
    BY <1>35 DEF PanelRegister, session, outside, ThreadLocals, GatewayLocals, PanelLocals
<1>36. ASSUME NEW p \in Panels, NEW u \in Users, NEW n \in TopUps, PanelAddQuota(p, u, n) PROVE LocalsOK'
  <2>1. PanelLocals'
    BY <1>36 DEF PanelAddQuota, PanelLocals, PanelStates, PanelJob
  <2>2. QED
    BY <1>36, <2>1 DEF PanelAddQuota, session, ThreadLocals, GatewayLocals
<1>37. ASSUME NEW u \in Users, NEW a \in Addresses, ClientGivesUp(u, a) PROVE LocalsOK'
  <2>1. QED
    BY <1>37 DEF ClientGivesUp, session, ThreadLocals, GatewayLocals, PanelLocals
<1>38. ASSUME Shutdown PROVE LocalsOK'
  <2>1. QED
    BY <1>38 DEF Shutdown, session, ThreadLocals, GatewayLocals, PanelLocals
<1>39. ASSUME NEW h \in Handlers, UnregisterRaises(h) PROVE LocalsOK'
  <2>1. ThreadLocals'
    BY <1>39 DEF UnregisterRaises, ThreadTypes, ThreadLocals, Goto, session, Claiming, Registered, Broken
  <2>2. QED
    BY <1>39, <2>1 DEF UnregisterRaises, session, outside, GatewayLocals, PanelLocals
<1>99. QED
  BY <1>1, <1>2, <1>3, <1>4, <1>5, <1>6, <1>7, <1>8, <1>9, <1>10, <1>11, <1>12, <1>13, <1>14, <1>15, <1>16, <1>17, <1>18, <1>19, <1>20, <1>21, <1>22, <1>23, <1>24, <1>25, <1>26, <1>27, <1>28, <1>29, <1>30, <1>31, <1>32, <1>33, <1>34, <1>35, <1>36, <1>37, <1>38, <1>39
  DEF Next, HandlerStep, ClientStep, GatewayStep, PanelStep, OperatorStep

-----------------------------------------------------------------------------
\* The pool and the registry.  Most steps are quiet: they leave both alone, no
\* handler enters or leaves the registry or dies in it, and the handlers that are
\* there keep their address and user.

Quiet ==
    /\ UNCHANGED pool
    /\ \A g \in Handlers :
        /\ pc'[g] \in Registered <=> pc[g] \in Registered
        /\ pc'[g] = Broken <=> pc[g] = Broken
        /\ pc[g] \in Registered \cup {Broken} => addr'[g] = addr[g] /\ user'[g] = user[g]

PoolInv == AddressesPartitioned /\ RegistryAgrees

LEMMA QuietKeeps == IInv /\ Quiet => PoolInv'
<1> SUFFICES ASSUME IInv, Quiet PROVE PoolInv'
  OBVIOUS
<1>1. AddressesPartitioned'
  <2>1. \A a \in Addresses : (InFree(a)' <=> InFree(a)) /\ active'[a] = active[a]
    BY DEF Quiet, pool, InFree
  <2>2. \A g \in Handlers : pc[g] = Broken => pc'[g] = Broken /\ addr'[g] = addr[g]
    BY DEF Quiet
  <2>3. free' = free /\ pending' = pending /\ disputed' = disputed
    BY DEF Quiet, pool
  <2>4. \A a \in Addresses :
          InFree(a)' \/ a \in pending' \/ active'[a] # None
          \/ \E g \in Handlers : pc'[g] = Broken /\ addr'[g] = a
    BY <2>1, <2>2, <2>3 DEF IInv, AddressesPartitioned
  <2>5. QED
    BY <2>1, <2>3, <2>4 DEF IInv, AddressesPartitioned
<1>2. RegistryAgrees'
  <2>1. \A a \in Addresses, h \in Handlers :
            active'[a] = h => pc'[h] \in Registered /\ addr'[h] = a
    BY DEF IInv, Quiet, RegistryAgrees, pool
  <2>2. \A h \in Handlers :
            pc'[h] \in Registered /\ addr'[h] \notin disputed' => active'[addr'[h]] = h
    BY DEF IInv, Quiet, RegistryAgrees, pool
  <2>3. \A u \in Users :
            byUser'[u] = {h \in Handlers : pc'[h] \in Registered \cup {Broken} /\ user'[h] = u}
    BY DEF IInv, Quiet, RegistryAgrees, pool
  <2>4. QED
    BY <2>1, <2>2, <2>3 DEF RegistryAgrees
<1>3. QED
  BY <1>1, <1>2 DEF PoolInv

\* A session that leaves the registry clears its address, and ends a dispute about it
\* only if it is the last one there.
LEMMA LeavingKeeps ==
    ASSUME IInv, NEW h \in Handlers, pc[h] \in Registered, addr[h] \in Addresses,
           active' = [active EXCEPT ![addr[h]] = None], disputed' = Settled(h), addr' = addr,
           pc'[h] \notin Registered, \A g \in Handlers \ {h} : pc'[g] = pc[g]
    PROVE  /\ \A a \in Addresses, g \in Handlers : active'[a] = g => pc'[g] \in Registered /\ addr'[g] = a
           /\ \A g \in Handlers :
                pc'[g] \in Registered /\ addr'[g] \notin disputed' => active'[addr'[g]] = g
<1> USE DEF IInv, TypeOK
<1>1. \A a \in Addresses : active'[a] = IF a = addr[h] THEN None ELSE active[a]
  BY DEF PoolTypes
<1>2. ASSUME NEW a \in Addresses, NEW g \in Handlers, active'[a] = g
      PROVE  pc'[g] \in Registered /\ addr'[g] = a
  <2>1. a # addr[h] /\ active[a] = g
    BY <1>1, <1>2, ServerConstants
  <2>2. pc[g] \in Registered /\ addr[g] = a
    BY <2>1 DEF RegistryAgrees
  <2>3. QED
    BY <2>1, <2>2
<1>3. ASSUME NEW g \in Handlers, pc'[g] \in Registered, addr'[g] \notin disputed'
      PROVE  active'[addr'[g]] = g
  <2>1. g # h /\ pc[g] \in Registered /\ addr[g] \notin Settled(h)
    BY <1>3
  <2>2. addr[g] # addr[h]
    <3> SUFFICES ASSUME addr[g] = addr[h] PROVE FALSE
      OBVIOUS
    <3>1. SharesAddress(h)
      BY <2>1 DEF SharesAddress
    <3>2. addr[h] \notin disputed
      BY <2>1, <3>1 DEF Settled
    <3>3. active[addr[h]] = g /\ active[addr[h]] = h
      BY <2>1, <3>2 DEF RegistryAgrees
    <3>4. QED
      BY <2>1, <3>3
  <2>3. addr[g] \notin disputed
    BY <2>1, <2>2 DEF Settled
  <2>4. addr[g] \in Addresses /\ active[addr[g]] = g
    BY <2>1, <2>3 DEF RegistryAgrees, LocalsOK, ThreadLocals
  <2>5. QED
    BY <1>1, <2>2, <2>4
<1>4. QED
  BY <1>2, <1>3

\* What rotating a list to its i-th element and taking that leaves.
Rotated(s, i) == SubSeq(s, i + 1, Len(s)) \o SubSeq(s, 1, i - 1)

LEMMA RotatedList ==
    ASSUME NEW S, NEW s \in Seq(S), NEW i \in 1 .. Len(s), NEW t, t = Rotated(s, i)
    PROVE  /\ DOMAIN t = 1 .. Len(s) - 1
           /\ \A j \in 1 .. Len(s) - i : t[j] = s[i + j]
           /\ \A j \in 1 .. i - 1 : t[(Len(s) - i) + j] = s[j]
<1> DEFINE n == Len(s)
           b == SubSeq(s, i + 1, n)
           c == SubSeq(s, 1, i - 1)
<1>1. n \in Nat /\ i \in 1 .. n /\ t = b \o c
  BY DEF Rotated
<1>2. b \in Seq(S) /\ Len(b) = n - i /\ \A j \in 1 .. n - i : b[j] = s[i + j]
  OBVIOUS
<1>3. c \in Seq(S) /\ Len(c) = i - 1 /\ \A j \in 1 .. i - 1 : c[j] = s[j]
  OBVIOUS
<1> HIDE DEF n, b, c
<1>4. /\ t \in Seq(S) /\ Len(t) = Len(b) + Len(c)
      /\ \A j \in 1 .. Len(b) + Len(c) : t[j] = IF j <= Len(b) THEN b[j] ELSE c[j - Len(b)]
  BY <1>1, <1>2, <1>3, ConcatProperties, SMTT(30)
<1>5. Len(t) = n - 1
  BY <1>1, <1>2, <1>3, <1>4
<1>6. DOMAIN t = 1 .. n - 1
  BY <1>4, <1>5
<1>7. \A j \in 1 .. n - i : t[j] = s[i + j]
  BY <1>1, <1>2, <1>3, <1>4
<1>8. ASSUME NEW j \in 1 .. i - 1 PROVE t[(n - i) + j] = s[j]
  <2>1. (n - i) + j \in 1 .. Len(b) + Len(c) /\ ~((n - i) + j <= Len(b)) /\ ((n - i) + j) - Len(b) = j
    BY <1>1, <1>2, <1>3
  <2>2. t[(n - i) + j] = c[j]
    BY <1>4, <2>1
  <2>3. QED
    BY <1>3, <2>2
<1>9. QED
  BY <1>6, <1>7, <1>8 DEF n

\* What a list has, and whether it has it once.
Lists(s, e) == \E i \in DOMAIN s : s[i] = e

Distinct(s) == \A i, j \in DOMAIN s : s[i] = s[j] => i = j

\* The list has the same members but the one taken, and keeps them apart.
LEMMA RotatedMembers ==
    ASSUME NEW S, NEW s \in Seq(S), NEW i \in DOMAIN s, NEW t, t = Rotated(s, i)
    PROVE  /\ \A e : e # s[i] => (Lists(t, e) <=> Lists(s, e))
           /\ Distinct(s) => Distinct(t) /\ ~Lists(t, s[i])
<1> DEFINE n == Len(s)
<1>1. n \in Nat /\ DOMAIN s = 1 .. n /\ i \in 1 .. n
  OBVIOUS
<1>2. /\ DOMAIN t = 1 .. n - 1
      /\ \A j \in 1 .. n - i : t[j] = s[i + j]
      /\ \A j \in 1 .. i - 1 : t[(n - i) + j] = s[j]
  BY <1>1, RotatedList
<1> HIDE DEF n
<1>3. ASSUME NEW j \in DOMAIN t
      PROVE  \E l \in DOMAIN s \ {i} : t[j] = s[l] /\ l = IF j <= n - i THEN i + j ELSE j - (n - i)
  <2>1. CASE j <= n - i
    <3>1. j \in 1 .. n - i /\ i + j \in DOMAIN s \ {i}
      BY <1>1, <1>2, <2>1
    <3>2. QED
      BY <1>2, <2>1, <3>1
  <2>2. CASE ~(j <= n - i)
    <3>1. PICK l : l = j - (n - i)
      OBVIOUS
    <3>2. l \in 1 .. i - 1 /\ l \in DOMAIN s \ {i} /\ j = (n - i) + l
      BY <1>1, <1>2, <2>2, <3>1
    <3>3. t[j] = s[l]
      BY <1>2, <3>2
    <3>4. QED
      BY <2>2, <3>1, <3>2, <3>3
  <2>3. QED
    BY <2>1, <2>2
<1>4. ASSUME NEW l \in DOMAIN s \ {i} PROVE \E j \in DOMAIN t : t[j] = s[l]
  <2>1. CASE l < i
    <3>1. l \in 1 .. i - 1 /\ (n - i) + l \in DOMAIN t
      BY <1>1, <1>2, <2>1
    <3>2. QED
      BY <1>2, <3>1
  <2>2. CASE l > i
    <3>1. PICK j : j = l - i
      OBVIOUS
    <3>2. j \in 1 .. n - i /\ j \in DOMAIN t /\ l = i + j
      BY <1>1, <1>2, <2>2, <3>1
    <3>3. QED
      BY <1>2, <3>2
  <2>3. QED
    BY <1>1, <2>1, <2>2
<1>5. ASSUME NEW e, e # s[i] PROVE Lists(t, e) <=> Lists(s, e)
  BY <1>3, <1>4, <1>5 DEF Lists
<1>6. ASSUME Distinct(s) PROVE Distinct(t) /\ ~Lists(t, s[i])
  <2>1. ASSUME NEW j \in DOMAIN t, NEW l \in DOMAIN t, t[j] = t[l] PROVE j = l
    <3>1. PICK k \in DOMAIN s : t[j] = s[k] /\ k = IF j <= n - i THEN i + j ELSE j - (n - i)
      BY <1>3
    <3>2. PICK m \in DOMAIN s : t[l] = s[m] /\ m = IF l <= n - i THEN i + l ELSE l - (n - i)
      BY <1>3
    <3>3. k = m
      BY <1>6, <2>1, <3>1, <3>2 DEF Distinct
    <3>4. QED
      BY <1>1, <1>2, <3>1, <3>2, <3>3
  <2>2. ~Lists(t, s[i])
    BY <1>1, <1>3, <1>6 DEF Distinct, Lists
  <2>3. QED
    BY <2>1, <2>2 DEF Distinct
<1>7. QED
  BY <1>5, <1>6

\* Appending what a list does not have.
Appended(s, x) == Append(s, x)

LEMMA AppendedMembers ==
    ASSUME NEW S, NEW s \in Seq(S), NEW x \in S, NEW t, t = Appended(s, x)
    PROVE  /\ \A e : Lists(t, e) <=> (Lists(s, e) \/ e = x)
           /\ Distinct(s) /\ ~Lists(s, x) => Distinct(t)
<1> DEFINE n == Len(s)
<1>1. n \in Nat /\ DOMAIN s = 1 .. n /\ DOMAIN t = 1 .. n + 1
  BY DEF Appended
<1>2. (\A i \in 1 .. n : t[i] = s[i]) /\ t[n + 1] = x
  BY DEF Appended
<1> HIDE DEF n
<1>3. \A i \in DOMAIN t : i \in DOMAIN s \/ i = n + 1
  BY <1>1
<1>4. \A i \in DOMAIN s : i \in DOMAIN t /\ t[i] = s[i]
  BY <1>1, <1>2
<1>5. n + 1 \in DOMAIN t
  BY <1>1
<1>6. \A e : Lists(t, e) <=> (Lists(s, e) \/ e = x)
  BY <1>2, <1>3, <1>4, <1>5 DEF Lists
<1>7. Distinct(s) /\ ~Lists(s, x) => Distinct(t)
  BY <1>2, <1>3, <1>4 DEF Distinct, Lists
<1>8. QED
  BY <1>6, <1>7

LEMMA PoolStep == IInv /\ Next => PoolInv'
<1> SUFFICES ASSUME IInv, Next PROVE PoolInv'
  OBVIOUS
<1> USE DEF IInv, TypeOK
<1>1. ASSUME NEW h \in Handlers, Enlist(h) PROVE PoolInv'
  <2>1. Quiet
    BY <1>1 DEF Enlist, Quiet, pool, session, outside, Goto, ThreadTypes, Claiming, Registered, Broken
  <2>2. QED
    BY <2>1, QuietKeeps
<1>2. ASSUME NEW h \in Handlers, FlagEmptyAccount(h) PROVE PoolInv'
  <2>1. Quiet
    BY <1>2 DEF FlagEmptyAccount, Quiet, pool, session, outside, Goto, ThreadTypes, Claiming, Registered, Broken
  <2>2. QED
    BY <2>1, QuietKeeps
<1>3. ASSUME NEW h \in Handlers, StopEarly(h) PROVE PoolInv'
  <2>1. Quiet
    BY <1>3, FinishEffect DEF StopEarly, Quiet, pool, outside, Early, ThreadTypes, Claiming, Registered, Broken
  <2>2. QED
    BY <2>1, QuietKeeps
<1>4. ASSUME NEW h \in Handlers, CheckVacant(h) PROVE PoolInv'
  <2>1. CASE Goto(h, "vacant") /\ UNCHANGED session
    <3>1. Quiet
      BY <1>4, <2>1 DEF CheckVacant, Quiet, pool, session, outside, Goto, ThreadTypes, Claiming, Registered, Broken
    <3>2. QED
      BY <3>1, QuietKeeps
  <2>2. CASE Finish(h)
    <3>1. Quiet
      BY <1>4, <2>2, FinishEffect DEF CheckVacant, Quiet, pool, outside, ThreadTypes, Claiming, Registered, Broken
    <3>2. QED
      BY <3>1, QuietKeeps
  <2>3. QED
    BY <1>4, <2>1, <2>2 DEF CheckVacant
<1>5. ASSUME NEW h \in Handlers, RegisterSession(h) PROVE PoolInv'
  <2>1. addr[h] \in Addresses /\ user[h] \in Users
    BY <1>5 DEF RegisterSession, LocalsOK, ThreadLocals, Claiming
  <2>2. pc' = [pc EXCEPT ![h] = "connecting"] /\ pc[h] = "vacant" /\ user' = user /\ addr' = addr
    BY <1>5 DEF RegisterSession, Goto, session
  <2>3. /\ free' = free /\ pending' = pending \ {addr[h]}
        /\ active' = [active EXCEPT ![addr[h]] = h]
        /\ byUser' = [byUser EXCEPT ![user[h]] = @ \cup {h}]
        /\ disputed' = IF addr[h] \in pending THEN disputed ELSE disputed \cup {addr[h]}
    BY <1>5 DEF RegisterSession
  <2>4. h # None
    BY ServerConstants
  <2>5. \A a \in Addresses : active'[a] = IF a = addr[h] THEN h ELSE active[a]
    BY <2>1, <2>3 DEF PoolTypes
  <2>6. /\ pc[h] \notin Registered \cup {Broken} /\ pc'[h] \in Registered
        /\ \A g \in Handlers \ {h} : pc'[g] = pc[g]
    BY <2>2 DEF Registered, Broken, ThreadTypes
  <2>7. AddressesPartitioned'
    <3>1. \A a \in Addresses : InFree(a)' <=> InFree(a)
      BY <2>3 DEF InFree
    <3>2. \A g \in Handlers : pc[g] = Broken => pc'[g] = Broken /\ addr'[g] = addr[g]
      BY <2>2, <2>6
    <3>3. ASSUME NEW a \in Addresses, InFree(a)', active'[a] # None PROVE a \in disputed'
      <4>1. CASE a = addr[h]
        <5>1. addr[h] \notin pending
          BY <3>1, <3>3, <4>1 DEF AddressesPartitioned
        <5>2. QED
          BY <2>3, <4>1, <5>1
      <4>2. CASE a # addr[h]
        BY <2>3, <2>5, <3>1, <3>3, <4>2 DEF AddressesPartitioned
      <4>3. QED
        BY <4>1, <4>2
    <3>4. ASSUME NEW a \in Addresses
          PROVE  \/ InFree(a)' \/ a \in pending' \/ active'[a] # None
                 \/ \E g \in Handlers : pc'[g] = Broken /\ addr'[g] = a
      BY <2>3, <2>4, <2>5, <3>1, <3>2 DEF AddressesPartitioned
    <3>5. \A a \in Addresses : a \in pending' => ~InFree(a)' /\ active'[a] = None
      BY <2>3, <2>5, <3>1 DEF AddressesPartitioned
    <3>6. QED
      BY <2>3, <3>3, <3>4, <3>5 DEF AddressesPartitioned
  <2>8. RegistryAgrees'
    <3>1. ASSUME NEW a \in Addresses, NEW g \in Handlers, active'[a] = g
          PROVE  pc'[g] \in Registered /\ addr'[g] = a
      <4>1. CASE a = addr[h]
        BY <2>2, <2>5, <2>6, <3>1, <4>1
      <4>2. CASE a # addr[h]
        <5>1. pc[g] \in Registered /\ addr[g] = a
          BY <2>5, <3>1, <4>2 DEF RegistryAgrees
        <5>2. QED
          BY <2>2, <2>6, <5>1
      <4>3. QED
        BY <4>1, <4>2
    <3>2. ASSUME NEW g \in Handlers, pc'[g] \in Registered, addr'[g] \notin disputed'
          PROVE  active'[addr'[g]] = g
      <4>1. CASE g = h
        BY <2>1, <2>2, <2>5, <4>1
      <4>2. CASE g # h
        <5>1. pc[g] \in Registered /\ addr[g] \notin disputed
          BY <2>2, <2>3, <2>6, <3>2, <4>2
        <5>2. addr[g] \in Addresses /\ active[addr[g]] = g
          BY <5>1 DEF RegistryAgrees, LocalsOK, ThreadLocals
        <5>3. addr[g] # addr[h]
          <6> SUFFICES ASSUME addr[g] = addr[h] PROVE FALSE
            OBVIOUS
          <6>1. addr[h] \in pending
            BY <2>2, <2>3, <3>2
          <6>2. active[addr[h]] = None
            BY <2>1, <6>1 DEF AddressesPartitioned
          <6>3. QED
            BY <5>2, <6>2, ServerConstants
        <5>4. QED
          BY <2>2, <2>5, <5>2, <5>3
      <4>3. QED
        BY <4>1, <4>2
    <3>3. \A u \in Users : byUser'[u] = {g \in Handlers : pc'[g] \in Registered \cup {Broken} /\ user'[g] = u}
      <4>1. \A u \in Users : byUser'[u] = IF u = user[h] THEN byUser[u] \cup {h} ELSE byUser[u]
        BY <2>1, <2>3 DEF PoolTypes
      <4>2. \A u \in Users : byUser[u] = {g \in Handlers : pc[g] \in Registered \cup {Broken} /\ user[g] = u}
        BY DEF RegistryAgrees
      <4>3. \A g \in Handlers : (pc'[g] \in Registered \cup {Broken}) <=> (pc[g] \in Registered \cup {Broken} \/ g = h)
        BY <2>6
      <4>4. ASSUME NEW u \in Users, NEW g \in Handlers
            PROVE  g \in byUser'[u] <=> pc'[g] \in Registered \cup {Broken} /\ user'[g] = u
        <5>1. g \in byUser[u] <=> pc[g] \in Registered \cup {Broken} /\ user[g] = u
          BY <4>2
        <5>2. CASE g = h
          BY <2>2, <4>1, <4>2, <4>3, <5>1, <5>2
        <5>3. CASE g # h
          <6>1. g \in byUser'[u] <=> g \in byUser[u]
            BY <4>1, <5>3
          <6>2. pc'[g] \in Registered \cup {Broken} <=> pc[g] \in Registered \cup {Broken}
            BY <4>3, <5>3
          <6>3. QED
            BY <2>2, <5>1, <6>1, <6>2
        <5>4. QED
          BY <5>2, <5>3
      <4>5. \A u \in Users : byUser'[u] \subseteq Handlers
        <5>1. \A u \in Users : byUser[u] \subseteq Handlers
          BY <4>2
        <5>2. QED
          BY <4>1, <5>1
      <4>6. QED
        BY <4>4, <4>5
    <3>4. QED
      BY <3>1, <3>2, <3>3 DEF RegistryAgrees
  <2>9. QED
    BY <2>7, <2>8 DEF PoolInv
<1>6. ASSUME NEW h \in Handlers, ConnectAccount(h) PROVE PoolInv'
  <2>1. Quiet
    BY <1>6 DEF ConnectAccount, Quiet, pool, session, outside, Goto, ThreadTypes, Claiming, Registered, Broken
  <2>2. QED
    BY <2>1, QuietKeeps
<1>7. ASSUME NEW h \in Handlers, LoadQuota(h) PROVE PoolInv'
  <2>1. Quiet
    BY <1>7 DEF LoadQuota, Quiet, pool, outside, Goto, ThreadTypes, Claiming, Registered, Broken
  <2>2. QED
    BY <2>1, QuietKeeps
<1>8. ASSUME NEW h \in Handlers, CheckQuota(h) PROVE PoolInv'
  <2>1. Quiet
    BY <1>8 DEF CheckQuota, Quiet, pool, session, outside, Goto, NextPacket, ThreadTypes, Claiming, Registered, Broken
  <2>2. QED
    BY <2>1, QuietKeeps
<1>9. ASSUME NEW h \in Handlers, CreditQuota(h) PROVE PoolInv'
  <2>1. pc[h] = "crediting" /\ (pc' = [pc EXCEPT ![h] = "reading"] \/ pc' = [pc EXCEPT ![h] = "closing"])
    BY <1>9 DEF CreditQuota, NextPacket, Goto
  <2>2. user' = user /\ addr' = addr /\ UNCHANGED pool
    BY <1>9 DEF CreditQuota
  <2>3. Quiet
    BY <2>1, <2>2 DEF Quiet, ThreadTypes, Claiming, Registered, Broken
  <2>4. QED
    BY <2>3, QuietKeeps
<1>10. ASSUME NEW h \in Handlers, StopSession(h) PROVE PoolInv'
  <2>1. Quiet
    BY <1>10 DEF StopSession, Quiet, pool, session, outside, Goto, ThreadTypes, Claiming, Registered, Broken
  <2>2. QED
    BY <2>1, QuietKeeps
<1>11. ASSUME NEW h \in Handlers, FlagExhausted(h) PROVE PoolInv'
  <2>1. Quiet
    BY <1>11 DEF FlagExhausted, Quiet, pool, session, outside, Goto, ThreadTypes, Claiming, Registered, Broken
  <2>2. QED
    BY <2>1, QuietKeeps
<1>12. ASSUME NEW h \in Handlers, ReadFinalQuota(h) PROVE PoolInv'
  <2>1. Quiet
    BY <1>12 DEF ReadFinalQuota, Quiet, pool, outside, Goto, ThreadTypes, Claiming, Registered, Broken
  <2>2. QED
    BY <2>1, QuietKeeps
<1>13. ASSUME NEW h \in Handlers, UnregisterSession(h) PROVE PoolInv'
  <2>1. addr[h] \in Addresses /\ user[h] \in Users
    BY <1>13 DEF UnregisterSession, LocalsOK, ThreadLocals, Registered
  <2>2. /\ free' = IF InFree(addr[h]) THEN free ELSE Append(free, addr[h])
        /\ pending' = pending \ {addr[h]}
        /\ active' = [active EXCEPT ![addr[h]] = None]
        /\ byUser' = [byUser EXCEPT ![user[h]] = @ \ {h}]
        /\ disputed' = Settled(h)
    BY <1>13 DEF UnregisterSession, InFree
  <2>3. pc' = [pc EXCEPT ![h] = "disconnecting"] /\ pc[h] = "unregister" /\ user' = user /\ addr' = addr
    BY <1>13 DEF UnregisterSession, Goto, session
  <2>4. /\ pc[h] \in Registered /\ pc'[h] \notin Registered \cup {Broken}
        /\ \A g \in Handlers \ {h} : pc'[g] = pc[g]
    BY <2>3 DEF Registered, Broken, ThreadTypes
  <2>5. AddressesPartitioned'
    <3>1. /\ \A i, j \in DOMAIN free' : free'[i] = free'[j] => i = j
          /\ \A a \in Addresses : InFree(a)' <=> (InFree(a) \/ a = addr[h])
      <4>1. CASE InFree(addr[h])
        <5>1. free' = free
          BY <2>2, <4>1
        <5>2. QED
          BY <4>1, <5>1 DEF AddressesPartitioned, InFree
      <4>2. CASE ~InFree(addr[h])
        <5>1. PICK s, t, x : s = free /\ t = free' /\ x = addr[h]
          OBVIOUS
        <5>2. s \in Seq(Addresses) /\ x \in Addresses /\ t = Appended(s, x) /\ Distinct(s) /\ ~Lists(s, x)
          BY <2>1, <2>2, <4>2, <5>1 DEF Appended, PoolTypes, AddressesPartitioned, InFree, Distinct, Lists
        <5>3. (\A e : Lists(t, e) <=> (Lists(s, e) \/ e = x)) /\ Distinct(t)
          BY <5>2, AppendedMembers
        <5>4. QED
          BY <5>1, <5>3 DEF InFree, Distinct, Lists
      <4>3. QED
        BY <4>1, <4>2
    <3>2. \A a \in Addresses : active'[a] = IF a = addr[h] THEN None ELSE active[a]
      BY <2>1, <2>2 DEF PoolTypes
    <3>3. \A a \in Addresses : a \in disputed /\ a # addr[h] => a \in disputed'
      BY <2>2 DEF Settled
    <3>4. \A g \in Handlers : pc[g] = Broken => pc'[g] = Broken /\ addr'[g] = addr[g]
      BY <2>3, <2>4 DEF Registered, Broken
    <3>5. \A a \in Addresses : a \in pending' => ~InFree(a)' /\ active'[a] = None
      BY <2>2, <3>1, <3>2 DEF AddressesPartitioned
    <3>6. \A a \in Addresses : InFree(a)' /\ active'[a] # None => a \in disputed'
      BY <3>1, <3>2, <3>3 DEF AddressesPartitioned
    <3>7. \A a \in Addresses :
            InFree(a)' \/ a \in pending' \/ active'[a] # None
            \/ \E g \in Handlers : pc'[g] = Broken /\ addr'[g] = a
      BY <2>2, <3>1, <3>2, <3>4 DEF AddressesPartitioned
    <3>8. QED
      BY <3>1, <3>5, <3>6, <3>7 DEF AddressesPartitioned
  <2>6. RegistryAgrees'
    <3>1. /\ \A a \in Addresses, g \in Handlers : active'[a] = g => pc'[g] \in Registered /\ addr'[g] = a
          /\ \A g \in Handlers : pc'[g] \in Registered /\ addr'[g] \notin disputed' => active'[addr'[g]] = g
      BY <2>1, <2>2, <2>3, <2>4, LeavingKeeps
    <3>2. \A u \in Users : byUser'[u] = {g \in Handlers : pc'[g] \in Registered \cup {Broken} /\ user'[g] = u}
      <4>1. \A u \in Users : byUser'[u] = IF u = user[h] THEN byUser[u] \ {h} ELSE byUser[u]
        BY <2>1, <2>2 DEF PoolTypes
      <4>2. \A u \in Users : byUser[u] = {g \in Handlers : pc[g] \in Registered \cup {Broken} /\ user[g] = u}
        BY DEF RegistryAgrees
      <4>3. \A g \in Handlers : (pc'[g] \in Registered \cup {Broken}) <=> (pc[g] \in Registered \cup {Broken} /\ g # h)
        BY <2>4
      <4>4. ASSUME NEW u \in Users, NEW g \in Handlers
            PROVE  g \in byUser'[u] <=> pc'[g] \in Registered \cup {Broken} /\ user'[g] = u
        <5>1. g \in byUser[u] <=> pc[g] \in Registered \cup {Broken} /\ user[g] = u
          BY <4>2
        <5>2. CASE g = h
          BY <2>3, <4>1, <4>2, <4>3, <5>1, <5>2
        <5>3. CASE g # h
          BY <2>3, <4>1, <4>2, <4>3, <5>1, <5>3
        <5>4. QED
          BY <5>2, <5>3
      <4>5. \A u \in Users : byUser'[u] \subseteq Handlers
        <5>1. \A u \in Users : byUser[u] \subseteq Handlers
          BY <4>2
        <5>2. QED
          BY <4>1, <5>1
      <4>6. QED
        BY <4>4, <4>5
    <3>3. QED
      BY <3>1, <3>2 DEF RegistryAgrees
  <2>7. QED
    BY <2>5, <2>6 DEF PoolInv
<1>14. ASSUME NEW h \in Handlers, DisconnectAccount(h) PROVE PoolInv'
  <2>1. Quiet
    BY <1>14, FinishEffect DEF DisconnectAccount, Quiet, pool, outside, ThreadTypes, Claiming, Registered, Broken
  <2>2. QED
    BY <2>1, QuietKeeps
<1>15. ASSUME NEW h \in Handlers, Accept(h) PROVE PoolInv'
  <2>1. Quiet
    BY <1>15 DEF Accept, Quiet, pool, outside, Goto, ThreadTypes, Claiming, Registered, Broken
  <2>2. QED
    BY <2>1, QuietKeeps
<1>16. ASSUME NEW h \in Handlers, Hangup(h) PROVE PoolInv'
  <2>1. Quiet
    BY <1>16, FinishEffect DEF Hangup, Quiet, pool, outside, Early, ThreadTypes, Claiming, Registered, Broken
  <2>2. QED
    BY <2>1, QuietKeeps
<1>17. ASSUME NEW h \in Handlers, DropEarly(h) PROVE PoolInv'
  <2>1. Quiet
    BY <1>17 DEF DropEarly, Quiet, pool, session, outside, Goto, ThreadTypes, Claiming, Registered, Broken
  <2>2. QED
    BY <2>1, QuietKeeps
<1>18. ASSUME NEW h \in Handlers, ClientLeaves(h) PROVE PoolInv'
  <2>1. Quiet
    BY <1>18 DEF ClientLeaves, Quiet, pool, session, outside, Goto, ThreadTypes, Claiming, Registered, Broken
  <2>2. QED
    BY <2>1, QuietKeeps
<1>19. ASSUME NEW h \in Handlers, NEW u \in Users, Register(h, u) PROVE PoolInv'
  <2>1. Quiet
    BY <1>19, FinishEffect DEF Register, Quiet, pool, outside, ThreadTypes, Claiming, Registered, Broken
  <2>2. QED
    BY <2>1, QuietKeeps
<1>20. ASSUME NEW h \in Handlers, NEW u \in Users, Authenticate(h, u) PROVE PoolInv'
  <2>1. Quiet
    BY <1>20 DEF Authenticate, Quiet, pool, outside, Goto, ThreadTypes, Claiming, Registered, Broken
  <2>2. QED
    BY <2>1, QuietKeeps
<1>21. ASSUME NEW h \in Handlers, NEW n \in Requests, GraceGrant(h, n) PROVE PoolInv'
  <2>1. Quiet
    BY <1>21, FinishEffect DEF GraceGrant, Quiet, pool, ThreadTypes, Claiming, Registered, Broken
  <2>2. QED
    BY <2>1, QuietKeeps
<1>22. ASSUME NEW h \in Handlers, NEW n \in Requests, RequestQuota(h, n) PROVE PoolInv'
  <2>1. Quiet
    BY <1>22 DEF RequestQuota, Quiet, pool, Goto, ThreadTypes, Claiming, Registered, Broken
  <2>2. QED
    BY <2>1, QuietKeeps
<1>23. ASSUME NEW h \in Handlers, NEW delivered \in BOOLEAN, AssignIP(h, delivered) PROVE PoolInv'
  <2>1. PICK i \in DOMAIN free :
          /\ active[free[i]] = None
          /\ free' = Rotated(free, i)
          /\ pending' = pending \cup {free[i]}
    BY <1>23 DEF AssignIP, Rotated
  <2>2. free \in Seq(Addresses) /\ DOMAIN free = 1 .. Len(free) /\ Len(free) \in Nat /\ i \in 1 .. Len(free)
    BY DEF PoolTypes
  <2>3. free[i] \in Addresses
    BY <2>2
  <2>4. Finish(h) /\ pc[h] = "authed" /\ UNCHANGED <<active, byUser, disputed>>
    BY <1>23 DEF AssignIP
  <2>5. /\ pc' = [pc EXCEPT ![h] = "closed"]
        /\ \A g \in Handlers \ {h} : user'[g] = user[g] /\ addr'[g] = addr[g]
    BY <2>4, FinishEffect
  <2>6. /\ pc[h] \notin Registered \cup {Broken} /\ pc'[h] \notin Registered \cup {Broken}
        /\ \A g \in Handlers \ {h} : pc'[g] = pc[g]
    BY <2>4, <2>5 DEF Registered, Broken, ThreadTypes
  <2>7. AddressesPartitioned'
    <3>1. /\ \A e : e # free[i] => (Lists(free', e) <=> Lists(free, e))
          /\ Distinct(free') /\ ~Lists(free', free[i])
      <4>1. PICK s, t : s = free /\ t = free'
        OBVIOUS
      <4>2. Distinct(s)
        BY <4>1 DEF AddressesPartitioned, Distinct
      <4>3. s \in Seq(Addresses) /\ i \in DOMAIN s /\ t = Rotated(s, i)
        BY <2>1, <2>2, <4>1
      <4>4. /\ \A e : e # s[i] => (Lists(t, e) <=> Lists(s, e))
            /\ Distinct(s) => Distinct(t) /\ ~Lists(t, s[i])
        BY <4>3, RotatedMembers
      <4>5. QED
        BY <4>1, <4>2, <4>4
    <3>2. \A b : InFree(b)' <=> Lists(free', b)
      BY DEF InFree, Lists
    <3>3. \A b : InFree(b) <=> Lists(free, b)
      BY DEF InFree, Lists
    <3>4. \A b \in Addresses : InFree(b)' <=> InFree(b) /\ b # free[i]
      BY <3>1, <3>2, <3>3
    <3>5. \A g \in Handlers : pc[g] = Broken => pc'[g] = Broken /\ addr'[g] = addr[g]
      BY <2>5, <2>6
    <3>6. \A b \in Addresses : b \in pending' => ~InFree(b)' /\ active'[b] = None
      BY <2>1, <2>4, <3>4 DEF AddressesPartitioned
    <3>7. \A b \in Addresses : InFree(b)' /\ active'[b] # None => b \in disputed'
      BY <2>4, <3>4 DEF AddressesPartitioned
    <3>8. \A b \in Addresses :
            InFree(b)' \/ b \in pending' \/ active'[b] # None
            \/ \E g \in Handlers : pc'[g] = Broken /\ addr'[g] = b
      BY <2>1, <2>4, <3>4, <3>5 DEF AddressesPartitioned
    <3>9. QED
      BY <3>1, <3>6, <3>7, <3>8 DEF AddressesPartitioned, Distinct
  <2>8. RegistryAgrees'
    <3>1. \A g \in Handlers : pc'[g] \in Registered \cup {Broken} =>
            pc'[g] = pc[g] /\ addr'[g] = addr[g] /\ user'[g] = user[g]
      BY <2>5, <2>6
    <3>2. \A g \in Handlers : pc[g] \in Registered \cup {Broken} =>
            pc'[g] = pc[g] /\ addr'[g] = addr[g] /\ user'[g] = user[g]
      BY <2>5, <2>6
    <3>3. QED
      BY <2>4, <3>1, <3>2 DEF RegistryAgrees
  <2>9. QED
    BY <2>7, <2>8 DEF PoolInv
<1>24. ASSUME NEW h \in Handlers, NEW a \in Addresses, Announce(h, a) PROVE PoolInv'
  <2>1. UNCHANGED pool /\ pc[h] \in {"authed", "await"}
    BY <1>24 DEF Announce
  <2>2. CASE Finish(h)
    <3>1. Quiet
      BY <2>1, <2>2, FinishEffect DEF Quiet, ThreadTypes, Registered, Broken
    <3>2. QED
      BY <3>1, QuietKeeps
  <2>3. CASE Goto(h, "announced") /\ addr' = [addr EXCEPT ![h] = a] /\ user' = user
    <3>1. Quiet
      BY <2>1, <2>3 DEF Quiet, Goto, ThreadTypes, Registered, Broken
    <3>2. QED
      BY <3>1, QuietKeeps
  <2>4. QED
    BY <1>24, <2>2, <2>3 DEF Announce
<1>25. ASSUME NEW h \in Handlers, NEW n \in Sizes, Data(h, n) PROVE PoolInv'
  <2>1. Quiet
    BY <1>25 DEF Data, Quiet, pool, outside, Goto, NextPacket, ThreadTypes, Claiming, Registered, Broken
  <2>2. QED
    BY <2>1, QuietKeeps
<1>26. ASSUME NEW a \in Addresses, NEW n \in Sizes, GatewayLookup(a, n) PROVE PoolInv'
  <2>1. Quiet
    BY <1>26 DEF GatewayLookup, Quiet, pool, session
  <2>2. QED
    BY <2>1, QuietKeeps
<1>27. ASSUME GatewayCharge PROVE PoolInv'
  <2>1. Quiet
    BY <1>27 DEF GatewayCharge, Quiet, pool, ThreadTypes
  <2>2. QED
    BY <2>1, QuietKeeps
<1>28. ASSUME GatewaySend PROVE PoolInv'
  <2>1. Quiet
    BY <1>28 DEF GatewaySend, Quiet, pool, session
  <2>2. QED
    BY <2>1, QuietKeeps
<1>29. ASSUME GatewayFlag PROVE PoolInv'
  <2>1. Quiet
    BY <1>29 DEF GatewayFlag, Quiet, pool, session, ThreadTypes
  <2>2. QED
    BY <2>1, QuietKeeps
<1>30. ASSUME GatewayHalt PROVE PoolInv'
  <2>1. Quiet
    BY <1>30 DEF GatewayHalt, Quiet, pool, session
  <2>2. QED
    BY <2>1, QuietKeeps
<1>31. ASSUME NEW p \in Panels, PanelSnapshot(p) PROVE PoolInv'
  <2>1. Quiet
    BY <1>31 DEF PanelSnapshot, Quiet, pool, session
  <2>2. QED
    BY <2>1, QuietKeeps
<1>32. ASSUME NEW p \in Panels, NEW h \in Handlers, PanelVisit(p, h) PROVE PoolInv'
  <2>1. Quiet
    BY <1>32 DEF PanelVisit, Quiet, pool
  <2>2. QED
    BY <2>1, QuietKeeps
<1>33. ASSUME NEW p \in Panels, NEW u \in Users, PanelBan(p, u) PROVE PoolInv'
  <2>1. Quiet
    BY <1>33 DEF PanelBan, Quiet, pool, session
  <2>2. QED
    BY <2>1, QuietKeeps
<1>34. ASSUME NEW p \in Panels, NEW u \in Users, PanelUnban(p, u) PROVE PoolInv'
  <2>1. Quiet
    BY <1>34 DEF PanelUnban, Quiet, pool, session, outside
  <2>2. QED
    BY <2>1, QuietKeeps
<1>35. ASSUME NEW p \in Panels, NEW u \in Users, PanelRegister(p, u) PROVE PoolInv'
  <2>1. Quiet
    BY <1>35 DEF PanelRegister, Quiet, pool, session, outside
  <2>2. QED
    BY <2>1, QuietKeeps
<1>36. ASSUME NEW p \in Panels, NEW u \in Users, NEW n \in TopUps, PanelAddQuota(p, u, n) PROVE PoolInv'
  <2>1. Quiet
    BY <1>36 DEF PanelAddQuota, Quiet, pool, session
  <2>2. QED
    BY <2>1, QuietKeeps
<1>37. ASSUME NEW u \in Users, NEW a \in Addresses, ClientGivesUp(u, a) PROVE PoolInv'
  <2>1. Quiet
    BY <1>37 DEF ClientGivesUp, Quiet, session
  <2>2. QED
    BY <2>1, QuietKeeps
<1>38. ASSUME Shutdown PROVE PoolInv'
  <2>1. Quiet
    BY <1>38 DEF Shutdown, Quiet, pool, session
  <2>2. QED
    BY <2>1, QuietKeeps
<1>39. ASSUME NEW h \in Handlers, UnregisterRaises(h) PROVE PoolInv'
  <2>1. addr[h] \in Addresses /\ user[h] \in Users
    BY <1>39 DEF UnregisterRaises, LocalsOK, ThreadLocals, Registered
  <2>2. /\ free' = free /\ pending' = pending /\ byUser' = byUser
        /\ active' = [active EXCEPT ![addr[h]] = None] /\ disputed' = Settled(h)
    BY <1>39 DEF UnregisterRaises
  <2>3. pc' = [pc EXCEPT ![h] = Broken] /\ pc[h] = "unregister" /\ user' = user /\ addr' = addr
    BY <1>39 DEF UnregisterRaises, Goto, session
  <2>4. AddressesPartitioned'
    <3>1. \A a \in Addresses : active'[a] = IF a = addr[h] THEN None ELSE active[a]
      BY <2>1, <2>2 DEF PoolTypes
    <3>2. \A a \in Addresses : a \in disputed /\ a # addr[h] => a \in disputed'
      BY <2>2 DEF Settled
    <3>3. \A a \in Addresses : InFree(a)' <=> InFree(a)
      BY <2>2 DEF InFree
    <3>4. pc'[h] = Broken /\ addr'[h] = addr[h]
      BY <2>3 DEF ThreadTypes
    <3>5. \A g \in Handlers : pc[g] = Broken => pc'[g] = Broken /\ addr'[g] = addr[g]
      BY <2>3 DEF ThreadTypes
    <3>6. \A a \in Addresses :
            InFree(a)' \/ a \in pending' \/ active'[a] # None
            \/ \E g \in Handlers : pc'[g] = Broken /\ addr'[g] = a
      BY <2>2, <3>1, <3>3, <3>4, <3>5 DEF AddressesPartitioned
    <3>7. QED
      BY <2>2, <3>1, <3>2, <3>3, <3>6 DEF AddressesPartitioned
  <2>5. RegistryAgrees'
    <3>1. /\ pc[h] \in Registered /\ pc'[h] = Broken /\ pc'[h] \notin Registered
          /\ \A g \in Handlers \ {h} : pc'[g] = pc[g]
      BY <2>3 DEF Registered, Broken, ThreadTypes
    <3>2. /\ \A a \in Addresses, g \in Handlers : active'[a] = g => pc'[g] \in Registered /\ addr'[g] = a
          /\ \A g \in Handlers : pc'[g] \in Registered /\ addr'[g] \notin disputed' => active'[addr'[g]] = g
      BY <2>1, <2>2, <2>3, <3>1, LeavingKeeps
    <3>3. \A u \in Users : byUser'[u] = {g \in Handlers : pc'[g] \in Registered \cup {Broken} /\ user'[g] = u}
      BY <2>2, <2>3, <3>1 DEF RegistryAgrees
    <3>4. QED
      BY <3>2, <3>3 DEF RegistryAgrees
  <2>6. QED
    BY <2>4, <2>5 DEF PoolInv
<1>99. QED
  BY <1>1, <1>2, <1>3, <1>4, <1>5, <1>6, <1>7, <1>8, <1>9, <1>10, <1>11, <1>12, <1>13, <1>14, <1>15, <1>16, <1>17, <1>18, <1>19, <1>20, <1>21, <1>22, <1>23, <1>24, <1>25, <1>26, <1>27, <1>28, <1>29, <1>30, <1>31, <1>32, <1>33, <1>34, <1>35, <1>36, <1>37, <1>38, <1>39
  DEF Next, HandlerStep, ClientStep, GatewayStep, PanelStep, OperatorStep

-----------------------------------------------------------------------------
\* A server that starts, with a table of its own or the one an earlier process left.

Fresh ==
    /\ free \in Shuffles /\ pending = {} /\ disputed = {}
    /\ active = [a \in Addresses |-> None] /\ byUser = [u \in Users |-> {}]
    /\ pc = [h \in Handlers |-> "closed"]

LEMMA FreshList ==
    ASSUME NEW list \in Shuffles
    PROVE  /\ list \in Seq(Addresses)
           /\ \A a \in Addresses : \E i \in DOMAIN list : list[i] = a
           /\ \A i, j \in DOMAIN list : list[i] = list[j] => i = j
<1>1. Cardinality(Addresses) \in Nat
  BY ServerConstants, FS_CardinalityType
<1>2. list \in [1 .. Cardinality(Addresses) -> Addresses]
  BY DEF Shuffles
<1>3. QED
  BY <1>1, <1>2 DEF Shuffles

LEMMA FreshPool == Fresh => PoolInv
<1> SUFFICES ASSUME Fresh PROVE PoolInv
  OBVIOUS
<1>1. AddressesPartitioned
  BY FreshList DEF Fresh, AddressesPartitioned, InFree
<1>2. RegistryAgrees
  BY ServerConstants DEF Fresh, RegistryAgrees, Registered, Broken
<1>3. QED
  BY <1>1, <1>2 DEF PoolInv

LEMMA InitInv == Init => IInv
<1> SUFFICES ASSUME Init PROVE IInv
  OBVIOUS
<1>1. PoolTypes
  BY FreshList DEF Init, PoolTypes
<1>2. accounts \in Tables /\ granted \in [Users -> Nat]
  <2>1. InitialAccounts \subseteq Account
    BY ServerConstants DEF InitialAccounts, Row, Account, AccountStatus
  <2>2. accounts \in Tables
    BY <2>1 DEF Init, Tables
  <2>3. \A u \in Users : accounts[u].quota \in Nat
    BY <2>2 DEF Tables, Account
  <2>4. QED
    BY <2>2, <2>3 DEF Init
<1>3. ThreadTypes /\ gateway \in GatewayStates /\ panel \in [Panels -> PanelStates]
  BY DEF Init, ThreadTypes, Places, GatewayStates, GatewayIdle, PanelStates, PanelIdle
<1>4. TypeOK
  BY <1>1, <1>2, <1>3 DEF Init, TypeOK
<1>5. LocalsOK
  BY DEF Init, LocalsOK, ThreadLocals, GatewayLocals, PanelLocals, GatewayIdle, PanelIdle, Claiming, Registered, Broken
<1>6. PoolInv
  BY FreshPool DEF Init, Fresh
<1>7. QED
  BY <1>4, <1>5, <1>6 DEF IInv, PoolInv

LEMMA RestartInv == IInv /\ Restart => IInv'
<1> SUFFICES ASSUME IInv, Restart PROVE IInv'
  OBVIOUS
<1>1. PoolTypes'
  BY FreshList DEF Restart, PoolTypes, IInv, TypeOK
<1>2. accounts' \in Tables
  BY DEF Restart, ResetAllConnections, IInv, TypeOK, Tables, Account
<1>3. ThreadTypes' /\ gateway' \in GatewayStates /\ panel' \in [Panels -> PanelStates]
  BY DEF Restart, ThreadTypes, Places, GatewayStates, GatewayIdle, PanelStates, PanelIdle
<1>4. TypeOK'
  BY <1>1, <1>2, <1>3 DEF Restart, TypeOK, IInv
<1>5. LocalsOK'
  BY DEF Restart, LocalsOK, ThreadLocals, GatewayLocals, PanelLocals, GatewayIdle, PanelIdle, Claiming, Registered, Broken
<1>6. Fresh'
  BY DEF Restart, Fresh, Shuffles
<1>7. PoolInv'
  BY <1>6, FreshPool, PTL
<1>8. QED
  BY <1>4, <1>5, <1>7 DEF IInv, PoolInv

LEMMA StutterKeeps == IInv /\ UNCHANGED vars => IInv'
BY DEF IInv, TypeOK, PoolTypes, ThreadTypes, LocalsOK, ThreadLocals, GatewayLocals, PanelLocals,
       AddressesPartitioned, InFree, RegistryAgrees, vars, pool, session, outside

\* The invariant holds in every reachable state of the server, across restarts of its
\* process and after threads that died.
THEOREM Invariant == SpecWithRestarts => []IInv
<1>1. Init => IInv
  BY InitInv
<1>2. IInv /\ [Next \/ Restart]_vars => IInv'
  BY CoreOfInv, TypeStep, LocalsStep, PoolStep, RestartInv, StutterKeeps DEF IInv, PoolInv
<1>3. QED
  BY <1>1, <1>2, PTL DEF SpecWithRestarts

\* Every variable has its type: in particular the final quota a thread persists is
\* an integer or None, and the table always holds natural quotas.
THEOREM TypeCorrect == SpecWithRestarts => []TypeOK
<1>1. IInv => TypeOK
  BY DEF IInv
<1>2. QED
  BY <1>1, Invariant, PTL

\* assign_ip, register_session and unregister_session keep the books of the pool for
\* any number of handler threads, any of which may announce any address and any of
\* which may die in unregister_session: no address is listed twice, an offered one is
\* nowhere else, only a disputed one is free and leased at once, and only a dead
\* thread's is nowhere.
THEOREM PartitionHolds == SpecWithRestarts => []AddressesPartitioned
<1>1. IInv => AddressesPartitioned
  BY DEF IInv
<1>2. QED
  BY <1>1, Invariant, PTL

\* The registry leads to live sessions only, misses none but those at a disputed
\* address, and lists under each account its live sessions and its dead threads.
THEOREM RegistryFaithful == SpecWithRestarts => []RegistryAgrees
<1>1. IInv => RegistryAgrees
  BY DEF IInv
<1>2. QED
  BY <1>1, Invariant, PTL

-----------------------------------------------------------------------------
\* The refinement.  A step changes the lease of at most one address, or is a restart.

\* What changes at one address only is a change of one lease.
LEMMA OneLease ==
    ASSUME NEW a \in Addresses,
           \A b \in Addresses \ {a} :
               /\ active'[b] = active[b] /\ (b \in pending' <=> b \in pending)
               /\ (b \in disputed' <=> b \in disputed) /\ (InFree(b)' <=> InFree(b))
    PROVE  lease' = [lease EXCEPT ![a] = lease'[a]]
<1>1. \A b \in Addresses \ {a} : lease'[b] = lease[b]
  BY DEF lease
<1>2. lease = [b \in Addresses |-> lease[b]] /\ lease' = [b \in Addresses |-> lease'[b]]
  BY DEF lease
<1>3. QED
  BY <1>1, <1>2

LEMMA LeaseOf ==
    ASSUME NEW a \in Addresses
    PROVE  /\ a \in disputed => lease[a] = "disputed"
           /\ a \notin disputed /\ active[a] # None => lease[a] = active[a]
           /\ a \notin disputed /\ active[a] = None /\ a \in pending => lease[a] = "offered"
           /\ a \notin disputed /\ active[a] = None /\ a \notin pending /\ InFree(a) => lease[a] = "free"
           /\ a \notin disputed /\ active[a] = None /\ a \notin pending /\ ~InFree(a) => lease[a] = "lost"
BY DEF lease

LEMMA LeaseStep == IInv /\ IInv' /\ Next => [Leases!LeaseNext]_lease
<1> SUFFICES ASSUME IInv, IInv', Next PROVE [Leases!LeaseNext]_lease
  OBVIOUS
<1> USE DEF IInv, TypeOK
<1>0. \A a \in Addresses :
        /\ a \in disputed' => lease'[a] = "disputed"
        /\ a \notin disputed' /\ active'[a] # None => lease'[a] = active'[a]
        /\ a \notin disputed' /\ active'[a] = None /\ a \in pending' => lease'[a] = "offered"
        /\ a \notin disputed' /\ active'[a] = None /\ a \notin pending' /\ InFree(a)' => lease'[a] = "free"
        /\ a \notin disputed' /\ active'[a] = None /\ a \notin pending' /\ ~InFree(a)' => lease'[a] = "lost"
  BY DEF lease
<1>1. ASSUME UNCHANGED pool PROVE lease' = lease
  BY <1>1 DEF lease, InFree, pool
<1>2. ASSUME NEW h \in Handlers, NEW delivered \in BOOLEAN, AssignIP(h, delivered)
      PROVE  [Leases!LeaseNext]_lease
  <2>1. PICK i \in DOMAIN free :
          /\ free[i] \notin pending /\ active[free[i]] = None
          /\ free' = Rotated(free, i)
          /\ pending' = pending \cup {free[i]} /\ active' = active /\ disputed' = disputed
    BY <1>2 DEF AssignIP, Rotated
  <2>2. PICK a : a = free[i]
    OBVIOUS
  <2>3. a \in Addresses /\ InFree(a)
    BY <2>2 DEF PoolTypes, InFree
  <2>4. \A b \in Addresses \ {a} : InFree(b)' <=> InFree(b)
    <3>1. PICK s, t : s = free /\ t = free'
      OBVIOUS
    <3>2. s \in Seq(Addresses) /\ i \in DOMAIN s /\ t = Rotated(s, i)
      BY <2>1, <3>1 DEF PoolTypes
    <3>3. \A e : e # s[i] => (Lists(t, e) <=> Lists(s, e))
      BY <3>2, RotatedMembers
    <3>4. QED
      BY <2>2, <3>1, <3>3 DEF InFree, Lists
  <2>5. lease' = [lease EXCEPT ![a] = lease'[a]]
    BY <2>1, <2>2, <2>3, <2>4, OneLease
  <2>6. CASE a \in disputed
    <3>1. lease'[a] = lease[a]
      BY <1>0, <2>1, <2>3, <2>6, LeaseOf
    <3>2. lease' = lease
      BY <2>5, <3>1 DEF lease
    <3>3. QED
      BY <3>2
  <2>7. CASE a \notin disputed
    <3>1. lease[a] = "free" /\ lease'[a] = "offered"
      BY <1>0, <2>1, <2>2, <2>3, <2>7, LeaseOf
    <3>2. Leases!Offer(a)
      BY <2>5, <3>1 DEF Leases!Offer, Leases!Becomes, Leases!Free, Leases!Offered
    <3>3. QED
      BY <2>3, <3>2 DEF Leases!LeaseNext
  <2>8. QED
    BY <2>6, <2>7
<1>3. ASSUME NEW h \in Handlers, RegisterSession(h) PROVE [Leases!LeaseNext]_lease
  <2>1. PICK a : a = addr[h]
    OBVIOUS
  <2>2. /\ pc[h] = "vacant" /\ pending' = pending \ {a} /\ free' = free
        /\ active' = [active EXCEPT ![a] = h]
        /\ disputed' = IF a \in pending THEN disputed ELSE disputed \cup {a}
    BY <1>3, <2>1 DEF RegisterSession
  <2>3. a \in Addresses
    BY <2>1, <2>2 DEF LocalsOK, ThreadLocals, Claiming
  <2>4. h # None /\ active'[a] = h /\ \A b \in Addresses \ {a} : active'[b] = active[b]
    BY <2>2, <2>3, ServerConstants DEF PoolTypes
  <2>5. lease' = [lease EXCEPT ![a] = lease'[a]]
    BY <2>2, <2>3, <2>4, OneLease DEF InFree
  <2>6. CASE a \in disputed
    <3>1. lease'[a] = lease[a]
      BY <1>0, <2>2, <2>3, <2>6, LeaseOf
    <3>2. lease' = lease
      BY <2>5, <3>1 DEF lease
    <3>3. QED
      BY <3>2
  <2>7. CASE a \notin disputed /\ a \in pending
    <3>1. active[a] = None
      BY <2>3, <2>7 DEF AddressesPartitioned
    <3>2. lease[a] = "offered" /\ lease'[a] = h
      BY <1>0, <2>2, <2>3, <2>4, <2>7, <3>1, LeaseOf
    <3>3. \A b \in Addresses : active[b] # h
      BY <2>2 DEF RegistryAgrees, Registered
    <3>4. \A b \in Addresses : lease[b] # h
      BY <3>3, ServerConstants DEF lease
    <3>5. Leases!Lease(a, h)
      BY <2>5, <3>2, <3>4 DEF Leases!Lease, Leases!Becomes, Leases!Offered
    <3>6. QED
      BY <2>3, <3>5 DEF Leases!LeaseNext
  <2>8. CASE a \notin disputed /\ a \notin pending
    <3>1. lease'[a] = "disputed"
      BY <1>0, <2>2, <2>3, <2>8
    <3>2. lease[a] \in Handlers \cup {"free", "lost"}
      BY <2>3, <2>8, LeaseOf DEF PoolTypes
    <3>3. Leases!Dispute(a)
      BY <2>5, <3>1, <3>2 DEF Leases!Dispute, Leases!Becomes, Leases!Free, Leases!Lost, Leases!Disputed
    <3>4. QED
      BY <2>3, <3>3 DEF Leases!LeaseNext
  <2>9. QED
    BY <2>6, <2>7, <2>8
<1>4. ASSUME NEW h \in Handlers, UnregisterSession(h) \/ UnregisterRaises(h)
      PROVE  [Leases!LeaseNext]_lease
  <2>1. PICK a : a = addr[h]
    OBVIOUS
  <2>2. /\ pc[h] = "unregister" /\ active' = [active EXCEPT ![a] = None] /\ disputed' = Settled(h)
    BY <1>4, <2>1 DEF UnregisterSession, UnregisterRaises
  <2>3. a \in Addresses /\ pc[h] \in Registered
    BY <2>1, <2>2 DEF LocalsOK, ThreadLocals, Registered
  <2>4. active'[a] = None /\ \A b \in Addresses \ {a} : active'[b] = active[b]
    BY <2>2, <2>3 DEF PoolTypes
  <2>5. \A b \in Addresses \ {a} : (b \in disputed' <=> b \in disputed)
    BY <2>1, <2>2 DEF Settled
  <2>6. /\ \A b \in Addresses \ {a} : (b \in pending' <=> b \in pending) /\ (InFree(b)' <=> InFree(b))
        /\ \/ a \notin pending' /\ InFree(a)'
           \/ (a \in pending' <=> a \in pending) /\ (InFree(a)' <=> InFree(a))
    <3>1. CASE UnregisterRaises(h)
      BY <3>1 DEF UnregisterRaises, InFree
    <3>2. CASE UnregisterSession(h)
      <4>1. /\ free' = IF InFree(a) THEN free ELSE Append(free, a)
            /\ pending' = pending \ {a}
        BY <2>1, <3>2 DEF UnregisterSession, InFree
      <4>2. \A b \in Addresses : InFree(b)' <=> (InFree(b) \/ b = a)
        <5>1. CASE InFree(a)
          BY <4>1, <5>1 DEF InFree
        <5>2. CASE ~InFree(a)
          <6>1. free' = Append(free, a) /\ free \in Seq(Addresses)
            BY <4>1, <5>2 DEF PoolTypes
          <6>2. PICK s, t : s = free /\ t = free'
            OBVIOUS
          <6>3. s \in Seq(Addresses) /\ t = Appended(s, a)
            BY <6>1, <6>2 DEF Appended
          <6>4. \A e : Lists(t, e) <=> (Lists(s, e) \/ e = a)
            BY <2>3, <6>3, AppendedMembers
          <6>5. QED
            BY <6>2, <6>4 DEF InFree, Lists
        <5>3. QED
          BY <5>1, <5>2
      <4>3. QED
        BY <2>3, <4>1, <4>2
    <3>3. QED
      BY <1>4, <3>1, <3>2
  <2>7. lease' = [lease EXCEPT ![a] = lease'[a]]
    BY <2>3, <2>4, <2>5, <2>6, OneLease
  <2>8. CASE a \in disputed'
    <3>1. a \in disputed
      BY <2>2, <2>8 DEF Settled
    <3>2. lease'[a] = lease[a]
      BY <1>0, <2>3, <2>8, <3>1, LeaseOf
    <3>3. lease' = lease
      BY <2>7, <3>2 DEF lease
    <3>4. QED
      BY <3>3
  <2>9. CASE a \notin disputed' /\ a \in disputed
    <3>1. lease[a] = "disputed" /\ lease'[a] \in {"free", "offered", "lost"}
      BY <1>0, <2>3, <2>4, <2>9, LeaseOf
    <3>2. Leases!Settle(a)
      BY <2>7, <3>1 DEF Leases!Settle, Leases!Becomes, Leases!Free, Leases!Offered, Leases!Lost, Leases!Disputed
    <3>3. QED
      BY <2>3, <3>2 DEF Leases!LeaseNext
  <2>10. CASE a \notin disputed
    <3>1. a \notin disputed'
      BY <2>2, <2>10 DEF Settled
    <3>2. active[a] = h
      BY <2>1, <2>3, <2>10 DEF RegistryAgrees
    <3>3. lease[a] \in Handlers
      BY <2>3, <2>10, <3>2, LeaseOf, ServerConstants
    <3>4. a \notin pending /\ ~InFree(a)
      BY <2>3, <2>10, <3>2, ServerConstants DEF AddressesPartitioned
    <3>5. lease'[a] \in {"free", "lost"}
      BY <1>0, <2>3, <2>4, <2>6, <3>1, <3>4
    <3>6. Leases!Release(a) \/ Leases!Lose(a)
      BY <2>7, <3>3, <3>5 DEF Leases!Release, Leases!Lose, Leases!Becomes, Leases!Free, Leases!Lost
    <3>7. QED
      BY <2>3, <3>6 DEF Leases!LeaseNext
  <2>11. QED
    BY <2>8, <2>9, <2>10
<1>5. ASSUME ~(\E h \in Handlers, delivered \in BOOLEAN : AssignIP(h, delivered)),
             ~(\E h \in Handlers : RegisterSession(h) \/ UnregisterSession(h) \/ UnregisterRaises(h))
      PROVE  UNCHANGED pool
  BY <1>5, ZenonT(60) DEF Next, HandlerStep, ClientStep, GatewayStep, PanelStep, OperatorStep, Enlist, FlagEmptyAccount, StopEarly, CheckVacant, ConnectAccount, LoadQuota, CheckQuota, CreditQuota, StopSession, FlagExhausted, ReadFinalQuota, DisconnectAccount, Accept, Hangup, DropEarly, ClientLeaves, Register, Authenticate, GraceGrant, RequestQuota, Announce, Data, GatewayLookup, GatewayCharge, GatewaySend, GatewayFlag, GatewayHalt, PanelSnapshot, PanelVisit, PanelBan, PanelUnban, PanelRegister, PanelAddQuota, ClientGivesUp, Shutdown
<1>6. QED
  BY <1>1, <1>2, <1>3, <1>4, <1>5

\* Every address is free again.
LEMMA FreshLease == Fresh => Leases!LeaseInit
<1> SUFFICES ASSUME Fresh PROVE Leases!LeaseInit
  OBVIOUS
<1>1. \A a \in Addresses : lease[a] = "free"
  BY FreshList DEF Fresh, lease, InFree
<1>2. QED
  BY <1>1 DEF Leases!LeaseInit, Leases!Free, lease

\* The server implements the abstract lease of AddressLease, whatever the clients
\* announce, whichever threads die, and across restarts: an address passes from one
\* session to another only through a release and an offer, unless it is disputed.
THEOREM Refinement == SpecWithRestarts => ImplementsLease
<1>1. Init => Leases!LeaseInit
  BY FreshLease DEF Init, Fresh
<1>2. IInv /\ IInv' /\ [Next \/ Restart]_vars => [Leases!LeaseNext]_lease
  <2>1. ASSUME UNCHANGED vars PROVE lease' = lease
    BY <2>1 DEF vars, pool, lease, InFree
  <2>2. ASSUME Restart PROVE Leases!LeaseNext
    <3>1. Fresh'
      BY <2>2 DEF Restart, Fresh, Shuffles
    <3>2. Leases!LeaseInit'
      BY <3>1, FreshLease, PTL
    <3>3. QED
      BY <3>2 DEF Leases!LeaseInit, Leases!LeaseNext, Leases!Reset
  <2>3. QED
    BY <2>1, <2>2, LeaseStep
<1>3. QED
  BY <1>1, <1>2, Invariant, PTL DEF ImplementsLease, Leases!LeaseSpec, SpecWithRestarts

=============================================================================
