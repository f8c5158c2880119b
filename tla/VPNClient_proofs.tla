--------------------------- MODULE VPNClient_proofs ---------------------------
(***************************************************************************)
(* Theorems about VPNClient for every number of tries, with their proofs.  *)
(***************************************************************************)
EXTENDS VPNClient, TLAPS

\* Places of the main thread and of a reconnect thread, and those both may be in.
Making == {"try", "dial", "auth", "getip", "tunnel", "create", "bypass", "redial", "reauth",
           "undo", "refused", "reset", "list", "send", "recv"}
Both == Making \cup {"idle", "join", "close", "keepalive", "exited"}
MainPlaces == Both \cup {"wait", "leave", "done"}
ReconnectPlaces == Both \cup {"stop", "gone"}

ThreadPlaces == {"unborn", "loop", "work", "ending", "dead"}
ActorStates == [pc : MainPlaces \cup ReconnectPlaces, attempt : 0..MaxRetries]
Objects == [step : 0..4, known : SUBSET Things, active : BOOLEAN]

\* In an attempt, and in it before its first thread is started.
InAttempt == (Making \ {"try"}) \cup {"keepalive"}
BeforeThreads == Making \ {"try", "recv"}

-----------------------------------------------------------------------------
\* What holds whatever meets what.

Types ==
    /\ TypeOK
    /\ actor[Nobody].pc \in MainPlaces
    /\ \A k \in Attempts : actor[k].pc \in ReconnectPlaces

\* The tries that are left and the attempts that were made are the budget: no two
\* actors are in the same attempt.
Numbers ==
    /\ \A a \in Actors : /\ actor[a].attempt + retries <= MaxRetries
                         /\ actor[a].pc \in InAttempt => actor[a].attempt # 0
    /\ \A a, b \in Actors : actor[a].attempt = actor[b].attempt => a = b \/ actor[a].attempt = 0
    /\ actor[Nobody].pc = "idle" => retries = MaxRetries

\* No thread is there before its actor starts it.
NotStarted ==
    /\ actor[Nobody].pc = "exited" \/ \A k \in Attempts : k + retries > MaxRetries =>
        \A kind \in Kinds : thread[<<k, kind>>] = "unborn"
    /\ \A a \in Actors :
        /\ actor[a].pc \in BeforeThreads =>
            \A kind \in Kinds : thread[<<actor[a].attempt, kind>>] = "unborn"
        /\ actor[a].pc = "recv" => thread[<<actor[a].attempt, "recv">>] = "unborn"

\* A reconnect thread is started by the receive thread that ends.
AskedFor == \A k \in Attempts :
    actor[k].pc # "idle" => thread[<<k, "recv">>] \in {"ending", "dead"}

Stepping == \A a \in Actors : actor[a].pc = "create" => object[actor[a].attempt].step \in 1..3

\* The end of the main program is the end of all.
Over == actor[Nobody].pc = "exited" =>
    (\A a \in Actors : actor[a].pc = "exited") /\ (\A t \in Threads : thread[t] = "dead")

Base == Types /\ Numbers /\ NotStarted /\ AskedFor /\ Stepping /\ Over

-----------------------------------------------------------------------------
\* What holds as long as disconnect() does not meet a reconnect.

\* An actor that may touch what the sessions share.
Busy(a) == actor[a].pc \notin {"idle", "gone", "wait", "keepalive", "exited"}

\* What a busy actor holds, at its place.
Holds(a) ==
    LET pc == actor[a].pc
        k == actor[a].attempt
    IN  /\ pc \in {"try", "dial", "auth", "getip", "tunnel", "done"} => sock = Nobody /\ tunnel = Nobody
        /\ pc \in {"create", "bypass", "redial", "reauth", "reset", "list", "send", "recv"} => tunnel = k
        /\ pc \in {"reauth", "reset", "list", "send", "recv"} => sock = k
        /\ pc \in {"send", "recv"} => listed = {k} \X Kinds
        /\ a # Nobody /\ pc \in {"stop", "join"} => requested
        /\ a = Nobody /\ pc \in Making \ {"send", "recv"} => ~stop

\* A busy actor is the only one.
OneBusy == \A a \in Actors : Busy(a) => Holds(a) /\ \A b \in Actors \ {a} : ~Busy(b)

\* Who may be busy while a thread of session k is at work: the actor that starts the
\* session, and those that wait for its end.
Beside(a, k) ==
    \/ actor[a].pc = "recv" /\ actor[a].attempt = k
    \/ a = Nobody /\ actor[a].pc \in {"leave", "join"}
    \/ a = k /\ actor[a].pc \in {"stop", "join"}

SessionWhole == \A t \in Threads : Working(t) =>
    /\ t \in listed /\ sock = t[1] /\ tunnel = t[1]
    /\ \A a \in Actors : Busy(a) => Beside(a, t[1])

\* Nothing is open when there is nothing for disconnect() to do, nor before connect().
NothingToDo ==
    /\ (stop /\ listed = {} /\ \A a \in Actors : Busy(a) => actor[a].pc = "leave") =>
        sock = Nobody /\ tunnel = Nobody
    /\ actor[Nobody].pc = "idle" => ~stop /\ sock = Nobody /\ tunnel = Nobody

\* Everything is torn down with the adapter, which comes first.
AdapterFirst ==
    /\ \A k \in Attempts : object[k].known # {} \/ object[k].active => "adapter" \in object[k].known
    /\ \A a \in Actors : actor[a].pc = "create" =>
        (object[actor[a].attempt].step > 1 => "adapter" \in object[actor[a].attempt].known)

\* What the client changed on the machine and nobody knows of.
Unaccounted == ((machine \ before) \cup (before \ machine)) \ astray

Recorded == Unaccounted \subseteq (IF tunnel = Nobody THEN {} ELSE object[tunnel].known)

\* A keepalive thread never gets to a `finally`: it has none.
Keepalives == \A t \in Threads : t[2] = "keepalive" => thread[t] \in {"unborn", "loop", "dead"}

Shared == OneBusy /\ SessionWhole /\ NothingToDo /\ Keepalives
OnRecord == AdapterFirst /\ Recorded

\* The inductive invariant.
IInv == Base /\ (overtaken \/ (Shared /\ OnRecord))

-----------------------------------------------------------------------------

Places(a) == IF a = Nobody THEN MainPlaces ELSE ReconnectPlaces

LEMMA WhoIsWho ==
    /\ MaxRetries \in Nat /\ MaxRetries # 0 /\ Nobody \in Actors /\ Nobody \notin Attempts
    /\ Attempts \subseteq Actors /\ Attempts = 1..MaxRetries /\ Actors = 0..MaxRetries
    /\ \A a \in Actors : a = Nobody \/ a \in Attempts
BY ClientConstants DEF Nobody, Actors, Attempts

\* The types, one variable at a time, in this state and in the next.
TypesParts ==
    /\ stop \in BOOLEAN /\ requested \in BOOLEAN /\ overtaken \in BOOLEAN
    /\ before \subseteq Own /\ astray \subseteq Things \cup Own
    /\ retries \in 0..MaxRetries /\ sock \in 0..MaxRetries /\ tunnel \in 0..MaxRetries
    /\ object \in [Attempts -> Objects]
    /\ machine \subseteq Things \cup Own
    /\ listed \subseteq Threads
    /\ thread \in [Threads -> ThreadPlaces]
    /\ actor \in [Actors -> ActorStates]
    /\ \A a \in Actors : actor[a].pc \in Places(a)

LEMMA TypesSplit == Types <=> TypesParts
<1>1. Len(CreateSteps) + 1 = 4
  BY DEF CreateSteps
<1>2. MainPlaces \cup ReconnectPlaces =
        {"idle", "wait", "leave", "stop", "join", "close", "done", "gone", "recv", "keepalive", "exited",
         "try", "dial", "auth", "getip", "tunnel", "create", "bypass", "redial", "reauth", "undo",
         "refused", "reset", "list", "send"}
  BY DEF MainPlaces, ReconnectPlaces, Both, Making
<1>3. (\A a \in Actors : actor[a].pc \in Places(a)) <=>
        actor[Nobody].pc \in MainPlaces /\ \A k \in Attempts : actor[k].pc \in ReconnectPlaces
  BY WhoIsWho DEF Places
<1>4. QED
  BY <1>1, <1>2, <1>3 DEF Types, TypesParts, TypeOK, Objects, ThreadPlaces, ActorStates

LEMMA TypesNext == Types' <=> TypesParts'
BY TypesSplit, PTL

LEMMA TypesAre ==
    ASSUME Types
    PROVE  /\ stop \in BOOLEAN /\ requested \in BOOLEAN /\ overtaken \in BOOLEAN
           /\ before \subseteq Own /\ astray \subseteq Things \cup Own
           /\ retries \in 0..MaxRetries /\ sock \in 0..MaxRetries /\ tunnel \in 0..MaxRetries
           /\ object \in [Attempts -> Objects]
           /\ machine \subseteq Things \cup Own
           /\ listed \subseteq Threads
           /\ thread \in [Threads -> ThreadPlaces]
           /\ actor \in [Actors -> ActorStates]
           /\ \A a \in Actors : actor[a].pc \in Places(a)
BY TypesSplit DEF TypesParts

\* An actor goes to a place, in the same attempt; the others stay where they are.
LEMMA Went ==
    ASSUME Types, NEW a \in Actors, NEW place \in Places(a), Goto(a, place)
    PROVE  /\ actor' \in [Actors -> ActorStates]
           /\ \A b \in Actors : actor'[b].pc \in Places(b)
           /\ actor'[a].pc = place /\ actor'[a].attempt = actor[a].attempt
           /\ \A b \in Actors \ {a} : actor'[b] = actor[b]
<1>1. actor \in [Actors -> ActorStates] /\ \A b \in Actors : actor[b].pc \in Places(b)
  BY TypesAre
<1>2. actor' = [actor EXCEPT ![a] = [actor[a] EXCEPT !.pc = place]]
  BY DEF Goto
<1>3. [actor[a] EXCEPT !.pc = place] \in ActorStates
  BY <1>1 DEF ActorStates, Places
<1>4. actor'[a].pc = place /\ actor'[a].attempt = actor[a].attempt
  BY <1>1, <1>2 DEF ActorStates
<1>5. QED
  BY <1>1, <1>2, <1>3, <1>4

\* What Raised leads to, and the tables of Close and StartThread.
LEMMA PlacesFit ==
    ASSUME NEW a \in Actors
    PROVE  /\ Making \cup {"join", "close", "keepalive"} \subseteq Places(a)
           /\ Raised(a) \in Places(a) /\ Raised(a) \in {"leave", "gone"}
           /\ DOMAIN AfterClose(a) = {"undo", "refused", "close"}
           /\ AfterClose(a)["undo"] = "try" /\ AfterClose(a)["refused"] = Raised(a)
           /\ AfterClose(a)["close"] = IF a = Nobody THEN "done" ELSE "try"
           /\ AfterStart(a)["send"] = "recv" /\ AfterStart(a)["recv"] = "keepalive"
           /\ AfterStart(a)["keepalive"] = IF a = Nobody THEN "wait" ELSE "gone"
           /\ \A c \in {"undo", "refused", "close"} : AfterClose(a)[c] \in Places(a)
           /\ \A kind \in Kinds : AfterStart(a)[kind] \in Places(a)
<1>1. /\ DOMAIN AfterClose(a) = {"undo", "refused", "close"}
      /\ AfterClose(a)["undo"] = "try" /\ AfterClose(a)["refused"] = Raised(a)
      /\ AfterClose(a)["close"] = IF a = Nobody THEN "done" ELSE "try"
  BY DEF AfterClose
<1>2. /\ AfterStart(a)["send"] = "recv" /\ AfterStart(a)["recv"] = "keepalive"
      /\ AfterStart(a)["keepalive"] = IF a = Nobody THEN "wait" ELSE "gone"
  BY DEF AfterStart
<1>3. /\ Making \cup {"join", "close", "keepalive"} \subseteq Places(a)
      /\ Raised(a) \in Places(a) /\ Raised(a) \in {"leave", "gone"}
  BY DEF Places, MainPlaces, ReconnectPlaces, Both, Making, Raised
<1>4. \A c \in {"undo", "refused", "close"} : AfterClose(a)[c] \in Places(a)
  BY <1>1, <1>3 DEF Places, MainPlaces, ReconnectPlaces, Both, Making
<1>5. \A kind \in Kinds : AfterStart(a)[kind] \in Places(a)
  BY <1>2, <1>3 DEF Kinds, Places, MainPlaces, ReconnectPlaces, Both, Making
<1>6. QED
  BY <1>1, <1>2, <1>3, <1>4, <1>5

-----------------------------------------------------------------------------
\* Base: the actors that only go from one place to another.

\* Moving on in an attempt keeps who is in which, and which threads there are.
LEMMA MoveKeeps ==
    ASSUME Base, NEW a \in Actors, NEW place \in Places(a), Goto(a, place),
           UNCHANGED <<retries, thread>>,
           actor[a].pc \notin {"idle", "exited"}, place \notin {"idle", "exited", "recv"},
           place \in InAttempt => actor[a].pc \in InAttempt,
           place \in BeforeThreads => actor[a].pc \in BeforeThreads,
           place = "create" => object'[actor[a].attempt].step \in 1..3,
           \A k \in Attempts \ {actor[a].attempt} : object'[k].step = object[k].step
    PROVE  Numbers' /\ NotStarted' /\ AskedFor' /\ Stepping' /\ Over'
<1>1. /\ actor'[a].pc = place /\ actor'[a].attempt = actor[a].attempt
      /\ \A b \in Actors \ {a} : actor'[b] = actor[b]
  BY Went DEF Base
<1>2. \A b \in Actors : actor'[b].attempt = actor[b].attempt
  BY <1>1
<1>3. \A b \in Actors : actor'[b].pc = "idle" <=> actor[b].pc = "idle"
  BY <1>1
<1>4. actor'[Nobody].pc = "exited" <=> actor[Nobody].pc = "exited"
  BY <1>1, WhoIsWho
<1>5. Numbers'
  <2>1. \A b \in Actors : actor'[b].pc \in InAttempt => actor[b].pc \in InAttempt
    BY <1>1
  <2>2. QED
    BY <1>2, <1>3, <2>1, WhoIsWho DEF Base, Numbers
<1>6. NotStarted'
  <2>1. \A b \in Actors : /\ actor'[b].pc \in BeforeThreads => actor[b].pc \in BeforeThreads
                          /\ actor'[b].pc = "recv" => actor[b].pc = "recv"
    BY <1>1
  <2>2. QED
    BY <1>2, <1>4, <2>1 DEF Base, NotStarted
<1>7. AskedFor'
  BY <1>3, WhoIsWho DEF Base, AskedFor
<1>8. Stepping'
  <2> SUFFICES ASSUME NEW b \in Actors, actor'[b].pc = "create"
               PROVE  object'[actor'[b].attempt].step \in 1..3
    BY DEF Stepping
  <2>1. CASE b = a
    BY <1>1, <2>1
  <2>2. CASE b # a
    <3>1. actor[b].pc = "create" /\ actor[b].attempt # 0 /\ object[actor[b].attempt].step \in 1..3
      BY <1>1, <2>2 DEF Base, Stepping, Numbers, InAttempt, Making
    <3>2. actor[b].attempt # actor[a].attempt
      BY <2>2, <3>1 DEF Base, Numbers
    <3>3. actor[b].attempt \in Attempts
      <4>1. actor[b].attempt \in 0..MaxRetries
        BY TypesAre DEF Base, ActorStates
      <4>2. QED
        BY <3>1, <4>1, WhoIsWho
    <3>4. QED
      BY <1>2, <3>1, <3>2, <3>3
  <2>3. QED
    BY <2>1, <2>2
<1>9. Over'
  <2>1. actor'[Nobody].pc # "exited"
    BY <1>1, <1>4, WhoIsWho DEF Base, Over
  <2>2. QED
    BY <2>1 DEF Over
<1>10. QED
  BY <1>5, <1>6, <1>7, <1>8, <1>9

\* What closing a tunnel does to its object and to the machine.
LEMMA Torn ==
    ASSUME Types, NEW k \in Attempts, NEW unnoted \in SUBSET Things, NEW failing \in SUBSET Things,
           Teardown(k, unnoted, failing)
    PROVE  /\ object' \in [Attempts -> Objects]
           /\ object'[k].step = object[k].step /\ object'[k].known = {} /\ object'[k].active = FALSE
           /\ \A j \in Attempts \ {k} : object'[j] = object[j]
           /\ machine' = (machine \cup unnoted) \ Removed(object[k].known, failing)
           /\ machine' \subseteq Things \cup Own
           /\ astray' = astray \cup unnoted \cup failing \cup (before \cap Removed(object[k].known, failing))
           /\ before' = before /\ before' \subseteq Own /\ astray' \subseteq Things \cup Own
<1>1. /\ object \in [Attempts -> Objects] /\ machine \subseteq Things \cup Own
      /\ before \subseteq Own /\ astray \subseteq Things \cup Own
  BY TypesAre
<1> DEFINE o == [object[k] EXCEPT !.known = {}, !.active = FALSE]
<1>2. o \in Objects /\ o.step = object[k].step /\ o.known = {} /\ o.active = FALSE
  BY <1>1 DEF Objects
<1>3. object' = [object EXCEPT ![k] = o]
  BY DEF Teardown
<1> HIDE DEF o
<1>4. /\ object' \in [Attempts -> Objects] /\ object'[k] = o
      /\ \A j \in Attempts \ {k} : object'[j] = object[j]
  BY <1>1, <1>2, <1>3
<1>5. /\ machine' = (machine \cup unnoted) \ Removed(object[k].known, failing)
      /\ astray' = astray \cup unnoted \cup failing \cup (before \cap Removed(object[k].known, failing))
      /\ before' = before
  BY DEF Teardown, Strayed
<1>6. machine' \subseteq Things \cup Own /\ before' \subseteq Own /\ astray' \subseteq Things \cup Own
  BY <1>1, <1>5
<1>7. QED
  BY <1>2, <1>4, <1>5, <1>6

LEMMA Closed ==
    ASSUME Types, CloseTunnel
    PROVE  /\ object' \in [Attempts -> Objects] /\ machine' \subseteq Things \cup Own
           /\ before' \subseteq Own /\ astray' \subseteq Things \cup Own
           /\ \A k \in Attempts : object'[k].step = object[k].step
<1>1. CASE tunnel = Nobody
  BY <1>1, TypesAre DEF CloseTunnel
<1>2. CASE tunnel # Nobody
  <2>1. tunnel \in Attempts
    BY <1>2, TypesAre, WhoIsWho DEF Nobody
  <2>2. PICK failing \in SUBSET Things : Teardown(tunnel, {}, failing)
    BY <1>2 DEF CloseTunnel, Things
  <2>3. QED
    BY <2>1, <2>2, Torn
<1>3. QED
  BY <1>1, <1>2

\* What add_bypass does to the object and to the machine.
LEMMA Bypassed ==
    ASSUME Types, NEW k \in Attempts, NEW noted \in SUBSET {"bypass"}, Rerouted(k, noted)
    PROVE  /\ object' \in [Attempts -> Objects] /\ object[k].active
           /\ object'[k].step = object[k].step /\ object'[k].known = object[k].known \cup noted
           /\ \A j \in Attempts \ {k} : object'[j] = object[j]
           /\ before' = before
           /\ \E removed \in SUBSET ToServer, added \in SUBSET {"bypass"} :
                /\ machine' = (machine \ removed) \cup added
                /\ astray' = astray \cup (added \ noted) \cup (before \cap removed)
           /\ machine' \subseteq Things \cup Own
           /\ before' \subseteq Own /\ astray' \subseteq Things \cup Own
<1>1. /\ object \in [Attempts -> Objects] /\ machine \subseteq Things \cup Own
      /\ before \subseteq Own /\ astray \subseteq Things \cup Own
  BY TypesAre
<1> DEFINE o == [object[k] EXCEPT !.known = @ \cup noted]
<1>2. o \in Objects /\ o.step = object[k].step /\ o.known = object[k].known \cup noted
  <2>1. object[k] \in Objects /\ noted \subseteq Things
    BY <1>1 DEF Things, Elsewhere
  <2>2. QED
    BY <2>1 DEF Objects
<1>3. object' = [object EXCEPT ![k] = o]
  BY DEF Rerouted
<1> HIDE DEF o
<1>4. /\ object' \in [Attempts -> Objects] /\ object'[k] = o
      /\ \A j \in Attempts \ {k} : object'[j] = object[j]
  BY <1>1, <1>2, <1>3
<1>5. before' = before /\ object[k].active
  BY DEF Rerouted
<1>6. PICK removed \in SUBSET ToServer, added \in SUBSET {"bypass"} :
        /\ machine' = (machine \ removed) \cup added
        /\ astray' = astray \cup (added \ noted) \cup (before \cap removed)
  BY DEF Rerouted, Strayed
<1>7. machine' \subseteq Things \cup Own /\ before' \subseteq Own /\ astray' \subseteq Things \cup Own
  BY <1>1, <1>5, <1>6 DEF Things, Elsewhere
<1>8. QED
  BY <1>2, <1>4, <1>5, <1>6, <1>7

\* The attempt an actor is in.
LEMMA AttemptOf ==
    ASSUME Base, NEW a \in Actors
    PROVE  /\ actor[a].attempt \in 0..MaxRetries
           /\ actor[a].pc \in InAttempt => actor[a].attempt \in Attempts
           /\ actor[a].pc \in Places(a)
<1>1. actor[a].attempt \in 0..MaxRetries /\ actor[a].pc \in Places(a)
  BY TypesAre DEF Base, ActorStates
<1>2. actor[a].pc \in InAttempt => actor[a].attempt # 0
  BY DEF Base, Numbers
<1>3. QED
  BY <1>1, <1>2, WhoIsWho

\* The steps of an actor that only make it go on to another place.
LEMMA BaseMoves ==
    ASSUME Base, NEW a \in Actors,
           \/ Dial(a) \/ Handshake(a) \/ OpenData(a) \/ Announce(a) \/ Reset(a) \/ ListThreads(a)
           \/ StopForReconnect(a) \/ Join(a)
           \/ (a = Nobody /\ (Leave \/ Disconnect))
    PROVE  Base'
<1> USE DEF Making, InAttempt, BeforeThreads
<1>0. Types
  BY DEF Base
<1>1. UNCHANGED <<retries, object, machine, before, astray, thread>>
  BY DEF Dial, Handshake, OpenData, Announce, Reset, ListThreads, StopForReconnect, Join, Leave,
         Disconnect, network, events
<1>2. PICK place \in Places(a) :
        /\ Goto(a, place)
        /\ actor[a].pc \notin {"idle", "exited"} /\ place \notin {"idle", "exited", "recv", "create"}
        /\ place \in InAttempt => actor[a].pc \in InAttempt
        /\ place \in BeforeThreads => actor[a].pc \in BeforeThreads
  <2>1. CASE Dial(a)
    BY <2>1, PlacesFit DEF Dial, At
  <2>2. CASE Handshake(a)
    BY <2>2, PlacesFit DEF Handshake, At
  <2>3. CASE OpenData(a)
    BY <2>3, PlacesFit DEF OpenData, At
  <2>4. CASE Announce(a)
    BY <2>4, PlacesFit DEF Announce, At
  <2>5. CASE Reset(a)
    BY <2>5, PlacesFit DEF Reset, At
  <2>6. CASE ListThreads(a)
    BY <2>6, PlacesFit DEF ListThreads, At
  <2>7. CASE StopForReconnect(a)
    BY <2>7, PlacesFit DEF StopForReconnect, At
  <2>8. CASE Join(a)
    BY <2>8, PlacesFit DEF Join, At
  <2>9. CASE a = Nobody /\ Leave
    <3>1. "leave" \in Places(a) /\ Goto(a, "leave") /\ actor[a].pc \notin {"idle", "exited"}
      BY <2>9 DEF Leave, At, Interruptible, Places, MainPlaces
    <3>2. QED
      BY <3>1
  <2>10. CASE a = Nobody /\ Disconnect
    <3>1. "done" \in Places(a) /\ "join" \in Places(a) /\ actor[a].pc = "leave"
      BY <2>10 DEF Disconnect, At, Places, MainPlaces, Both
    <3>2. Goto(a, "done") \/ Goto(a, "join")
      BY <2>10 DEF Disconnect
    <3>3. QED
      BY <3>1, <3>2
  <2>11. QED
    BY <2>1, <2>2, <2>3, <2>4, <2>5, <2>6, <2>7, <2>8, <2>9, <2>10
<1>3. Numbers' /\ NotStarted' /\ AskedFor' /\ Stepping' /\ Over'
  BY <1>1, <1>2, MoveKeeps
<1>4. stop' \in BOOLEAN /\ requested' \in BOOLEAN /\ overtaken' \in BOOLEAN
  BY <1>0, TypesAre DEF Dial, Handshake, OpenData, Announce, Reset, ListThreads, StopForReconnect, Join,
         Leave, Disconnect, network, events
<1>5. sock' \in 0..MaxRetries /\ tunnel' \in 0..MaxRetries
  BY <1>0, TypesAre, AttemptOf DEF Dial, Handshake, OpenData, Announce, Reset, ListThreads, StopForReconnect,
         Join, Leave, Disconnect, network, events
<1>6. listed' \subseteq Threads
  <2>1. CASE ListThreads(a)
    <3>1. listed' = {actor[a].attempt} \X Kinds /\ actor[a].attempt \in Attempts
      BY <2>1, AttemptOf DEF ListThreads, At
    <3>2. QED
      BY <3>1 DEF Threads
  <2>2. CASE ~ListThreads(a)
    <3>1. listed' = listed \/ listed' = {}
      BY <2>2 DEF Dial, Handshake, OpenData, Announce, Reset, StopForReconnect, Join, Leave, Disconnect
    <3>2. QED
      BY <1>0, <3>1, TypesAre
  <2>3. QED
    BY <2>1, <2>2
<1>7. actor' \in [Actors -> ActorStates] /\ \A b \in Actors : actor'[b].pc \in Places(b)
  BY <1>0, <1>2, Went
<1>8. Types'
  <2>1. /\ stop' \in BOOLEAN /\ requested' \in BOOLEAN /\ overtaken' \in BOOLEAN
        /\ before' \subseteq Own /\ astray' \subseteq Things \cup Own
        /\ retries' \in 0..MaxRetries /\ sock' \in 0..MaxRetries /\ tunnel' \in 0..MaxRetries
        /\ object' \in [Attempts -> Objects]
        /\ machine' \subseteq Things \cup Own
        /\ listed' \subseteq Threads
        /\ thread' \in [Threads -> ThreadPlaces]
    BY <1>0, <1>1, <1>4, <1>5, <1>6, TypesAre
  <2>2. QED
    BY <1>7, <2>1, TypesNext DEF TypesParts, Places
<1>9. QED
  BY <1>3, <1>8 DEF Base

\* A new Tunnel object, its creation and the bypass route.
LEMMA BaseTunnel ==
    ASSUME Base, NEW a \in Actors,
           NewTunnel(a) \/ CreateStep(a) \/ CreateFails(a) \/ AddBypass(a) \/ Close(a)
    PROVE  Base'
<1> USE DEF Making, InAttempt, BeforeThreads
<1> DEFINE k == actor[a].attempt
<1>0. /\ Types /\ object \in [Attempts -> Objects] /\ machine \subseteq Things \cup Own
      /\ before \subseteq Own /\ astray \subseteq Things \cup Own
  BY TypesAre DEF Base
<1>1. UNCHANGED <<stop, requested, overtaken, retries, thread, listed>>
  BY DEF NewTunnel, CreateStep, CreateFails, AddBypass, Close, events
<1>2. Close(a) \/ k \in Attempts
  BY AttemptOf DEF NewTunnel, CreateStep, CreateFails, AddBypass, At
<1>3. sock' \in 0..MaxRetries /\ tunnel' \in 0..MaxRetries
  <2>1. sock \in 0..MaxRetries /\ tunnel \in 0..MaxRetries /\ k \in 0..MaxRetries /\ Nobody \in 0..MaxRetries
    BY <1>0, TypesAre, AttemptOf, WhoIsWho DEF Actors
  <2>2. sock' \in {sock, Nobody} /\ tunnel' \in {tunnel, k, Nobody}
    BY DEF NewTunnel, CreateStep, CreateFails, AddBypass, Close
  <2>3. QED
    BY <2>1, <2>2
<1> DEFINE Done(place) ==
        /\ place \in Places(a) /\ Goto(a, place)
        /\ actor[a].pc \notin {"idle", "exited"} /\ place \notin {"idle", "exited", "recv"}
        /\ place \in InAttempt => actor[a].pc \in InAttempt
        /\ place \in BeforeThreads => actor[a].pc \in BeforeThreads
        /\ place = "create" => object'[k].step \in 1..3
        /\ \A j \in Attempts \ {k} : object'[j].step = object[j].step
        /\ object' \in [Attempts -> Objects] /\ machine' \subseteq Things \cup Own
        /\ before' \subseteq Own /\ astray' \subseteq Things \cup Own
<1>4. ASSUME NewTunnel(a) PROVE \E place : Done(place)
  <2> DEFINE o == [NoTunnelYet EXCEPT !.step = 1]
  <2>0. k \in Attempts
    BY <1>4, AttemptOf DEF NewTunnel, At
  <2>1. o \in Objects /\ o.step = 1
    <3>1. NoTunnelYet \in Objects
      BY DEF NoTunnelYet, Objects
    <3>2. QED
      BY <3>1 DEF Objects
  <2>2. object' = [object EXCEPT ![k] = o] /\ UNCHANGED <<machine, before, astray>> /\ Goto(a, "create") /\ actor[a].pc = "tunnel"
    BY <1>4 DEF NewTunnel, At
  <2> HIDE DEF o, k
  <2>3. object' \in [Attempts -> Objects] /\ object'[k].step = 1 /\ \A j \in Attempts \ {k} : object'[j].step = object[j].step
    BY <1>0, <2>0, <2>1, <2>2
  <2>4. Done("create")
    BY <1>0, <2>2, <2>3, PlacesFit
  <2>5. QED
    BY <2>4
<1>5. ASSUME CreateStep(a) PROVE \E place : Done(place)
  <2> DEFINE i == object[k].step
             made == Made(machine, CreateSteps[i])
  <2>1. k \in Attempts /\ i \in 1..3 /\ actor[a].pc = "create"
    BY <1>5, AttemptOf DEF CreateStep, At, Base, Stepping
  <2>2. made \subseteq Things
    BY <2>1 DEF Made, CreateSteps, Things, OnAdapter, Elsewhere
  <2>3. PICK last \in BOOLEAN : /\ object' = [object EXCEPT ![k].known = @ \cup made, ![k].step = @ + 1, ![k].active = last]
                                /\ machine' = machine \cup made /\ UNCHANGED <<before, astray>>
    BY <1>5 DEF CreateStep
  <2> DEFINE o == [object[k] EXCEPT !.known = @ \cup made, !.step = @ + 1, !.active = last]
  <2>4. Len(CreateSteps) = 3
    BY DEF CreateSteps
  <2>5. object[k] \in Objects
    BY <1>0, <2>1
  <2> HIDE DEF made
  <2>6. o \in Objects /\ o.step = i + 1
    <3>1. i + 1 \in 0..4 /\ object[k].known \cup made \in SUBSET Things
      BY <2>1, <2>2, <2>5 DEF Objects
    <3>2. QED
      BY <2>5, <3>1 DEF Objects
  <2>65. object' = [object EXCEPT ![k] = o]
    BY <2>3
  <2> HIDE DEF o
  <2>7. object' \in [Attempts -> Objects] /\ object'[k].step = i + 1 /\ \A j \in Attempts \ {k} : object'[j].step = object[j].step
    BY <1>0, <2>1, <2>65, <2>6
  <2>8. Goto(a, IF i = 3 THEN "bypass" ELSE "create")
    BY <1>5, <2>4 DEF CreateStep
  <2>9. machine' \subseteq Things \cup Own /\ before' \subseteq Own /\ astray' \subseteq Things \cup Own
    BY <1>0, <2>2, <2>3
  <2>10. CASE i = 3
    <3>1. Done("bypass")
      BY <2>1, <2>7, <2>8, <2>9, <2>10, PlacesFit
    <3>2. QED
      BY <3>1
  <2>11. CASE i # 3
    <3>1. i + 1 \in 1..3
      BY <2>1, <2>11
    <3>2. Done("create")
      BY <2>1, <2>7, <2>8, <2>9, <2>11, <3>1, PlacesFit
    <3>3. QED
      BY <3>2
  <2>12. QED
    BY <2>10, <2>11
<1>6. ASSUME CreateFails(a) PROVE \E place : Done(place)
  <2>1. k \in Attempts /\ actor[a].pc = "create" /\ object[k].step \in 1..3 /\ Goto(a, "undo")
    BY <1>6, AttemptOf DEF CreateFails, At, Base, Stepping
  <2> DEFINE made == Made(machine, CreateSteps[object[k].step])
  <2>2. made \subseteq Things
    BY <2>1 DEF Made, CreateSteps, Things, OnAdapter, Elsewhere
  <2> HIDE DEF made
  <2>3. PICK unnoted \in SUBSET Things, failing \in SUBSET Things : Teardown(k, unnoted, failing)
    BY <1>6, <2>2 DEF CreateFails, made, Things
  <2>35. /\ object' \in [Attempts -> Objects] /\ (\A j \in Attempts \ {k} : object'[j].step = object[j].step)
         /\ machine' \subseteq Things \cup Own /\ before' \subseteq Own /\ astray' \subseteq Things \cup Own
    BY <1>0, <2>1, <2>3, Torn
  <2>4. Done("undo")
    BY <2>1, <2>35, PlacesFit
  <2>5. QED
    BY <2>4
<1>7. ASSUME AddBypass(a) PROVE \E place : Done(place)
  <2>1. k \in Attempts /\ actor[a].pc = "bypass" /\ Goto(a, "redial")
    BY <1>7, AttemptOf DEF AddBypass, At
  <2>2. /\ object' \in [Attempts -> Objects] /\ (\A j \in Attempts : object'[j].step = object[j].step)
        /\ machine' \subseteq Things \cup Own /\ before' \subseteq Own /\ astray' \subseteq Things \cup Own
    <3>1. CASE UNCHANGED <<machine, object, before, astray>>
      BY <1>0, <3>1
    <3>2. ASSUME NEW noted \in SUBSET {"bypass"}, Rerouted(k, noted)
          PROVE  /\ object' \in [Attempts -> Objects] /\ (\A j \in Attempts : object'[j].step = object[j].step)
                 /\ machine' \subseteq Things \cup Own /\ before' \subseteq Own /\ astray' \subseteq Things \cup Own
      BY <1>0, <2>1, <3>2, Bypassed
    <3>3. QED
      BY <1>7, <3>1, <3>2 DEF AddBypass
  <2>4. Done("redial")
    BY <2>1, <2>2, PlacesFit
  <2>5. QED
    BY <2>4
<1>8. ASSUME Close(a) PROVE \E place : Done(place)
  <2>1. actor[a].pc \in {"undo", "refused", "close"} /\ Goto(a, AfterClose(a)[actor[a].pc]) /\ CloseTunnel
    BY <1>8, PlacesFit DEF Close
  <2>2. PICK place \in Places(a) : Goto(a, place) /\ place \in {"try", "leave", "gone", "done"}
    BY <2>1, PlacesFit
  <2>3. /\ object' \in [Attempts -> Objects] /\ (\A j \in Attempts : object'[j].step = object[j].step)
        /\ machine' \subseteq Things \cup Own /\ before' \subseteq Own /\ astray' \subseteq Things \cup Own
    BY <1>0, <2>1, Closed
  <2>4. Done(place)
    BY <2>1, <2>2, <2>3
  <2>5. QED
    BY <2>4
<1>9. PICK place : Done(place)
  BY <1>4, <1>5, <1>6, <1>7, <1>8
<1>10. Numbers' /\ NotStarted' /\ AskedFor' /\ Stepping' /\ Over'
  BY <1>1, <1>9, MoveKeeps
<1>11. actor' \in [Actors -> ActorStates] /\ \A b \in Actors : actor'[b].pc \in Places(b)
  BY <1>0, <1>9, Went
<1>12. Types'
  <2>1. stop \in BOOLEAN /\ requested \in BOOLEAN /\ overtaken \in BOOLEAN
        /\ retries \in 0..MaxRetries /\ listed \subseteq Threads /\ thread \in [Threads -> ThreadPlaces]
    BY <1>0, TypesAre
  <2>2. QED
    BY <1>1, <1>3, <1>9, <1>11, <2>1, TypesNext DEF TypesParts, Places
<1>13. QED
  BY <1>10, <1>12 DEF Base

\* connect(), and one more try: the number of the attempt is new.
LEMMA BaseTry ==
    ASSUME Base, NEW a \in Actors, Try(a) \/ (a = Nobody /\ Connect)
    PROVE  Base'
<1> USE DEF Making, InAttempt, BeforeThreads
<1>0. /\ Types /\ retries \in 0..MaxRetries /\ MaxRetries \in Nat /\ actor \in [Actors -> ActorStates]
      /\ \A b \in Actors : actor[b].attempt \in 0..MaxRetries /\ actor[b].pc \in Places(b)
  BY TypesAre, AttemptOf, WhoIsWho DEF Base
<1>1. UNCHANGED <<stop, requested, sock, tunnel, object, machine, before, astray, listed, thread, overtaken>>
  BY DEF Try, Connect, network, events
\* What follows from where the actor is and in which attempt.
<1>2. ASSUME actor' \in [Actors -> ActorStates], actor'[a].pc \in Places(a),
             \A b \in Actors \ {a} : actor'[b] = actor[b],
             retries' \in 0..MaxRetries
      PROVE  Types'
  <2>1. \A b \in Actors : actor'[b].pc \in Places(b)
    BY <1>0, <1>2
  <2>2. TypesParts
    BY <1>0, TypesSplit
  <2>3. QED
    BY <1>1, <1>2, <2>1, <2>2, TypesNext DEF TypesParts, Places
<1>3. CASE a = Nobody /\ Connect
  <2>1. Goto(a, "try") /\ actor[a].pc = "idle" /\ retries = MaxRetries /\ retries' = MaxRetries
    BY <1>3, WhoIsWho DEF Connect, At, Base, Numbers
  <2>2. "try" \in Places(a)
    BY PlacesFit
  <2>3. /\ actor' \in [Actors -> ActorStates]
        /\ actor'[a].pc = "try" /\ actor'[a].attempt = actor[a].attempt
        /\ \A b \in Actors \ {a} : actor'[b] = actor[b]
    BY <1>0, <2>1, <2>2, Went
  <2>4. \A b \in Actors : /\ actor'[b].attempt = actor[b].attempt
                          /\ actor'[b].pc \in InAttempt => actor[b].pc \in InAttempt
                          /\ actor'[b].pc \in BeforeThreads => actor[b].pc \in BeforeThreads
                          /\ actor'[b].pc \in {"create", "recv"} => actor'[b].pc = actor[b].pc
    BY <2>3
  <2>5. Numbers'
    BY <2>1, <2>4, <2>3, <1>3 DEF Base, Numbers
  <2>6. NotStarted'
    <3>1. actor'[Nobody].pc # "exited" /\ actor[Nobody].pc # "exited"
      BY <1>3, <2>1, <2>3
    <3>2. QED
      BY <1>1, <2>1, <2>4, <3>1 DEF Base, NotStarted
  <2>7. AskedFor'
    <3>1. \A j \in Attempts : actor'[j] = actor[j]
      BY <1>3, <2>3, WhoIsWho
    <3>2. QED
      BY <1>1, <3>1 DEF Base, AskedFor
  <2>8. Stepping'
    BY <1>1, <2>4 DEF Base, Stepping
  <2>9. Over'
    BY <1>3, <2>3 DEF Over
  <2>10. QED
    BY <1>0, <1>2, <2>1, <2>2, <2>3, <2>5, <2>6, <2>7, <2>8, <2>9 DEF Base
<1>4. CASE Try(a) /\ retries > 0
  <2> DEFINE k == MaxRetries - retries + 1
  <2>1. actor[a].pc = "try" /\ retries' = retries - 1 /\ actor' = [actor EXCEPT ![a] = [pc |-> "dial", attempt |-> k]]
    BY <1>4 DEF Try, At
  <2>2. k \in Attempts /\ k \in 0..MaxRetries /\ k + retries > MaxRetries /\ k + retries' <= MaxRetries /\ retries' \in 0..MaxRetries
    BY <1>0, <1>4, <2>1, WhoIsWho
  <2>3. "dial" \in Places(a) /\ [pc |-> "dial", attempt |-> k] \in ActorStates
    BY <2>2, PlacesFit DEF ActorStates, MainPlaces, Both
  <2>4. /\ actor' \in [Actors -> ActorStates] /\ actor'[a].pc = "dial" /\ actor'[a].attempt = k
        /\ \A b \in Actors \ {a} : actor'[b] = actor[b]
    BY <1>0, <2>1, <2>3
  <2>5. \A b \in Actors : actor[b].attempt + retries <= MaxRetries /\ actor[b].attempt # k
    BY <1>0, <2>2 DEF Base, Numbers
  <2>6. \A b \in Actors : actor[b].attempt + retries' <= MaxRetries
    BY <1>0, <2>1, <2>5
  <2>7. actor'[Nobody].pc # "idle"
    <3>1. actor[Nobody].pc # "idle"
      <4>1. CASE a = Nobody
        BY <2>1, <4>1
      <4>2. CASE a # Nobody
        <5>1. a \in Attempts /\ thread[<<a, "recv">>] # "unborn" /\ "recv" \in Kinds
          BY <2>1, <4>2, WhoIsWho DEF Base, AskedFor, Kinds
        <5>2. ASSUME actor[Nobody].pc = "idle" PROVE FALSE
          <6>1. retries = MaxRetries /\ a + retries > MaxRetries
            BY <5>1, <5>2, WhoIsWho DEF Base, Numbers
          <6>2. QED
            BY <5>1, <5>2, <6>1 DEF Base, NotStarted
        <5>3. QED
          BY <5>2
      <4>3. QED
        BY <4>1, <4>2
    <3>2. QED
      BY <2>4, <3>1, WhoIsWho
  <2> HIDE DEF k
  <2>8. Numbers'
    <3>1. ASSUME NEW b \in Actors
          PROVE  /\ actor'[b].attempt + retries' <= MaxRetries
                 /\ actor'[b].pc \in InAttempt => actor'[b].attempt # 0
      <4>1. CASE b = a
        <5>1. k # 0
          BY <2>2, WhoIsWho
        <5>2. actor'[b].attempt = k
          BY <2>4, <4>1
        <5>3. QED
          BY <2>2, <5>1, <5>2
      <4>2. CASE b # a
        BY <2>4, <2>6, <4>2 DEF Base, Numbers
      <4>3. QED
        BY <4>1, <4>2
    <3>2. ASSUME NEW b \in Actors, NEW c \in Actors, actor'[b].attempt = actor'[c].attempt, b # c
          PROVE  actor'[b].attempt = 0
      <4>1. CASE b = a \/ c = a
        BY <2>4, <2>5, <3>2, <4>1
      <4>2. CASE b # a /\ c # a
        BY <2>4, <3>2, <4>2 DEF Base, Numbers
      <4>3. QED
        BY <4>1, <4>2
    <3>3. QED
      BY <2>7, <3>1, <3>2 DEF Numbers
  <2>9. NotStarted'
    <3>1. actor'[Nobody].pc = "exited" <=> actor[Nobody].pc = "exited"
      BY <2>1, <2>4, WhoIsWho
    <3>2. \A j \in Attempts : j + retries' > MaxRetries => j + retries > MaxRetries
      BY <1>0, <2>1, WhoIsWho
    <3>3. actor[Nobody].pc # "exited" => \A kind \in Kinds : thread[<<k, kind>>] = "unborn"
      BY <2>2 DEF Base, NotStarted
    <3>4. actor[Nobody].pc # "exited"
      BY <2>1, WhoIsWho DEF Base, Over
    <3>5. QED
      BY <1>1, <2>4, <3>1, <3>2, <3>3, <3>4 DEF Base, NotStarted
  <2>10. AskedFor'
    BY <1>1, <2>1, <2>4 DEF Base, AskedFor
  <2>11. Stepping'
    BY <1>1, <2>4 DEF Base, Stepping
  <2>12. Over'
    <3>1. actor'[Nobody].pc # "exited"
      BY <2>1, <2>4, WhoIsWho DEF Base, Over
    <3>2. QED
      BY <3>1 DEF Over
  <2>13. QED
    BY <1>0, <1>2, <2>2, <2>3, <2>4, <2>8, <2>9, <2>10, <2>11, <2>12 DEF Base
<1>5. CASE Try(a) /\ ~(retries > 0)
  <2>1. Goto(a, Raised(a)) /\ actor[a].pc = "try" /\ UNCHANGED retries
    BY <1>5 DEF Try, At
  <2>2. Raised(a) \in Places(a) /\ Raised(a) \in {"leave", "gone"}
    BY PlacesFit
  <2>3. Numbers' /\ NotStarted' /\ AskedFor' /\ Stepping' /\ Over'
    BY <1>1, <2>1, <2>2, MoveKeeps
  <2>4. QED
    BY <1>0, <1>2, <2>1, <2>2, <2>3, Went DEF Base
<1>6. QED
  BY <1>3, <1>4, <1>5

\* The start of a thread: of the receive thread before its reconnect thread.
LEMMA BaseStart ==
    ASSUME Base, NEW a \in Actors, StartThread(a)
    PROVE  Base'
<1> USE DEF Making, InAttempt, BeforeThreads
<1> DEFINE k == actor[a].attempt
           kind == actor[a].pc
           place == AfterStart(a)[actor[a].pc]
<1>0. Types /\ thread \in [Threads -> ThreadPlaces]
  BY TypesAre DEF Base
<1>1. /\ kind \in Kinds /\ Goto(a, place) /\ thread' = [thread EXCEPT ![<<k, kind>>] = "loop"]
      /\ UNCHANGED <<stop, requested, retries, sock, tunnel, object, machine, before, astray, listed, overtaken>>
  BY DEF StartThread, events, network
<1>2. kind \in {"send", "recv", "keepalive"} /\ k \in Attempts
  BY <1>1, AttemptOf DEF Kinds
<1>3. /\ place \in Places(a) /\ (kind = "send" => place = "recv")
      /\ (kind = "recv" => place = "keepalive") /\ (kind = "keepalive" => place \in {"wait", "gone"})
  BY <1>1, PlacesFit
<1>4. <<k, kind>> \in Threads
  BY <1>1, <1>2 DEF Threads
<1>5. /\ thread' \in [Threads -> ThreadPlaces] /\ thread'[<<k, kind>>] = "loop"
      /\ \A t \in Threads \ {<<k, kind>>} : thread'[t] = thread[t]
  BY <1>0, <1>1, <1>4 DEF ThreadPlaces
<1> HIDE DEF k, kind, place
<1>6. /\ actor' \in [Actors -> ActorStates] /\ \A b \in Actors : actor'[b].pc \in Places(b)
      /\ actor'[a].pc = place /\ actor'[a].attempt = k
      /\ \A b \in Actors \ {a} : actor'[b] = actor[b]
  BY <1>0, <1>1, <1>3, Went DEF k
<1>7. Types'
  <2>1. TypesParts
    BY <1>0, TypesSplit
  <2>2. QED
    BY <1>1, <1>5, <1>6, <2>1, TypesNext DEF TypesParts, Places
<1>8. \A b \in Actors \ {a} : actor[b].attempt # k
  <2>1. k # 0
    BY <1>2, WhoIsWho
  <2>2. QED
    BY <2>1 DEF Base, Numbers, k
<1>9. kind \notin {"idle", "exited"} /\ actor[a].pc = kind /\ actor[a].attempt = k /\ k + retries <= MaxRetries
  BY <1>2 DEF Base, Numbers, kind, k
<1>10. Numbers'
  <2>1. \A b \in Actors : /\ actor'[b].attempt = actor[b].attempt
                          /\ actor'[b].pc = "idle" => actor[b].pc = "idle"
    BY <1>3, <1>6, <1>9, <1>2
  <2>2. \A b \in Actors : actor'[b].pc \in InAttempt => actor'[b].attempt # 0
    BY <1>2, <1>6, WhoIsWho DEF Base, Numbers
  <2>3. QED
    BY <1>1, <2>1, <2>2, WhoIsWho DEF Base, Numbers
<1>11. NotStarted'
  <2>1. ASSUME NEW j \in Attempts, j + retries > MaxRetries, NEW x \in Kinds
        PROVE  thread'[<<j, x>>] = thread[<<j, x>>]
    <3>1. j # k
      <4>1. j = k => k + retries > MaxRetries
        BY <2>1
      <4>2. retries \in Nat /\ k \in Nat /\ MaxRetries \in Nat
        BY <1>0, <1>2, TypesAre, WhoIsWho
      <4>3. QED
        BY <1>9, <4>1, <4>2
    <3>2. QED
      BY <1>5, <3>1 DEF Threads
  <2>2. actor'[Nobody].pc = "exited" <=> actor[Nobody].pc = "exited"
    BY <1>2, <1>3, <1>6, <1>9, WhoIsWho
  <2>3. ASSUME NEW b \in Actors
        PROVE  /\ actor'[b].pc \in BeforeThreads =>
                    \A x \in Kinds : thread'[<<actor'[b].attempt, x>>] = "unborn"
               /\ actor'[b].pc = "recv" => thread'[<<actor'[b].attempt, "recv">>] = "unborn"
    <3>1. CASE b = a
      <4>1. actor'[b].pc \notin BeforeThreads /\ actor'[b].attempt = k
        BY <1>2, <1>3, <1>6, <3>1
      <4>2. ASSUME actor'[b].pc = "recv" PROVE thread'[<<k, "recv">>] = "unborn"
        <5>1. kind = "send"
          BY <1>2, <1>3, <1>6, <3>1, <4>2
        <5>2. thread[<<k, "recv">>] = "unborn" /\ <<k, "recv">> \in Threads
          BY <1>2, <1>9, <5>1 DEF Base, NotStarted, Kinds, Threads
        <5>3. QED
          BY <1>5, <5>1, <5>2
      <4>3. QED
        BY <4>1, <4>2
    <3>2. CASE b # a
      <4>1. actor'[b] = actor[b] /\ actor[b].attempt # k
        BY <1>6, <1>8, <3>2
      <4>2. actor[b].pc \in InAttempt => \A x \in Kinds : thread'[<<actor[b].attempt, x>>] = thread[<<actor[b].attempt, x>>]
        <5>1. actor[b].pc \in InAttempt => actor[b].attempt \in Attempts
          BY AttemptOf
        <5>2. QED
          BY <1>5, <4>1, <5>1 DEF Threads
      <4>3. QED
        BY <4>1, <4>2 DEF Base, NotStarted, Kinds
    <3>3. QED
      BY <3>1, <3>2
  <2>4. QED
    BY <1>1, <2>1, <2>2, <2>3 DEF Base, NotStarted
<1>12. AskedFor'
  <2> SUFFICES ASSUME NEW j \in Attempts, actor'[j].pc # "idle"
               PROVE  thread'[<<j, "recv">>] \in {"ending", "dead"}
    BY DEF AskedFor
  <2>1. actor[j].pc # "idle" /\ thread[<<j, "recv">>] \in {"ending", "dead"}
    BY <1>2, <1>6, <1>9, WhoIsWho DEF Base, AskedFor
  <2>2. <<j, "recv">> # <<k, kind>>
    BY <1>9, <2>1 DEF Base, NotStarted
  <2>3. <<j, "recv">> \in Threads
    BY DEF Threads, Kinds
  <2>4. QED
    BY <1>5, <2>1, <2>2, <2>3
<1>13. Stepping'
  BY <1>1, <1>2, <1>3, <1>6 DEF Base, Stepping
<1>14. Over'
  <2>1. actor'[Nobody].pc # "exited"
    BY <1>2, <1>3, <1>6, <1>9, WhoIsWho DEF Base, Over
  <2>2. QED
    BY <2>1 DEF Over
<1>15. QED
  BY <1>7, <1>10, <1>11, <1>12, <1>13, <1>14 DEF Base

\* The end of the main program.
LEMMA BaseExit == ASSUME Base, Exit PROVE Base'
<1>0. TypesParts
  BY TypesSplit DEF Base
<1>1. /\ actor' = [a \in Actors |-> [actor[a] EXCEPT !.pc = "exited"]]
      /\ thread' = [t \in Threads |-> "dead"]
      /\ sock' = Nobody /\ tunnel' = Nobody
      /\ object' = [k \in Attempts |-> NoTunnelYet]
      /\ machine' \subseteq machine
      /\ UNCHANGED <<stop, requested, retries, before, astray, listed, overtaken>>
  BY DEF Exit, WithoutProcess, events
<1>2. \A a \in Actors : /\ actor'[a] \in ActorStates
                        /\ actor'[a].pc = "exited" /\ actor'[a].attempt = actor[a].attempt
  BY <1>0, <1>1 DEF TypesParts, ActorStates, MainPlaces, Both
<1>3. Types'
  <2>1. NoTunnelYet \in Objects
    BY DEF NoTunnelYet, Objects
  <2>2. actor' \in [Actors -> ActorStates] /\ thread' \in [Threads -> ThreadPlaces] /\ object' \in [Attempts -> Objects]
    BY <1>1, <1>2, <2>1 DEF ThreadPlaces
  <2>3. \A a \in Actors : actor'[a].pc \in Places(a)
    BY <1>2 DEF Places, MainPlaces, ReconnectPlaces, Both
  <2>4. Nobody \in 0..MaxRetries
    BY WhoIsWho
  <2>5. QED
    BY <1>0, <1>1, <2>2, <2>3, <2>4, TypesNext DEF TypesParts, Places
<1>4. Numbers' /\ Over' /\ Stepping' /\ NotStarted'
  <2>1. actor'[Nobody].pc = "exited" /\ \A a \in Actors : actor'[a].pc \notin InAttempt \cup BeforeThreads \cup {"idle", "recv", "create"}
    BY <1>2, WhoIsWho DEF InAttempt, BeforeThreads, Making
  <2>2. Numbers'
    BY <1>1, <1>2, <2>1, SMTT(30) DEF Base, Numbers
  <2>3. Over'
    BY <1>1, <1>2 DEF Over
  <2>4. Stepping' /\ NotStarted'
    BY <2>1 DEF Stepping, NotStarted
  <2>5. QED
    BY <2>2, <2>3, <2>4
<1>5. AskedFor'
  <2>1. \A k \in Attempts : <<k, "recv">> \in Threads
    BY DEF Threads, Kinds
  <2>2. QED
    BY <1>1, <2>1 DEF AskedFor
<1>6. QED
  BY <1>3, <1>4, <1>5 DEF Base

\* A step of a thread, which does not unmake it; the actors stay where they are, but for
\* the one it starts.
LEMMA BaseThread ==
    ASSUME Base, NEW t \in Threads, thread[t] \in {"loop", "work", "ending"},
           NEW next \in {"loop", "work", "ending", "dead"},
           thread' = [thread EXCEPT ![t] = next],
           thread[t] = "ending" => next = "dead",
           UNCHANGED <<retries, sock, tunnel, object, machine, before, astray, listed>>,
           stop' \in BOOLEAN, requested' \in BOOLEAN, overtaken' \in BOOLEAN,
           \/ UNCHANGED actor
           \/ \E k \in Attempts : t = <<k, "recv">> /\ next = "ending" /\ Goto(k, "stop")
    PROVE  Base'
<1>0. Types /\ TypesParts
  BY TypesSplit DEF Base
<1>1. /\ thread' \in [Threads -> ThreadPlaces] /\ thread'[t] = next
      /\ \A u \in Threads \ {t} : thread'[u] = thread[u]
  BY <1>0 DEF TypesParts, ThreadPlaces
<1>2. actor[Nobody].pc # "exited"
  BY DEF Base, Over
<1>3. \A u \in Threads : thread[u] = "unborn" => thread'[u] = "unborn"
  BY <1>1
<1>4. \A u \in Threads : thread[u] \in {"ending", "dead"} => thread'[u] \in {"ending", "dead"}
  BY <1>1
<1>5. ASSUME UNCHANGED actor PROVE Base'
  <2>1. Types'
    BY <1>0, <1>1, <1>5, TypesNext DEF TypesParts, Places
  <2>2. Numbers' /\ Stepping' /\ Over'
    BY <1>2, <1>5 DEF Base, Numbers, Stepping, Over
  <2>3. NotStarted'
    <3>1. ASSUME NEW k \in Attempts, k + retries > MaxRetries, NEW kind \in Kinds
          PROVE  thread'[<<k, kind>>] = "unborn"
      BY <1>2, <1>3, <3>1 DEF Base, NotStarted, Threads
    <3>2. \A a \in Actors : /\ actor[a].pc \in BeforeThreads =>
                                \A kind \in Kinds : thread'[<<actor[a].attempt, kind>>] = "unborn"
                            /\ actor[a].pc = "recv" => thread'[<<actor[a].attempt, "recv">>] = "unborn"
      <4>1. \A a \in Actors : actor[a].pc \in BeforeThreads \cup {"recv"} => actor[a].attempt \in Attempts
        BY AttemptOf DEF InAttempt, BeforeThreads, Making
      <4>2. QED
        BY <1>3, <4>1 DEF Base, NotStarted, Threads, Kinds
    <3>3. QED
      BY <1>5, <3>1, <3>2 DEF NotStarted
  <2>4. AskedFor'
    <3>1. \A k \in Attempts : <<k, "recv">> \in Threads
      BY DEF Threads, Kinds
    <3>2. QED
      BY <1>4, <1>5, <3>1 DEF Base, AskedFor
  <2>5. QED
    BY <2>1, <2>2, <2>3, <2>4 DEF Base
<1>6. ASSUME NEW k \in Attempts, t = <<k, "recv">>, next = "ending", Goto(k, "stop") PROVE Base'
  <2>0. k \in Actors /\ k # Nobody /\ "stop" \in Places(k)
    BY WhoIsWho DEF Places, ReconnectPlaces
  <2>1. /\ actor' \in [Actors -> ActorStates] /\ \A b \in Actors : actor'[b].pc \in Places(b)
        /\ actor'[k].pc = "stop" /\ actor'[k].attempt = actor[k].attempt
        /\ \A b \in Actors \ {k} : actor'[b] = actor[b]
    BY <1>0, <1>6, <2>0, Went
  <2>2. Types'
    BY <1>0, <1>1, <2>1, TypesNext DEF TypesParts, Places
  <2>3. "stop" \notin InAttempt \cup BeforeThreads \cup {"recv", "create", "idle", "exited"}
    BY DEF InAttempt, BeforeThreads, Making
  <2>4. Numbers' /\ Stepping' /\ Over'
    <3>1. \A b \in Actors : actor'[b].attempt = actor[b].attempt
      BY <2>1
    <3>2. \A b \in Actors : actor'[b].pc \in InAttempt \cup {"create"} => actor'[b].pc = actor[b].pc
      BY <2>1, <2>3
    <3>3. actor'[Nobody] = actor[Nobody]
      BY <2>0, <2>1, WhoIsWho
    <3>4. Numbers'
      BY <3>1, <3>2, <3>3 DEF Base, Numbers
    <3>5. Stepping' /\ Over'
      BY <1>2, <3>1, <3>2, <3>3 DEF Base, Stepping, Over
    <3>6. QED
      BY <3>4, <3>5
  <2>5. NotStarted'
    <3>1. ASSUME NEW j \in Attempts, j + retries > MaxRetries, NEW kind \in Kinds
          PROVE  thread'[<<j, kind>>] = "unborn"
      BY <1>2, <1>3, <3>1 DEF Base, NotStarted, Threads
    <3>2. \A a \in Actors : /\ actor[a].pc \in BeforeThreads =>
                                \A kind \in Kinds : thread'[<<actor[a].attempt, kind>>] = "unborn"
                            /\ actor[a].pc = "recv" => thread'[<<actor[a].attempt, "recv">>] = "unborn"
      <4>1. \A a \in Actors : actor[a].pc \in BeforeThreads \cup {"recv"} => actor[a].attempt \in Attempts
        BY AttemptOf DEF InAttempt, BeforeThreads, Making
      <4>2. QED
        BY <1>3, <4>1 DEF Base, NotStarted, Threads, Kinds
    <3>3. \A b \in Actors : actor'[b].pc \in BeforeThreads \cup {"recv"} => actor'[b] = actor[b]
      BY <2>1, <2>3
    <3>4. QED
      BY <3>1, <3>2, <3>3 DEF NotStarted
  <2>6. AskedFor'
    <3>1. \A j \in Attempts : <<j, "recv">> \in Threads
      BY DEF Threads, Kinds
    <3>2. \A j \in Attempts \ {k} : actor'[j] = actor[j]
      BY <2>1, WhoIsWho
    <3>3. QED
      BY <1>1, <1>4, <1>6, <3>1, <3>2 DEF Base, AskedFor
  <2>7. QED
    BY <2>2, <2>4, <2>5, <2>6 DEF Base
<1>7. QED
  BY <1>5, <1>6

\* Ctrl-C in a command.
LEMMA UnnotedChanges ==
    ASSUME Base, LeaveUnnoted
    PROVE  /\ Goto(Nobody, "leave") /\ actor[Nobody].pc \in {"create", "bypass"}
           /\ UNCHANGED <<stop, requested, retries, sock, tunnel, listed, thread, before>>
           /\ overtaken' = (overtaken \/ Reconnecting)
           /\ object' \in [Attempts -> Objects]
           /\ \A k \in Attempts : /\ object'[k].step = object[k].step
                                  /\ object'[k].known = object[k].known
           /\ \A k \in Attempts : object'[k] = object[k] \/ object[k].active
           /\ \E removed \in SUBSET ToServer, added \in SUBSET Things :
                /\ machine' = (machine \ removed) \cup added
                /\ astray' = astray \cup added \cup (before \cap removed)
           /\ machine' \subseteq Things \cup Own
           /\ before' \subseteq Own /\ astray' \subseteq Things \cup Own
<1> DEFINE k == actor[Nobody].attempt
<1>0. /\ Types /\ object \in [Attempts -> Objects] /\ machine \subseteq Things \cup Own
      /\ before \subseteq Own /\ astray \subseteq Things \cup Own
  BY TypesAre DEF Base
<1>1. /\ Goto(Nobody, "leave") /\ actor[Nobody].pc \in {"create", "bypass"}
      /\ UNCHANGED <<stop, requested, retries, sock, tunnel, listed, thread>>
      /\ overtaken' = (overtaken \/ Reconnecting)
  BY DEF LeaveUnnoted, At, events
<1>2. k \in Attempts
  BY <1>1, WhoIsWho, AttemptOf DEF InAttempt, Making
<1>3. CASE actor[Nobody].pc = "create"
  <2> DEFINE made == Made(machine, CreateSteps[object[k].step]) \cap NotedLater
  <2>1. made \in SUBSET Things /\ {} \in SUBSET ToServer
    BY DEF NotedLater, Things, OnAdapter
  <2>2. machine' = machine \cup made /\ astray' = astray \cup made /\ UNCHANGED <<object, before>>
    BY <1>3 DEF LeaveUnnoted, At, Strayed
  <2> HIDE DEF made
  <2>3. machine' = (machine \ {}) \cup made /\ astray' = astray \cup made \cup (before \cap {})
    BY <2>2
  <2>4. \E removed \in SUBSET ToServer, added \in SUBSET Things :
           /\ machine' = (machine \ removed) \cup added
           /\ astray' = astray \cup added \cup (before \cap removed)
    BY <2>1, <2>3
  <2>5. QED
    BY <1>0, <1>1, <2>1, <2>2, <2>4
<1>4. CASE actor[Nobody].pc = "bypass"
  <2>1. Rerouted(k, {})
    BY <1>4 DEF LeaveUnnoted, At
  <2> HIDE DEF k
  <2>2. /\ object' \in [Attempts -> Objects] /\ object[k].active
        /\ object'[k].step = object[k].step /\ object'[k].known = object[k].known \cup {}
        /\ \A j \in Attempts \ {k} : object'[j] = object[j]
        /\ before' = before
        /\ \E removed \in SUBSET ToServer, added \in SUBSET {"bypass"} :
             /\ machine' = (machine \ removed) \cup added
             /\ astray' = astray \cup (added \ {}) \cup (before \cap removed)
        /\ machine' \subseteq Things \cup Own
        /\ before' \subseteq Own /\ astray' \subseteq Things \cup Own
    BY <1>0, <1>2, <2>1, Bypassed
  <2>3. \E removed \in SUBSET ToServer, added \in SUBSET Things :
           /\ machine' = (machine \ removed) \cup added
           /\ astray' = astray \cup added \cup (before \cap removed)
    <3>1. PICK removed \in SUBSET ToServer, added \in SUBSET {"bypass"} :
             /\ machine' = (machine \ removed) \cup added
             /\ astray' = astray \cup (added \ {}) \cup (before \cap removed)
      BY <2>2
    <3>2. added \in SUBSET Things /\ added \ {} = added
      BY DEF Things, Elsewhere
    <3>3. QED
      BY <3>1, <3>2
  <2>4. \A j \in Attempts : /\ object'[j].step = object[j].step /\ object'[j].known = object[j].known
                            /\ object'[j] = object[j] \/ object[j].active
    BY <2>2
  <2>5. QED
    BY <1>1, <2>2, <2>3, <2>4
<1>5. QED
  BY <1>1, <1>3, <1>4

LEMMA BaseUnnoted == ASSUME Base, LeaveUnnoted PROVE Base'
<1>0. Types /\ Nobody \in Actors
  BY WhoIsWho DEF Base
<1>1. /\ Goto(Nobody, "leave") /\ actor[Nobody].pc \in {"create", "bypass"}
      /\ UNCHANGED <<stop, requested, retries, sock, tunnel, listed, thread>>
      /\ overtaken' = (overtaken \/ Reconnecting)
      /\ object' \in [Attempts -> Objects] /\ \A k \in Attempts : object'[k].step = object[k].step
      /\ machine' \subseteq Things \cup Own
      /\ before' \subseteq Own /\ astray' \subseteq Things \cup Own
  BY UnnotedChanges
<1>2. "leave" \in Places(Nobody)
  BY DEF Places, MainPlaces
<1>3. Numbers' /\ NotStarted' /\ AskedFor' /\ Stepping' /\ Over'
  <2>1. "leave" \notin InAttempt \cup BeforeThreads
    BY DEF InAttempt, BeforeThreads, Making
  <2>2. QED
    BY <1>0, <1>1, <1>2, <2>1, MoveKeeps
<1>4. actor' \in [Actors -> ActorStates] /\ \A b \in Actors : actor'[b].pc \in Places(b)
  BY <1>0, <1>1, <1>2, Went
<1>5. Types'
  <2>1. /\ stop \in BOOLEAN /\ requested \in BOOLEAN /\ overtaken' \in BOOLEAN
        /\ retries \in 0..MaxRetries /\ sock \in 0..MaxRetries /\ tunnel \in 0..MaxRetries
        /\ listed \subseteq Threads /\ thread \in [Threads -> ThreadPlaces]
    BY <1>0, <1>1, TypesAre DEF Reconnecting
  <2>2. QED
    BY <1>1, <1>4, <2>1, TypesNext DEF TypesParts, Places
<1>6. QED
  BY <1>3, <1>5 DEF Base

LEMMA BaseStep == Base /\ [Next]_vars => Base'
<1> SUFFICES ASSUME Base, [Next]_vars PROVE Base'
  OBVIOUS
<1>0. TypesParts
  BY TypesSplit DEF Base
<1>1. ASSUME NEW a \in Actors, Establish(a) \/ Handshake(a) \/ Announce(a) \/ Join(a) PROVE Base'
  BY <1>1, BaseMoves, BaseTunnel, BaseTry, BaseStart DEF Establish
<1>2. CASE Connect \/ Leave \/ LeaveUnnoted \/ Disconnect \/ Exit
  BY <1>2, WhoIsWho, BaseMoves, BaseUnnoted, BaseTry, BaseExit
<1>3. ASSUME NEW t \in Threads, SessionStep(t) PROVE Base'
  <2>1. UNCHANGED <<retries, sock, tunnel, object, machine, before, astray, listed, requested, overtaken, actor>>
    BY <1>3 DEF SessionStep, Look, Work, KeepaliveEnds, Finally, events, network
  <2>2. stop' \in BOOLEAN /\ requested' \in BOOLEAN /\ overtaken' \in BOOLEAN
    BY <1>0, <1>3, <2>1 DEF TypesParts, SessionStep, Look, Work, KeepaliveEnds, Finally, events
  <2>3. \E next \in {"loop", "work", "ending", "dead"} :
          /\ thread' = [thread EXCEPT ![t] = next] /\ thread[t] \in {"loop", "work", "ending"}
          /\ thread[t] = "ending" => next = "dead"
    BY <1>3 DEF SessionStep, Look, Work, KeepaliveEnds, Finally
  <2>4. QED
    BY <2>1, <2>2, <2>3, BaseThread
<1>4. ASSUME NEW k \in Attempts, NewAddressWanted(k) PROVE Base'
  <2>1. <<k, "recv">> \in Threads
    BY DEF Threads, Kinds
  <2>2. UNCHANGED <<retries, sock, tunnel, object, machine, before, astray, listed, stop>> /\ requested' = TRUE
    BY <1>4 DEF NewAddressWanted, network
  <2>3. stop' \in BOOLEAN /\ overtaken' \in BOOLEAN
    BY <1>0, <1>4, <2>2 DEF TypesParts, NewAddressWanted
  <2>4. thread' = [thread EXCEPT ![<<k, "recv">>] = "ending"] /\ thread[<<k, "recv">>] = "work"
    BY <1>4 DEF NewAddressWanted
  <2>5. UNCHANGED actor \/ Goto(k, "stop")
    BY <1>4 DEF NewAddressWanted
  <2>6. QED
    BY <2>1, <2>2, <2>3, <2>4, <2>5, BaseThread
<1>5. CASE UNCHANGED vars
  <2>1. /\ UNCHANGED <<stop, requested, retries, sock, tunnel, object, machine, listed, thread, actor,
                        before, astray, overtaken>>
    BY <1>5 DEF vars
  <2>2. Types'
    BY <1>0, <2>1, TypesNext DEF TypesParts, Places
  <2>3. QED
    BY <2>1, <2>2 DEF Base, Numbers, NotStarted, AskedFor, Stepping, Over
<1>6. QED
  BY <1>1, <1>2, <1>3, <1>4, <1>5 DEF Next

-----------------------------------------------------------------------------
\* Shared: who may touch what the sessions share.

\* Before connect() there are no threads.
LEMMA IdleMain ==
    ASSUME Base, actor[Nobody].pc = "idle"
    PROVE  (\A a \in Actors : actor[a].pc = "idle") /\ (\A t \in Threads : thread[t] = "unborn")
<1>1. retries = MaxRetries
  BY DEF Base, Numbers
<1>2. \A k \in Attempts : k + retries > MaxRetries
  BY <1>1, WhoIsWho
<1>3. \A k \in Attempts, kind \in Kinds : thread[<<k, kind>>] = "unborn"
  BY <1>2 DEF Base, NotStarted
<1>4. \A t \in Threads : thread[t] = "unborn"
  BY <1>3 DEF Threads
<1>5. \A k \in Attempts : actor[k].pc = "idle"
  BY <1>3 DEF Base, AskedFor, Kinds
<1>6. QED
  BY <1>4, <1>5, WhoIsWho

\* Nobody works for a session while the next is being made, or the last one closed.
LEMMA NoneWorks ==
    ASSUME SessionWhole, NEW a \in Actors,
           actor[a].pc \in (Making \ {"recv"}) \cup {"close", "done"}
    PROVE  \A t \in Threads : ~Working(t)
BY DEF SessionWhole, Busy, Beside, Making

\* A step of a busy actor that leaves no thread of a session at work.
LEMMA BusyStep ==
    ASSUME Base, Base', Shared, NEW a \in Actors, Busy(a), UNCHANGED thread,
           \A b \in Actors \ {a} : actor'[b] = actor[b], actor'[a].pc # "idle",
           Busy(a)' => Holds(a)',
           \A t \in Threads : ~Working(t)',
           (stop' /\ listed' = {} /\ actor'[a].pc \in {"gone", "leave"}) => sock' = Nobody /\ tunnel' = Nobody,
           actor'[a].pc \notin {"wait", "keepalive", "exited"}
    PROVE  Shared'
<1>1. \A b \in Actors \ {a} : ~Busy(b) /\ ~Busy(b)'
  BY DEF Shared, OneBusy, Busy
<1>2. OneBusy'
  BY <1>1 DEF OneBusy
<1>3. SessionWhole'
  BY DEF SessionWhole
<1>4. actor'[Nobody].pc # "idle"
  <2>1. actor[Nobody].pc # "idle"
    BY IdleMain DEF Busy
  <2>2. QED
    BY <2>1, WhoIsWho
<1>5. NothingToDo'
  <2>1. ASSUME \A b \in Actors : Busy(b)' => actor'[b].pc = "leave"
        PROVE  actor'[a].pc \in {"gone", "leave"}
    BY <2>1 DEF Busy
  <2>2. QED
    BY <1>4, <2>1 DEF NothingToDo
<1>6. Keepalives'
  BY DEF Shared, Keepalives
<1>7. QED
  BY <1>2, <1>3, <1>5, <1>6 DEF Shared

\* The steps that make a session, and the closing of one.
LEMMA SharedMaking ==
    ASSUME Base, Base', Shared, NEW a \in Actors,
           \/ Try(a) \/ Dial(a) \/ Handshake(a) \/ NewTunnel(a) \/ CreateStep(a) \/ CreateFails(a)
           \/ AddBypass(a) \/ OpenData(a) \/ Announce(a) \/ Close(a) \/ Reset(a) \/ ListThreads(a)
    PROVE  Shared'
<1> DEFINE pc == actor[a].pc
           k == actor[a].attempt
<1>0. Types
  BY DEF Base
<1>1. pc \in (Making \ {"recv"}) \cup {"close"} /\ Busy(a) /\ UNCHANGED thread
  BY PlacesFit DEF Try, Dial, Handshake, NewTunnel, CreateStep, CreateFails, AddBypass, OpenData, Announce,
         Close, Reset, ListThreads, At, Making, Busy
<1>2. Holds(a)
  BY <1>1 DEF Shared, OneBusy
<1>3. \A t \in Threads : ~Working(t)'
  <2>1. \A t \in Threads : ~Working(t)
    BY <1>1, NoneWorks DEF Shared, Making
  <2>2. QED
    BY <1>1, <2>1 DEF Working, Alive
\* It is enough to know where the actor goes and what it then holds.
<1>4. ASSUME NEW place \in Places(a), actor'[a].pc = place,
             \A b \in Actors \ {a} : actor'[b] = actor[b],
             place \in (Making \ {"recv"}) \cup {"done", "leave", "gone"},
             Holds(a)',
             (stop' /\ listed' = {} /\ place \in {"gone", "leave"}) => sock' = Nobody /\ tunnel' = Nobody
      PROVE  Shared'
  <2>1. place \notin {"idle", "wait", "keepalive", "exited"}
    BY <1>4 DEF Making
  <2>2. QED
    BY <1>1, <1>3, <1>4, <2>1, BusyStep
<1>5. ASSUME NEW place \in Places(a), Goto(a, place)
      PROVE  actor'[a].pc = place /\ actor'[a].attempt = k /\ \A b \in Actors \ {a} : actor'[b] = actor[b]
  BY <1>0, <1>5, Went
<1>6. Making \cup {Raised(a)} \subseteq Places(a) /\ Raised(a) \in {"leave", "gone"}
  BY PlacesFit
<1>7. CASE Try(a) /\ retries > 0
  <2>1. /\ actor' = [actor EXCEPT ![a] = [pc |-> "dial", attempt |-> MaxRetries - retries + 1]] /\ pc = "try"
        /\ UNCHANGED <<stop, sock, tunnel>>
    BY <1>7 DEF Try, At, events, network
  <2>2. actor'[a].pc = "dial" /\ \A b \in Actors \ {a} : actor'[b] = actor[b]
    BY <1>0, <2>1, TypesAre
  <2>3. Holds(a)'
    BY <1>2, <2>1, <2>2 DEF Holds, Making
  <2>4. QED
    BY <1>4, <1>6, <2>2, <2>3 DEF Making
<1>8. CASE (Try(a) /\ ~(retries > 0)) \/ Dial(a) \/ Handshake(a)
  <2>1. /\ pc \in {"try", "dial", "auth", "getip"} /\ UNCHANGED <<stop, sock, tunnel>>
        /\ \E place \in {"try", "auth", "getip", "tunnel", Raised(a)} : Goto(a, place)
    BY <1>8 DEF Try, Dial, Handshake, At, events, network
  <2>2. PICK place \in {"try", "auth", "getip", "tunnel", Raised(a)} : Goto(a, place)
    BY <2>1
  <2>3. place \in Places(a)
    BY <1>6, <2>2 DEF Making
  <2>4. actor'[a].pc = place /\ \A b \in Actors \ {a} : actor'[b] = actor[b]
    BY <1>5, <2>2, <2>3
  <2>5. sock' = Nobody /\ tunnel' = Nobody /\ (a = Nobody => ~stop')
    BY <1>2, <2>1 DEF Holds, Making
  <2>6. Holds(a)'
    BY <1>6, <2>2, <2>4, <2>5 DEF Holds
  <2>7. QED
    BY <1>4, <1>6, <2>2, <2>3, <2>4, <2>5, <2>6 DEF Making
<1>9. CASE NewTunnel(a) \/ CreateStep(a) \/ CreateFails(a) \/ AddBypass(a)
  <2>1. /\ pc \in {"tunnel", "create", "bypass"} /\ UNCHANGED stop
        /\ tunnel' = k \/ (pc # "tunnel" /\ UNCHANGED tunnel)
        /\ \E place \in {"create", "bypass", "undo", "redial"} : Goto(a, place)
    <3>1. CASE NewTunnel(a)
      BY <3>1 DEF NewTunnel, At, events
    <3>2. CASE CreateStep(a)
      <4>1. Goto(a, "bypass") \/ Goto(a, "create")
        BY <3>2 DEF CreateStep
      <4>2. QED
        BY <3>2, <4>1 DEF CreateStep, At, events
    <3>3. CASE CreateFails(a)
      BY <3>3 DEF CreateFails, At, events
    <3>4. CASE AddBypass(a)
      BY <3>4 DEF AddBypass, At, events
    <3>5. QED
      BY <1>9, <3>1, <3>2, <3>3, <3>4
  <2>2. PICK place \in {"create", "bypass", "undo", "redial"} : Goto(a, place)
    BY <2>1
  <2>3. place \in Places(a)
    BY <1>6, <2>2 DEF Making
  <2>4. actor'[a].pc = place /\ actor'[a].attempt = k /\ \A b \in Actors \ {a} : actor'[b] = actor[b]
    BY <1>5, <2>2, <2>3
  <2>5. tunnel' = k /\ (a = Nobody => ~stop')
    BY <1>2, <2>1 DEF Holds, Making
  <2>6. Holds(a)'
    BY <2>2, <2>4, <2>5 DEF Holds
  <2>7. QED
    BY <1>4, <2>2, <2>3, <2>4, <2>6 DEF Making
<1>10. CASE OpenData(a) \/ Announce(a) \/ Reset(a)
  <2>1. /\ pc \in {"redial", "reauth", "reset"} /\ UNCHANGED tunnel /\ (stop' = stop \/ stop' = FALSE)
        /\ \E place \in {"reauth", "undo", "refused", "reset", "list"} :
              Goto(a, place) /\ (place \in {"reauth", "reset", "list"} => sock' = k)
    BY <1>2, <1>10 DEF OpenData, Announce, Reset, At, events, network, Holds
  <2>2. PICK place \in {"reauth", "undo", "refused", "reset", "list"} :
              Goto(a, place) /\ (place \in {"reauth", "reset", "list"} => sock' = k)
    BY <2>1
  <2>3. place \in Places(a)
    BY <1>6, <2>2 DEF Making
  <2>4. actor'[a].pc = place /\ actor'[a].attempt = k /\ \A b \in Actors \ {a} : actor'[b] = actor[b]
    BY <1>5, <2>2, <2>3
  <2>5. tunnel' = k /\ (a = Nobody => ~stop')
    BY <1>2, <2>1 DEF Holds, Making
  <2>6. Holds(a)'
    BY <2>2, <2>4, <2>5 DEF Holds
  <2>7. QED
    BY <1>4, <2>2, <2>3, <2>4, <2>6 DEF Making
<1>11. CASE ListThreads(a)
  <2>1. pc = "list" /\ UNCHANGED <<tunnel, sock>> /\ listed' = {k} \X Kinds /\ Goto(a, "send")
    BY <1>11 DEF ListThreads, At, events, network
  <2>2. "send" \in Places(a)
    BY <1>6 DEF Making
  <2>3. actor'[a].pc = "send" /\ actor'[a].attempt = k /\ \A b \in Actors \ {a} : actor'[b] = actor[b]
    BY <1>5, <2>1, <2>2
  <2>4. Holds(a)'
    BY <1>2, <2>1, <2>3 DEF Holds
  <2>5. QED
    BY <1>4, <2>2, <2>3, <2>4 DEF Making
<1>12. CASE Close(a)
  <2>1. /\ pc \in {"undo", "refused", "close"} /\ Goto(a, AfterClose(a)[pc]) /\ sock' = Nobody /\ tunnel' = Nobody
        /\ UNCHANGED stop
    BY <1>12, PlacesFit DEF Close, events
  <2>2. PICK place \in Places(a) :
          /\ Goto(a, place) /\ place \in {"try", "done", Raised(a)}
          /\ (a = Nobody /\ place = "try") => pc = "undo"
    BY <1>6, <2>1, PlacesFit
  <2>3. actor'[a].pc = place /\ \A b \in Actors \ {a} : actor'[b] = actor[b]
    BY <1>5, <2>2
  <2>4. a = Nobody /\ place = "try" => ~stop'
    BY <1>2, <2>1, <2>2 DEF Holds, Making
  <2>5. Holds(a)'
    BY <1>6, <2>1, <2>2, <2>3, <2>4 DEF Holds, Making
  <2>6. QED
    BY <1>4, <1>6, <2>1, <2>2, <2>3, <2>5 DEF Making
<1>13. QED
  BY <1>7, <1>8, <1>9, <1>10, <1>11, <1>12

\* The start of a thread: the receive thread of a session is the last that keeps its
\* actor busy, and the first that may ask for another.
LEMMA SharedStart ==
    ASSUME Base, Base', Shared, NEW a \in Actors, StartThread(a)
    PROVE  Shared'
<1> DEFINE k == actor[a].attempt
           kind == actor[a].pc
           place == AfterStart(a)[actor[a].pc]
<1>0. Types /\ thread \in [Threads -> ThreadPlaces]
  BY TypesAre DEF Base
<1>1. /\ kind \in Kinds /\ Goto(a, place) /\ thread' = [thread EXCEPT ![<<k, kind>>] = "loop"]
      /\ UNCHANGED <<stop, requested, sock, tunnel, listed>>
  BY DEF StartThread, events, network
<1>2. kind \in {"send", "recv", "keepalive"} /\ k \in Attempts
  BY <1>1, AttemptOf DEF Kinds, InAttempt, Making
<1>3. /\ place \in Places(a) /\ (kind = "send" => place = "recv")
      /\ (kind = "recv" => place = "keepalive") /\ (kind = "keepalive" => place \in {"wait", "gone"})
  BY <1>1, PlacesFit
<1>4. <<k, kind>> \in Threads
  BY <1>1, <1>2 DEF Threads
<1>5. thread'[<<k, kind>>] = "loop" /\ \A t \in Threads \ {<<k, kind>>} : thread'[t] = thread[t]
  BY <1>0, <1>1, <1>4
<1> HIDE DEF k, kind, place
<1>6. /\ actor'[a].pc = place /\ actor'[a].attempt = k
      /\ \A b \in Actors \ {a} : actor'[b] = actor[b]
  BY <1>0, <1>1, <1>3, Went DEF k
<1>7. actor[a].pc = kind /\ actor[a].attempt = k
  BY DEF kind, k
<1>8. actor[Nobody].pc # "idle" /\ actor'[Nobody].pc # "idle"
  <2>1. actor[Nobody].pc # "idle"
    BY <1>2, <1>7, IdleMain
  <2>2. QED
    BY <1>2, <1>3, <1>6, <2>1, WhoIsWho
<1>9. Keepalives'
  BY <1>5 DEF Shared, Keepalives
<1>10. CASE kind \in {"send", "recv"}
  <2>1. Busy(a) /\ Holds(a) /\ (\A b \in Actors \ {a} : ~Busy(b) /\ ~Busy(b)')
    BY <1>6, <1>7, <1>10 DEF Shared, OneBusy, Busy
  <2>2. tunnel = k /\ sock = k /\ listed = {k} \X Kinds
    BY <1>7, <1>10, <2>1 DEF Holds
  <2>3. kind = "send" => Holds(a)'
    BY <1>1, <1>3, <1>6, <2>2 DEF Holds
  <2>4. kind = "recv" => ~Busy(a)'
    BY <1>3, <1>6 DEF Busy
  <2>5. OneBusy'
    BY <1>10, <2>1, <2>3, <2>4 DEF OneBusy
  <2>6. ASSUME NEW t \in Threads, Working(t)'
        PROVE  t[1] = k /\ t \in listed
    <3>1. CASE t = <<k, kind>>
      BY <1>1, <1>4, <2>2, <3>1
    <3>2. CASE t # <<k, kind>>
      <4>1. Working(t)
        BY <1>5, <2>6, <3>2 DEF Working, Alive
      <4>2. QED
        BY <2>1, <2>2, <4>1 DEF Shared, SessionWhole
    <3>3. QED
      BY <3>1, <3>2
  <2>7. \A b \in Actors : Busy(b)' => actor'[b].pc = "recv" /\ actor'[b].attempt = k
    BY <1>3, <1>6, <1>10, <2>1, <2>4
  <2>8. SessionWhole'
    BY <1>1, <2>2, <2>6, <2>7 DEF SessionWhole, Beside
  <2>9. listed' # {}
    <3>1. <<k, "recv">> \in listed
      BY <2>2 DEF Kinds
    <3>2. QED
      BY <1>1, <3>1
  <2>10. NothingToDo'
    BY <1>8, <2>9 DEF NothingToDo
  <2>11. QED
    BY <1>9, <2>5, <2>8, <2>10 DEF Shared
<1>11. CASE kind = "keepalive"
  <2>1. \A b \in Actors : Busy(b)' <=> Busy(b)
    BY <1>3, <1>6, <1>7, <1>11 DEF Busy
  <2>2. \A b \in Actors : Busy(b) => actor'[b] = actor[b]
    BY <1>6, <1>7, <1>11 DEF Busy
  <2>3. \A t \in Threads : Working(t)' => Working(t)
    BY <1>5, <1>11 DEF Working, Alive
  <2>4. \A b \in Actors : Busy(b) /\ Holds(b) => Holds(b)'
    BY <1>1, <2>2 DEF Holds
  <2>5. OneBusy'
    BY <2>1, <2>4 DEF Shared, OneBusy
  <2>6. SessionWhole'
    BY <1>1, <2>1, <2>2, <2>3 DEF Shared, SessionWhole, Beside
  <2>7. NothingToDo'
    BY <1>1, <1>8, <2>1, <2>2 DEF Shared, NothingToDo
  <2>8. QED
    BY <1>9, <2>5, <2>6, <2>7 DEF Shared
<1>12. QED
  BY <1>2, <1>10, <1>11

\* The main program: connect(), the way to disconnect() that does not meet a reconnect,
\* and the end.
LEMMA SharedMain ==
    ASSUME Base, Base', Shared, ~overtaken', Connect \/ Leave \/ LeaveUnnoted \/ Disconnect \/ Exit
    PROVE  Shared'
<1>0. Types /\ Nobody \in Actors /\ \A k \in Actors \ {Nobody} : k \in Attempts
  BY WhoIsWho DEF Base
<1>1. CASE Connect
  <2>1. Goto(Nobody, "try") /\ actor[Nobody].pc = "idle" /\ UNCHANGED <<stop, sock, tunnel, listed, thread>>
    BY <1>1 DEF Connect, At, events, network
  <2>2. "try" \in Places(Nobody)
    BY <1>0, PlacesFit DEF Making
  <2>3. actor'[Nobody].pc = "try" /\ \A b \in Actors \ {Nobody} : actor'[b] = actor[b]
    BY <1>0, <2>1, <2>2, Went
  <2>4. (\A b \in Actors \ {Nobody} : ~Busy(b)') /\ \A t \in Threads : ~Working(t)'
    BY <2>1, <2>3, IdleMain DEF Busy, Working, Alive
  <2>5. ~stop' /\ sock' = Nobody /\ tunnel' = Nobody
    BY <2>1 DEF Shared, NothingToDo
  <2>6. OneBusy'
    BY <2>3, <2>4, <2>5 DEF OneBusy, Holds
  <2>7. SessionWhole' /\ NothingToDo'
    BY <2>4, <2>5 DEF SessionWhole, NothingToDo
  <2>8. Keepalives'
    BY <2>1 DEF Shared, Keepalives
  <2>9. QED
    BY <2>6, <2>7, <2>8 DEF Shared
<1>2. CASE Leave \/ LeaveUnnoted
  <2>1. /\ Goto(Nobody, "leave") /\ UNCHANGED <<stop, requested, sock, tunnel, listed, thread>> /\ ~Reconnecting
        /\ actor[Nobody].pc \notin {"idle", "leave", "join", "close", "done", "exited"}
    <3>1. CASE Leave
      BY <3>1 DEF Leave, At, Interruptible, events, network
    <3>2. CASE LeaveUnnoted
      BY <3>2, UnnotedChanges
    <3>3. QED
      BY <1>2, <3>1, <3>2
  <2>2. "leave" \in Places(Nobody)
    BY DEF Places, MainPlaces
  <2>3. actor'[Nobody].pc = "leave" /\ \A b \in Actors \ {Nobody} : actor'[b] = actor[b]
    BY <1>0, <2>1, <2>2, Went
  <2>4. \A b \in Actors \ {Nobody} : ~Busy(b) /\ ~Busy(b)'
    BY <1>0, <2>1, <2>3 DEF Reconnecting, Busy
  <2>5. OneBusy'
    BY <2>3, <2>4 DEF OneBusy, Holds, Nobody, Making
  <2>6. SessionWhole'
    <3>1. \A t \in Threads : Working(t)' => Working(t)
      BY <2>1 DEF Working, Alive
    <3>2. QED
      BY <2>1, <2>3, <2>4, <3>1 DEF Shared, SessionWhole, Beside
  <2>7. stop /\ listed = {} => sock = Nobody /\ tunnel = Nobody
    <3> SUFFICES ASSUME stop, listed = {} PROVE sock = Nobody /\ tunnel = Nobody
      OBVIOUS
    <3>1. CASE Busy(Nobody)
      <4>1. Holds(Nobody) /\ actor[Nobody].pc \in Making
        <5>1. actor[Nobody].pc \in Places(Nobody)
          BY <1>0, TypesAre
        <5>2. actor[Nobody].pc \in Making
          BY <2>1, <3>1, <5>1 DEF Busy, Places, MainPlaces, Both
        <5>3. QED
          BY <1>0, <3>1, <5>2 DEF Shared, OneBusy
      <4>2. actor[Nobody].pc \in {"send", "recv"}
        BY <4>1 DEF Holds
      <4>3. listed = {actor[Nobody].attempt} \X Kinds
        BY <4>1, <4>2 DEF Holds
      <4>4. <<actor[Nobody].attempt, "recv">> \in {actor[Nobody].attempt} \X Kinds
        BY DEF Kinds
      <4>5. QED
        BY <4>3, <4>4
    <3>2. CASE ~Busy(Nobody)
      BY <2>4, <3>2 DEF Shared, NothingToDo
    <3>3. QED
      BY <3>1, <3>2
  <2>8. NothingToDo'
    BY <2>1, <2>3, <2>7 DEF NothingToDo
  <2>9. Keepalives'
    BY <2>1 DEF Shared, Keepalives
  <2>10. QED
    BY <2>5, <2>6, <2>8, <2>9 DEF Shared
<1>3. CASE Disconnect
  <2>1. actor[Nobody].pc = "leave" /\ UNCHANGED <<sock, tunnel, listed, thread>>
    BY <1>3 DEF Disconnect, At, network
  <2>2. Busy(Nobody) /\ \A b \in Actors \ {Nobody} : ~Busy(b)
    BY <1>0, <2>1 DEF Busy, Shared, OneBusy
  <2>3. PICK place \in {"done", "join"} : Goto(Nobody, place) /\ (place = "done" => stop /\ listed = {})
    BY <1>3 DEF Disconnect
  <2>4. place \in Places(Nobody)
    BY DEF Places, MainPlaces, Both
  <2>5. actor'[Nobody].pc = place /\ \A b \in Actors \ {Nobody} : actor'[b] = actor[b]
    BY <1>0, <2>3, <2>4, Went
  <2>6. \A b \in Actors \ {Nobody} : ~Busy(b)'
    BY <2>2, <2>5 DEF Busy
  <2>7. place = "done" => sock' = Nobody /\ tunnel' = Nobody
    BY <1>0, <2>1, <2>2, <2>3 DEF Shared, NothingToDo
  <2>8. OneBusy'
    BY <2>5, <2>6, <2>7 DEF OneBusy, Holds, Nobody, Making
  <2>9. SessionWhole'
    <3>1. \A t \in Threads : Working(t)' => Working(t) /\ t \in listed
      BY <2>1 DEF Working, Alive, Shared, SessionWhole
    <3>2. QED
      BY <2>1, <2>3, <2>5, <2>6, <3>1 DEF Shared, SessionWhole, Beside
  <2>10. NothingToDo'
    BY <1>0, <2>5 DEF NothingToDo, Busy
  <2>11. Keepalives'
    BY <2>1 DEF Shared, Keepalives
  <2>12. QED
    BY <2>8, <2>9, <2>10, <2>11 DEF Shared
<1>4. CASE Exit
  <2>1. /\ \A a \in Actors : actor'[a].pc = "exited"
        /\ \A t \in Threads : thread'[t] = "dead"
        /\ sock' = Nobody /\ tunnel' = Nobody
    <3>1. actor' = [a \in Actors |-> [actor[a] EXCEPT !.pc = "exited"]]
      BY <1>4 DEF Exit
    <3>2. \A a \in Actors : actor[a] \in ActorStates
      BY <1>0, TypesAre
    <3>3. \A a \in Actors : actor'[a].pc = "exited"
      BY <3>1, <3>2 DEF ActorStates
    <3>4. QED
      BY <1>4, <3>3 DEF Exit
  <2>2. OneBusy' /\ SessionWhole' /\ Keepalives'
    BY <2>1 DEF OneBusy, Busy, SessionWhole, Working, Alive, Keepalives
  <2>3. NothingToDo'
    BY <1>0, <2>1 DEF NothingToDo
  <2>4. QED
    BY <2>2, <2>3 DEF Shared
<1>5. QED
  BY <1>1, <1>2, <1>3, <1>4

\* The reconnect thread stops the session, and whoever joins finds no thread at work.
LEMMA SharedEnd ==
    ASSUME Base, Base', Shared, NEW a \in Actors, StopForReconnect(a) \/ Join(a)
    PROVE  Shared'
<1>0. Types
  BY DEF Base
<1>1. CASE StopForReconnect(a)
  <2>1. Goto(a, "join") /\ actor[a].pc = "stop" /\ UNCHANGED <<requested, sock, tunnel, listed, thread>>
    BY <1>1 DEF StopForReconnect, At, network
  <2>2. "join" \in Places(a) /\ a # Nobody
    <3>1. actor[Nobody].pc \in MainPlaces
      BY <1>0 DEF Types
    <3>2. QED
      BY <2>1, <3>1, PlacesFit DEF MainPlaces, Both, Making
  <2>3. actor'[a].pc = "join" /\ \A b \in Actors \ {a} : actor'[b] = actor[b]
    BY <1>0, <2>1, <2>2, Went
  <2>4. Busy(a) /\ Holds(a) /\ \A b \in Actors \ {a} : ~Busy(b) /\ ~Busy(b)'
    BY <2>1, <2>3 DEF Shared, OneBusy, Busy
  <2>5. requested'
    BY <2>1, <2>2, <2>4 DEF Holds
  <2>6. OneBusy'
    BY <2>2, <2>3, <2>4, <2>5 DEF OneBusy, Holds, Making
  <2>7. SessionWhole'
    <3>1. \A t \in Threads : Working(t)' => Working(t)
      BY <2>1 DEF Working, Alive
    <3>2. \A t \in Threads : Working(t) => t \in listed /\ sock = t[1] /\ tunnel = t[1] /\ a = t[1]
      BY <2>1, <2>2, <2>4 DEF Shared, SessionWhole, Beside
    <3>3. QED
      BY <2>1, <2>3, <2>4, <3>1, <3>2 DEF SessionWhole, Beside
  <2>8. actor'[Nobody].pc # "idle"
    <3>1. actor[Nobody].pc # "idle"
      BY <2>1, IdleMain
    <3>2. QED
      BY <2>3, <3>1, WhoIsWho
  <2>9. NothingToDo'
    BY <2>3, <2>8 DEF NothingToDo, Busy
  <2>10. Keepalives'
    BY <2>1 DEF Shared, Keepalives
  <2>11. QED
    BY <2>6, <2>7, <2>9, <2>10 DEF Shared
<1>2. CASE Join(a)
  <2>1. /\ Goto(a, "close") /\ actor[a].pc = "join" /\ UNCHANGED thread
        /\ \A t \in listed : ~Alive(t)
    BY <1>2 DEF Join, At, events, network
  <2>2. "close" \in Places(a)
    BY PlacesFit
  <2>3. actor'[a].pc = "close" /\ \A b \in Actors \ {a} : actor'[b] = actor[b]
    BY <1>0, <2>1, <2>2, Went
  <2>4. \A t \in Threads : ~Working(t)'
    BY <2>1 DEF Working, Alive, Shared, SessionWhole
  <2>5. Busy(a) /\ Holds(a)'
    BY <2>1, <2>3 DEF Busy, Holds, Making
  <2>6. QED
    BY <2>1, <2>3, <2>4, <2>5, BusyStep
<1>3. QED
  BY <1>1, <1>2

\* A step of a thread that does no more than go on or end, and perhaps sets the stop event
\* as it ends.
LEMMA SharedThread ==
    ASSUME Base, Base', Shared, NEW t \in Threads, SessionStep(t)
    PROVE  Shared'
<1>0. thread \in [Threads -> ThreadPlaces]
  BY TypesAre DEF Base
<1>1. UNCHANGED <<requested, sock, tunnel, listed, actor>>
  BY DEF SessionStep, Look, Work, KeepaliveEnds, Finally, events, network
<1>2. PICK next \in {"loop", "work", "ending", "dead"} :
        /\ thread' = [thread EXCEPT ![t] = next] /\ thread[t] \in {"loop", "work", "ending"}
        /\ (t[2] = "keepalive" => next = "dead")
  <2>1. t[2] = "keepalive" => thread[t] \notin {"work", "ending"}
    BY DEF Shared, Keepalives
  <2>2. QED
    BY <2>1 DEF SessionStep, Look, Work, KeepaliveEnds, Finally
<1>3. thread'[t] = next /\ \A u \in Threads \ {t} : thread'[u] = thread[u]
  BY <1>0, <1>2
<1>4. \A u \in Threads : Working(u)' => Working(u)
  BY <1>2, <1>3 DEF Working, Alive
<1>5. SessionWhole'
  BY <1>1, <1>4 DEF Shared, SessionWhole, Busy, Beside
<1>6. Keepalives'
  BY <1>2, <1>3 DEF Shared, Keepalives
<1>7. actor[Nobody].pc # "idle"
  BY <1>2, IdleMain
<1>8. UNCHANGED stop \/ Working(t)
  <2>1. UNCHANGED stop \/ thread[t] = "ending"
    BY DEF SessionStep, Look, Work, KeepaliveEnds, Finally, events
  <2>2. QED
    BY <2>1 DEF Shared, Keepalives, Working, Alive
<1>9. CASE UNCHANGED stop
  <2>1. OneBusy'
    BY <1>1, <1>9 DEF Shared, OneBusy, Busy, Holds
  <2>2. NothingToDo'
    BY <1>1, <1>9 DEF Shared, NothingToDo, Busy
  <2>3. QED
    BY <1>5, <1>6, <2>1, <2>2 DEF Shared
<1>10. CASE Working(t)
  <2>1. listed # {}
    BY <1>10 DEF Shared, SessionWhole
  <2>2. \A a \in Actors : Busy(a) => actor[a].pc \notin Making \ {"send", "recv"}
    BY <1>10 DEF Shared, SessionWhole, Beside, Making
  <2>3. OneBusy'
    BY <1>1, <2>2 DEF Shared, OneBusy, Busy, Holds
  <2>4. NothingToDo'
    BY <1>1, <1>7, <2>1 DEF NothingToDo
  <2>5. QED
    BY <1>5, <1>6, <2>3, <2>4 DEF Shared
<1>11. QED
  BY <1>8, <1>9, <1>10

\* The server wants another address: the receive thread is at work, so nobody makes a
\* session, and what it starts is the only reconnect.
LEMMA SharedReconnect ==
    ASSUME Base, Base', Shared, ~overtaken', NEW k \in Attempts, NewAddressWanted(k)
    PROVE  Shared'
<1> DEFINE t == <<k, "recv">>
<1>0. /\ Types /\ thread \in [Threads -> ThreadPlaces] /\ t \in Threads /\ t[1] = k /\ t[2] = "recv"
      /\ k \in Actors /\ k # Nobody /\ Nobody \in Actors
  BY TypesAre, WhoIsWho DEF Base, Threads, Kinds
<1>1. /\ thread[t] = "work" /\ thread' = [thread EXCEPT ![t] = "ending"]
      /\ UNCHANGED <<stop, sock, tunnel, listed>> /\ requested'
  BY DEF NewAddressWanted, network
<1>2. Working(t) /\ t[2] # "keepalive" /\ t[2] \in Kinds
  BY <1>0, <1>1 DEF Working, Alive, Kinds
<1>3. thread'[t] = "ending" /\ \A u \in Threads \ {t} : thread'[u] = thread[u]
  BY <1>0, <1>1
<1>4. \A u \in Threads : Working(u)' => Working(u)
  BY <1>2, <1>3 DEF Working, Alive
<1>5. sock = k /\ tunnel = k /\ t \in listed /\ \A a \in Actors : Busy(a) => Beside(a, k)
  BY <1>0, <1>2 DEF Shared, SessionWhole
<1>6. Keepalives'
  BY <1>0, <1>3 DEF Shared, Keepalives
<1>7. actor[Nobody].pc # "idle"
  BY <1>0, <1>1, IdleMain
<1> HIDE DEF t
<1>8. CASE requested
  <2>1. UNCHANGED actor
    BY <1>8 DEF NewAddressWanted
  <2>2. OneBusy'
    BY <1>1, <2>1 DEF Shared, OneBusy, Busy, Holds
  <2>3. SessionWhole'
    BY <1>1, <1>4, <2>1 DEF Shared, SessionWhole, Busy, Beside
  <2>4. NothingToDo'
    BY <1>1, <1>5, <1>7, <2>1 DEF NothingToDo
  <2>5. QED
    BY <1>6, <2>2, <2>3, <2>4 DEF Shared
<1>9. CASE ~requested
  <2>1. Goto(k, "stop") /\ ~Leaving
    BY <1>9 DEF NewAddressWanted
  <2>2. "stop" \in Places(k)
    BY <1>0 DEF Places, ReconnectPlaces
  <2>3. actor'[k].pc = "stop" /\ \A b \in Actors \ {k} : actor'[b] = actor[b]
    BY <1>0, <2>1, <2>2, Went
  <2>4. ASSUME NEW a \in Actors, Busy(a) PROVE FALSE
    <3>1. Beside(a, k) /\ Holds(a)
      BY <1>5, <2>4 DEF Shared, OneBusy
    <3>2. ~(actor[a].pc = "recv" /\ actor[a].attempt = k)
      BY <1>1 DEF Base, NotStarted, t
    <3>3. ~(a = Nobody /\ actor[a].pc \in {"leave", "join"})
      BY <2>1 DEF Leaving
    <3>4. ~(a = k /\ actor[a].pc \in {"stop", "join"})
      BY <1>0, <1>9, <3>1 DEF Holds
    <3>5. QED
      BY <3>1, <3>2, <3>3, <3>4 DEF Beside
  <2>5. \A b \in Actors \ {k} : ~Busy(b)'
    BY <2>3, <2>4 DEF Busy
  <2>6. OneBusy'
    BY <1>0, <1>1, <2>3, <2>5 DEF OneBusy, Holds, Making
  <2>7. SessionWhole'
    <3>1. \A u \in Threads : Working(u)' => u \in listed /\ u[1] = k
      BY <1>4, <1>5 DEF Shared, SessionWhole
    <3>2. \A b \in Actors : Busy(b)' => b = k
      BY <2>5
    <3>3. QED
      BY <1>1, <1>5, <2>3, <3>1, <3>2 DEF SessionWhole, Beside
  <2>8. NothingToDo'
    <3>1. actor'[Nobody].pc # "idle"
      BY <1>0, <1>7, <2>3
    <3>2. QED
      BY <1>1, <1>5, <3>1 DEF NothingToDo
  <2>9. QED
    BY <1>6, <2>6, <2>7, <2>8 DEF Shared
<1>10. QED
  BY <1>8, <1>9

LEMMA SharedStep == Base /\ Base' /\ Shared /\ ~overtaken' /\ [Next]_vars => Shared'
<1> SUFFICES ASSUME Base, Base', Shared, ~overtaken', [Next]_vars PROVE Shared'
  OBVIOUS
<1>1. ASSUME NEW a \in Actors, Establish(a) \/ Handshake(a) \/ Announce(a) \/ Join(a) PROVE Shared'
  BY <1>1, SharedMaking, SharedStart, SharedEnd DEF Establish
<1>2. CASE Connect \/ Leave \/ LeaveUnnoted \/ Disconnect \/ Exit
  BY <1>2, SharedMain
<1>3. ASSUME NEW t \in Threads, SessionStep(t) PROVE Shared'
  BY <1>3, SharedThread
<1>4. ASSUME NEW k \in Attempts, NewAddressWanted(k) PROVE Shared'
  BY <1>4, SharedReconnect
<1>5. CASE UNCHANGED vars
  <2>1. UNCHANGED <<stop, requested, sock, tunnel, listed, thread, actor>>
    BY <1>5 DEF vars
  <2>2. OneBusy'
    BY <2>1 DEF Shared, OneBusy, Busy, Holds
  <2>3. SessionWhole' /\ Keepalives'
    BY <2>1 DEF Shared, SessionWhole, Busy, Beside, Working, Alive, Keepalives
  <2>4. NothingToDo'
    BY <2>1 DEF Shared, NothingToDo, Busy
  <2>5. QED
    BY <2>2, <2>3, <2>4 DEF Shared
<1>6. QED
  BY <1>1, <1>2, <1>3, <1>4, <1>5 DEF Next

-----------------------------------------------------------------------------
\* OnRecord: what the client has changed on the machine.

\* Where no tunnel is made, used or closed.
LEMMA RecordKept ==
    ASSUME AdapterFirst, Recorded, UNCHANGED <<tunnel, object, machine, before, astray>>,
           \A a \in Actors : actor'[a].pc = "create" => actor'[a] = actor[a]
    PROVE  AdapterFirst' /\ Recorded'
BY DEF AdapterFirst, Recorded, Unaccounted

\* A tunnel that is closed takes back all it has made, but for what goes astray.
LEMMA ClosedClean ==
    ASSUME Types, AdapterFirst, Recorded, NEW k \in Attempts, tunnel = k,
           NEW unnoted \in SUBSET Things, NEW failing \in SUBSET Things, Teardown(k, unnoted, failing)
    PROVE  Unaccounted' = {}
<1> DEFINE known == object[k].known
           removed == Removed(known, failing)
<1>1. /\ machine' = (machine \cup unnoted) \ removed /\ before' = before
      /\ astray' = astray \cup unnoted \cup failing \cup (before \cap removed)
  BY Torn
<1>2. ((machine \ before) \cup (before \ machine)) \ astray \subseteq known
  BY WhoIsWho DEF Recorded, Unaccounted
<1>3. known \ failing \subseteq removed
  <2>1. CASE known = {}
    BY <2>1
  <2>2. CASE known # {}
    BY <2>2 DEF AdapterFirst, Removed
  <2>3. QED
    BY <2>1, <2>2
<1>4. known \cap before = {}
  <2>1. known \subseteq Things /\ before \subseteq Own
    BY TypesAre DEF Objects
  <2>2. Things \cap Own = {}
    BY DEF Things, OnAdapter, Elsewhere, Own, SystemLoopback, SystemRoute
  <2>3. QED
    BY <2>1, <2>2
<1> HIDE DEF known, removed
<1>5. ASSUME NEW x, x \in machine', x \notin before', x \notin astray' PROVE FALSE
  BY <1>1, <1>2, <1>3, <1>5
<1>6. ASSUME NEW x, x \notin machine', x \in before', x \notin astray' PROVE FALSE
  BY <1>1, <1>2, <1>4, <1>6
<1>7. QED
  BY <1>5, <1>6 DEF Unaccounted

\* The steps of an actor with its tunnel.
LEMMA RecordTunnel ==
    ASSUME Base, Shared, AdapterFirst, Recorded, NEW a \in Actors,
           NewTunnel(a) \/ CreateStep(a) \/ CreateFails(a) \/ AddBypass(a) \/ Close(a)
    PROVE  AdapterFirst' /\ Recorded'
<1> DEFINE k == actor[a].attempt
           pc == actor[a].pc
<1>0. /\ Types /\ object \in [Attempts -> Objects] /\ tunnel \in 0..MaxRetries
      /\ actor \in [Actors -> ActorStates]
  BY TypesAre DEF Base
<1>1. pc \in {"tunnel", "create", "bypass", "undo", "refused", "close"} /\ Busy(a) /\ Holds(a)
  <2>1. pc \in {"tunnel", "create", "bypass", "undo", "refused", "close"}
    BY PlacesFit DEF NewTunnel, CreateStep, CreateFails, AddBypass, Close, At
  <2>2. QED
    BY <2>1 DEF Busy, Shared, OneBusy
<1>2. \A b \in Actors \ {a} : actor[b].pc # "create"
  BY <1>1 DEF Shared, OneBusy, Busy
<1>3. pc \in {"tunnel", "create", "bypass"} => k \in Attempts
  BY AttemptOf DEF InAttempt, Making
<1>4. ASSUME NEW place \in Places(a), Goto(a, place)
      PROVE  /\ actor'[a].pc = place /\ actor'[a].attempt = k
             /\ \A b \in Actors \ {a} : actor'[b].pc # "create"
  BY <1>0, <1>2, <1>4, Went
<1>5. Making \cup {Raised(a)} \subseteq Places(a) /\ Raised(a) # "create"
  BY PlacesFit
\* After a tunnel was closed there is none, or one that knows of nothing.
<1>6. ASSUME NEW place \in Places(a), Goto(a, place), place # "create",
             object' \in [Attempts -> Objects],
             \A j \in Attempts : object'[j] = object[j] \/ (object'[j].known = {} /\ object'[j].active = FALSE)
      PROVE  AdapterFirst'
  <2>1. \A b \in Actors : actor'[b].pc # "create"
    BY <1>4, <1>6
  <2>2. QED
    BY <1>6, <2>1 DEF AdapterFirst
<1>7. CASE NewTunnel(a)
  <2>1. /\ pc = "tunnel" /\ tunnel' = k /\ object' = [object EXCEPT ![k] = [NoTunnelYet EXCEPT !.step = 1]]
        /\ UNCHANGED <<machine, before, astray>> /\ Goto(a, "create")
    BY <1>7 DEF NewTunnel, At
  <2>2. k \in Attempts /\ tunnel = Nobody /\ k # Nobody
    BY <1>1, <1>3, <2>1, WhoIsWho DEF Holds
  <2>3. /\ object'[k].known = {} /\ object'[k].active = FALSE /\ object'[k].step = 1
        /\ \A j \in Attempts \ {k} : object'[j] = object[j]
    BY <1>0, <2>1, <2>2 DEF NoTunnelYet
  <2>4. "create" \in Places(a)
    BY <1>5 DEF Making
  <2>5. actor'[a].attempt = k /\ \A b \in Actors \ {a} : actor'[b].pc # "create"
    BY <1>4, <2>1, <2>4
  <2>6. AdapterFirst'
    BY <2>3, <2>5 DEF AdapterFirst
  <2>7. Recorded'
    BY <2>1, <2>2, <2>3 DEF Recorded, Unaccounted
  <2>8. QED
    BY <2>6, <2>7
<1>8. CASE CreateStep(a)
  <2> DEFINE i == object[k].step
             made == Made(machine, CreateSteps[i])
  <2>1. /\ pc = "create" /\ k \in Attempts /\ i \in 1..3 /\ tunnel = k /\ k # Nobody /\ UNCHANGED tunnel
    BY <1>1, <1>3, <1>8, WhoIsWho DEF CreateStep, At, Base, Stepping, Holds
  <2>2. PICK last \in BOOLEAN :
          /\ object' = [object EXCEPT ![k].known = @ \cup made, ![k].step = @ + 1, ![k].active = last]
          /\ (last => i = 3)
          /\ machine' = machine \cup made /\ UNCHANGED <<before, astray>>
    <3>1. Len(CreateSteps) = 3
      BY DEF CreateSteps
    <3>2. QED
      BY <1>8, <3>1 DEF CreateStep
  <2>3. i > 1 => "adapter" \in object[k].known
    BY <2>1 DEF AdapterFirst
  <2>4. i = 1 => "adapter" \in made
    BY DEF Made, Skipped, CreateSteps
  <2>5. object[k] \in Objects
    BY <1>0, <2>1
  <2> HIDE DEF made
  <2>6. /\ object'[k].known = object[k].known \cup made
        /\ \A j \in Attempts \ {k} : object'[j] = object[j]
    BY <1>0, <2>1, <2>2, <2>5 DEF Objects
  <2>7. "adapter" \in object'[k].known
    BY <2>1, <2>3, <2>4, <2>6
  <2>8. PICK place \in {"bypass", "create"} : Goto(a, place)
    BY <1>8 DEF CreateStep
  <2>9. place \in Places(a)
    BY <1>5 DEF Making
  <2>10. actor'[a].attempt = k /\ \A b \in Actors \ {a} : actor'[b].pc # "create"
    BY <1>4, <2>8, <2>9
  <2>11. AdapterFirst'
    BY <2>6, <2>7, <2>10 DEF AdapterFirst
  <2>12. Recorded'
    <3>1. Unaccounted' \subseteq Unaccounted \cup made
      BY <2>2 DEF Unaccounted
    <3>2. QED
      BY <2>1, <2>6, <3>1 DEF Recorded
  <2>13. QED
    BY <2>11, <2>12
<1>9. CASE CreateFails(a)
  <2>1. /\ pc = "create" /\ k \in Attempts /\ tunnel = k /\ k # Nobody /\ UNCHANGED tunnel /\ Goto(a, "undo")
    BY <1>1, <1>3, <1>9, WhoIsWho DEF CreateFails, At, Holds
  <2>2. PICK unnoted \in SUBSET Things, failing \in SUBSET Things : Teardown(k, unnoted, failing)
    BY <1>9 DEF CreateFails, Things
  <2>3. /\ object' \in [Attempts -> Objects] /\ object'[k].known = {} /\ object'[k].active = FALSE
        /\ \A j \in Attempts \ {k} : object'[j] = object[j]
    BY <1>0, <2>1, <2>2, Torn
  <2>4. "undo" \in Places(a)
    BY <1>5 DEF Making
  <2>5. Unaccounted' = {}
    BY <1>0, <2>1, <2>2, ClosedClean
  <2>6. AdapterFirst'
    BY <1>6, <2>1, <2>3, <2>4
  <2>7. Recorded'
    BY <2>1, <2>3, <2>5 DEF Recorded
  <2>8. QED
    BY <2>6, <2>7
<1>10. CASE AddBypass(a)
  <2>1. /\ pc = "bypass" /\ k \in Attempts /\ tunnel = k /\ k # Nobody /\ UNCHANGED tunnel /\ Goto(a, "redial")
    BY <1>1, <1>3, <1>10, WhoIsWho DEF AddBypass, At, Holds
  <2>2. "redial" \in Places(a)
    BY <1>5 DEF Making
  <2>3. \A b \in Actors : actor'[b].pc # "create"
    BY <1>4, <2>1, <2>2
  <2>4. CASE UNCHANGED <<machine, object, before, astray>>
    BY <2>1, <2>3, <2>4, RecordKept
  <2>5. ASSUME NEW noted \in SUBSET {"bypass"}, Rerouted(k, noted) PROVE AdapterFirst' /\ Recorded'
    <3>1. /\ object[k].active /\ object'[k].known = object[k].known \cup noted
          /\ \A j \in Attempts \ {k} : object'[j] = object[j]
          /\ before' = before
      BY <1>0, <2>1, <2>5, Bypassed
    <3>2. PICK removed \in SUBSET ToServer, added \in SUBSET {"bypass"} :
             /\ machine' = (machine \ removed) \cup added
             /\ astray' = astray \cup (added \ noted) \cup (before \cap removed)
      BY <1>0, <2>1, <2>5, Bypassed
    <3>3. "adapter" \in object[k].known
      BY <2>1, <3>1 DEF AdapterFirst
    <3>4. AdapterFirst'
      BY <2>3, <3>1, <3>3 DEF AdapterFirst
    <3>5. Unaccounted' \subseteq Unaccounted \cup noted
      BY <3>1, <3>2 DEF Unaccounted
    <3>6. Recorded'
      BY <2>1, <3>1, <3>5 DEF Recorded
    <3>7. QED
      BY <3>4, <3>6
  <2>6. QED
    BY <1>10, <2>4, <2>5 DEF AddBypass
<1>11. CASE Close(a)
  <2>1. /\ pc \in {"undo", "refused", "close"} /\ Goto(a, AfterClose(a)[pc]) /\ tunnel' = Nobody /\ CloseTunnel
    BY <1>11, PlacesFit DEF Close
  <2>2. PICK place \in Places(a) : Goto(a, place) /\ place \in {"try", "done", Raised(a)}
    BY <2>1, PlacesFit
  <2>3. place # "create"
    BY <1>5, <2>2
  <2>4. CASE tunnel = Nobody
    <3>1. UNCHANGED <<tunnel, object, machine, before, astray>>
      BY <2>1, <2>4 DEF CloseTunnel
    <3>2. AdapterFirst'
      BY <1>0, <1>6, <2>2, <2>3, <3>1
    <3>3. Recorded'
      BY <3>1 DEF Recorded, Unaccounted
    <3>4. QED
      BY <3>2, <3>3
  <2>5. CASE tunnel # Nobody
    <3>1. tunnel \in Attempts
      BY <1>0, <2>5, WhoIsWho DEF Nobody
    <3>2. PICK failing \in SUBSET Things : Teardown(tunnel, {}, failing)
      BY <2>1, <2>5 DEF CloseTunnel, Things
    <3>3. /\ object' \in [Attempts -> Objects] /\ object'[tunnel].known = {} /\ object'[tunnel].active = FALSE
          /\ \A j \in Attempts \ {tunnel} : object'[j] = object[j]
      BY <1>0, <3>1, <3>2, Torn
    <3>4. Unaccounted' = {}
      BY <1>0, <3>1, <3>2, ClosedClean
    <3>5. AdapterFirst'
      BY <1>6, <2>2, <2>3, <3>3
    <3>6. Recorded'
      BY <2>1, <3>4 DEF Recorded
    <3>7. QED
      BY <3>5, <3>6
  <2>6. QED
    BY <2>4, <2>5
<1>12. QED
  BY <1>7, <1>8, <1>9, <1>10, <1>11

LEMMA RecordStep ==
    ASSUME Base, Shared, AdapterFirst, Recorded, [Next]_vars
    PROVE  AdapterFirst' /\ Recorded'
<1>0. Types /\ actor \in [Actors -> ActorStates] /\ Nobody \in Actors
  BY TypesAre, WhoIsWho DEF Base
\* An actor that goes somewhere else than to "create", and nothing of the tunnel's.
<1>1. ASSUME NEW a \in Actors, NEW s, s.pc # "create", actor' = [actor EXCEPT ![a] = s],
             UNCHANGED <<tunnel, object, machine, before, astray>>
      PROVE  AdapterFirst' /\ Recorded'
  <2>1. actor'[a] = s /\ \A b \in Actors \ {a} : actor'[b] = actor[b]
    BY <1>0, <1>1
  <2>2. \A b \in Actors : actor'[b].pc = "create" => actor'[b] = actor[b]
    BY <1>1, <2>1
  <2>3. QED
    BY <1>1, <2>2, RecordKept
<1>2. ASSUME NEW a \in Actors, NEW place, place # "create", Goto(a, place),
             UNCHANGED <<tunnel, object, machine, before, astray>>
      PROVE  AdapterFirst' /\ Recorded'
  <2> DEFINE s == [actor[a] EXCEPT !.pc = place]
  <2>1. s.pc = place
    BY <1>0 DEF ActorStates
  <2>2. actor' = [actor EXCEPT ![a] = s]
    BY <1>2 DEF Goto
  <2> HIDE DEF s
  <2>3. QED
    BY <1>1, <1>2, <2>1, <2>2
<1>3. ASSUME NEW a \in Actors, NewTunnel(a) \/ CreateStep(a) \/ CreateFails(a) \/ AddBypass(a) \/ Close(a)
      PROVE  AdapterFirst' /\ Recorded'
  BY <1>3, RecordTunnel
<1>4. ASSUME NEW a \in Actors, Try(a) PROVE AdapterFirst' /\ Recorded'
  <2>1. UNCHANGED <<tunnel, object, machine, before, astray>>
    BY <1>4 DEF Try, network
  <2>2. CASE retries > 0
    <3> DEFINE s == [pc |-> "dial", attempt |-> MaxRetries - retries + 1]
    <3>1. s.pc # "create" /\ actor' = [actor EXCEPT ![a] = s]
      BY <1>4, <2>2 DEF Try
    <3> HIDE DEF s
    <3>2. QED
      BY <1>1, <2>1, <3>1
  <2>3. CASE ~(retries > 0)
    BY <1>2, <1>4, <2>1, <2>3, PlacesFit DEF Try
  <2>4. QED
    BY <2>2, <2>3
<1>5. ASSUME NEW a \in Actors,
             \/ Dial(a) \/ Handshake(a) \/ OpenData(a) \/ Announce(a) \/ Reset(a) \/ ListThreads(a)
             \/ StopForReconnect(a) \/ Join(a)
      PROVE  AdapterFirst' /\ Recorded'
  <2>1. UNCHANGED <<tunnel, object, machine, before, astray>>
    BY <1>5 DEF Dial, Handshake, OpenData, Announce, Reset, ListThreads, StopForReconnect, Join, network
  <2>2. \E place : place # "create" /\ Goto(a, place)
    BY <1>5, PlacesFit DEF Dial, Handshake, OpenData, Announce, Reset, ListThreads, StopForReconnect, Join
  <2>3. QED
    BY <1>2, <2>1, <2>2
<1>6. ASSUME NEW a \in Actors, StartThread(a) PROVE AdapterFirst' /\ Recorded'
  <2>1. UNCHANGED <<tunnel, object, machine, before, astray>> /\ Goto(a, AfterStart(a)[actor[a].pc]) /\ actor[a].pc \in Kinds
    BY <1>6 DEF StartThread, network
  <2>2. AfterStart(a)[actor[a].pc] # "create"
    BY <2>1, PlacesFit DEF Kinds
  <2>3. QED
    BY <1>2, <2>1, <2>2
<1>7. CASE Connect \/ Leave \/ Disconnect
  <2>1. UNCHANGED <<tunnel, object, machine, before, astray>>
    BY <1>7 DEF Connect, Leave, Disconnect, network
  <2>2. \E place : place # "create" /\ Goto(Nobody, place)
    BY <1>7 DEF Connect, Leave, Disconnect
  <2>3. QED
    BY <1>0, <1>2, <2>1, <2>2
<1>75. CASE LeaveUnnoted
  <2>1. /\ Goto(Nobody, "leave") /\ UNCHANGED <<tunnel, before>>
        /\ \A k \in Attempts : object'[k].known = object[k].known
        /\ \A k \in Attempts : object'[k] = object[k] \/ object[k].active
    BY <1>75, UnnotedChanges
  <2>2. PICK removed \in SUBSET ToServer, added \in SUBSET Things :
          /\ machine' = (machine \ removed) \cup added
          /\ astray' = astray \cup added \cup (before \cap removed)
    BY <1>75, UnnotedChanges
  <2>3. "leave" \in Places(Nobody)
    BY DEF Places, MainPlaces
  <2>4. actor'[Nobody].pc = "leave" /\ \A b \in Actors \ {Nobody} : actor'[b] = actor[b]
    BY <1>0, <2>1, <2>3, Went
  <2>5. \A b \in Actors : actor'[b].pc = "create" =>
          /\ actor'[b] = actor[b] /\ actor[b].attempt \in Attempts
    BY <2>4, AttemptOf DEF InAttempt, Making
  <2>6. \A k \in Attempts : object'[k].known # {} \/ object'[k].active => "adapter" \in object'[k].known
    BY <2>1 DEF AdapterFirst
  <2>7. \A b \in Actors : actor'[b].pc # "create"
    <3>1. actor[Nobody].pc \in {"create", "bypass"} /\ Busy(Nobody)
      BY <1>75, UnnotedChanges DEF Busy
    <3>2. \A b \in Actors \ {Nobody} : ~Busy(b)
      BY <1>0, <3>1 DEF Shared, OneBusy
    <3>3. QED
      BY <2>4, <3>2 DEF Busy
  <2>8. AdapterFirst'
    BY <2>6, <2>7 DEF AdapterFirst
  <2>9. Unaccounted' \subseteq Unaccounted
    BY <2>1, <2>2 DEF Unaccounted
  <2>10. Recorded'
    <3>1. tunnel = Nobody \/ tunnel \in Attempts
      BY <1>0, TypesAre, WhoIsWho DEF Nobody
    <3>2. QED
      BY <2>1, <2>9, <3>1 DEF Recorded
  <2>11. QED
    BY <2>8, <2>10
<1>8. CASE Exit
  <2>1. tunnel = Nobody
    BY <1>0, <1>8 DEF Exit, At, Shared, OneBusy, Busy, Holds
  <2>2. /\ tunnel' = Nobody /\ object' = [k \in Attempts |-> NoTunnelYet] /\ UNCHANGED <<before, astray>>
        /\ machine' = machine \ OnAdapter
        /\ actor' = [a \in Actors |-> [actor[a] EXCEPT !.pc = "exited"]]
    BY <1>8 DEF Exit, WithoutProcess
  <2>3. \A a \in Actors : actor'[a].pc = "exited"
    BY <1>0, <2>2 DEF ActorStates
  <2>4. AdapterFirst'
    BY <2>2, <2>3 DEF AdapterFirst, NoTunnelYet
  <2>5. Recorded'
    <3>1. OnAdapter \cap before = {}
      BY <1>0, TypesAre DEF OnAdapter, Own, SystemLoopback, SystemRoute
    <3>2. Unaccounted' \subseteq Unaccounted
      BY <2>2, <3>1 DEF Unaccounted
    <3>3. QED
      BY <2>1, <2>2, <3>2 DEF Recorded
  <2>6. QED
    BY <2>4, <2>5
<1>9. ASSUME NEW t \in Threads, SessionStep(t) PROVE AdapterFirst' /\ Recorded'
  BY <1>9, RecordKept DEF SessionStep, Look, Work, KeepaliveEnds, Finally, network
<1>10. ASSUME NEW k \in Attempts, NewAddressWanted(k) PROVE AdapterFirst' /\ Recorded'
  <2>1. UNCHANGED <<tunnel, object, machine, before, astray>> /\ (UNCHANGED actor \/ Goto(k, "stop"))
    BY <1>10 DEF NewAddressWanted, network
  <2>2. QED
    BY <1>2, <2>1, RecordKept, WhoIsWho
<1>11. CASE UNCHANGED vars
  BY <1>11, RecordKept DEF vars
<1>12. QED
  BY <1>3, <1>4, <1>5, <1>6, <1>7, <1>75, <1>8, <1>9, <1>10, <1>11 DEF Next, Establish

-----------------------------------------------------------------------------
\* The theorems.

LEMMA InitInv == Init => IInv
<1> SUFFICES ASSUME Init PROVE IInv
  OBVIOUS
<1>0. MaxRetries \in Nat /\ Nobody \in 0..MaxRetries /\ Nobody \in Actors /\ Attempts \subseteq Actors
  BY WhoIsWho
<1>1. \A a \in Actors : actor[a] = [pc |-> "idle", attempt |-> Nobody]
  BY DEF Init
<1>2. \A a \in Actors : actor[a].pc = "idle" /\ actor[a].attempt = 0
  BY <1>1 DEF Nobody
<1>3. Types
  <2>1. [pc |-> "idle", attempt |-> Nobody] \in ActorStates
    BY <1>0 DEF ActorStates, MainPlaces, Both
  <2>2. actor \in [Actors -> ActorStates]
    BY <2>1 DEF Init
  <2>3. \A a \in Actors : actor[a].pc \in Places(a)
    BY <1>2 DEF Places, MainPlaces, ReconnectPlaces, Both
  <2>4. object \in [Attempts -> Objects]
    BY DEF Init, NoTunnelYet, Objects
  <2>5. thread \in [Threads -> ThreadPlaces]
    BY DEF Init, ThreadPlaces
  <2>6. /\ stop \in BOOLEAN /\ requested \in BOOLEAN /\ overtaken \in BOOLEAN
        /\ before \subseteq Own /\ astray \subseteq Things \cup Own
    BY ClientConstants DEF Init
  <2>7. retries \in 0..MaxRetries /\ sock \in 0..MaxRetries /\ tunnel \in 0..MaxRetries
    BY <1>0 DEF Init
  <2>8. machine \subseteq Things \cup Own /\ listed \subseteq Threads
    BY <2>6 DEF Init
  <2>9. TypesParts
    BY <2>2, <2>3, <2>4, <2>5, <2>6, <2>7, <2>8 DEF TypesParts
  <2>10. QED
    BY <2>9, TypesSplit
<1>4. Numbers
  BY <1>0, <1>2 DEF Init, Numbers, InAttempt, Making
<1>5. NotStarted /\ AskedFor /\ Stepping /\ Over
  <2>1. \A k \in Attempts, kind \in Kinds : thread[<<k, kind>>] = "unborn"
    BY DEF Init, Threads
  <2>2. NotStarted
    BY <1>2, <2>1 DEF NotStarted, BeforeThreads, Making
  <2>3. AskedFor /\ Stepping /\ Over
    BY <1>0, <1>2 DEF AskedFor, Stepping, Over
  <2>4. QED
    BY <2>2, <2>3
<1>6. Shared
  <2>1. \A a \in Actors : ~Busy(a)
    BY <1>2 DEF Busy
  <2>2. \A t \in Threads : thread[t] = "unborn"
    BY DEF Init
  <2>3. OneBusy /\ SessionWhole /\ Keepalives
    BY <2>1, <2>2 DEF OneBusy, SessionWhole, Working, Alive, Keepalives
  <2>4. NothingToDo
    BY DEF Init, NothingToDo
  <2>5. QED
    BY <2>3, <2>4 DEF Shared
<1>7. AdapterFirst /\ Recorded
  BY <1>2 DEF Init, AdapterFirst, Recorded, Unaccounted, NoTunnelYet
<1>8. QED
  BY <1>3, <1>4, <1>5, <1>6, <1>7 DEF IInv, Base, OnRecord

\* A reconnect that was overtaken stays overtaken.
LEMMA Latches == [Next]_vars => (overtaken => overtaken')
BY DEF Next, Establish, SessionStep, Connect, Leave, LeaveUnnoted, Disconnect, Exit, Try, Dial, NewTunnel,
       CreateStep, CreateFails, AddBypass, OpenData, Close, Reset, ListThreads, StartThread,
       StopForReconnect, Handshake, Announce, Join, Look, Work, KeepaliveEnds, Finally,
       NewAddressWanted, vars

LEMMA InvStep == IInv /\ [Next]_vars => IInv'
<1> SUFFICES ASSUME IInv, [Next]_vars PROVE IInv'
  OBVIOUS
<1>1. Base /\ Base'
  BY BaseStep DEF IInv
<1>2. CASE overtaken'
  BY <1>1, <1>2 DEF IInv
<1>3. CASE ~overtaken'
  <2>1. Shared /\ OnRecord
    BY <1>3, Latches DEF IInv
  <2>2. Shared'
    BY <1>1, <1>3, <2>1, SharedStep
  <2>3. OnRecord'
    BY <1>1, <2>1, RecordStep DEF OnRecord
  <2>4. QED
    BY <1>1, <2>2, <2>3 DEF IInv
<1>4. QED
  BY <1>2, <1>3

\* The invariant holds in every reachable state of the client.
THEOREM Invariant == Spec => []IInv
  BY InitInv, InvStep, PTL DEF Spec

\* Every variable has its type, and the attempts of connect() and of all reconnects
\* together stay within the budget.
THEOREM TypeCorrect == Spec => []TypeOK
<1>1. IInv => TypeOK
  BY DEF IInv, Base, Types
<1>2. QED
  BY <1>1, Invariant, PTL

\* The threads of two sessions are never at work together, nor while a session is made:
\* whatever ends a session, and however often, the one stop event is not heard by the
\* wrong one (_do_reconnect, _join_threads).
THEOREM SessionsStayApart == Spec => []SessionsDoNotMix
<1>1. IInv => SessionsDoNotMix
  <2> SUFFICES ASSUME IInv, ~overtaken PROVE SessionsDoNotMix
    BY DEF SessionsDoNotMix
  <2>1. Shared
    BY DEF IInv
  <2>2. ASSUME NEW t \in Threads, NEW u \in Threads, Working(t), Working(u) PROVE u[1] = t[1]
    BY <2>1, <2>2 DEF Shared, SessionWhole
  <2>3. ASSUME NEW t \in Threads, Working(t), NEW a \in Actors, Establishing(a) PROVE FALSE
    BY <2>1, <2>3 DEF Shared, SessionWhole, Busy, Beside, Establishing
  <2>4. QED
    BY <2>2, <2>3 DEF SessionsDoNotMix
<1>2. QED
  BY <1>1, Invariant, PTL

\* A thread at work finds the socket and the tunnel of its own session.
THEOREM ThreadsFindTheirOwn == Spec => []ThreadsHaveResources
<1>1. IInv => ThreadsHaveResources
  BY DEF IInv, Shared, SessionWhole, ThreadsHaveResources, Working, Alive
<1>2. QED
  BY <1>1, Invariant, PTL

\* disconnect() leaves no socket, no tunnel and no thread, wherever the main program was
\* when it came to it.
THEOREM DisconnectClosesAll == Spec => []NothingLeftOpen
<1>1. IInv => NothingLeftOpen
  <2> SUFFICES ASSUME IInv, At(Nobody, "done"), ~overtaken
               PROVE  sock = Nobody /\ tunnel = Nobody /\ \A t \in Threads : ~Working(t)
    BY DEF NothingLeftOpen
  <2>1. Shared /\ Nobody \in Actors
    BY WhoIsWho DEF IInv
  <2>2. Holds(Nobody)
    BY <2>1 DEF Shared, OneBusy, Busy, At
  <2>3. \A t \in Threads : ~Working(t)
    BY <2>1, NoneWorks DEF At, Shared
  <2>4. QED
    BY <2>2, <2>3 DEF Holds, At
<1>2. QED
  BY <1>1, Invariant, PTL

\* The machine's network is as it was before connect(), but for what the open tunnel object
\* knows and takes back, and the single things that went astray: a command not heard to
\* work, a removal that failed, the machine's own route to the server (Tunnel.create,
\* add_bypass, close; Tunnel.py:316-348, 495-532).
THEOREM MachineIsOnRecord == Spec => []MachineOnRecord
<1>1. IInv => MachineOnRecord
  BY DEF IInv, OnRecord, Recorded, Unaccounted, MachineOnRecord
<1>2. QED
  BY <1>1, Invariant, PTL

=============================================================================
