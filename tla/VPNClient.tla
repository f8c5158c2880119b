------------------------------ MODULE VPNClient -------------------------------
(***************************************************************************)
(* The client of Client/VPNClient.py as its main program runs it: connect, *)
(* wait, and disconnect in a `finally`.  A session has three threads that  *)
(* share a stop event, the data socket and the tunnel; when the server     *)
(* asks for another address the receive thread starts a reconnect thread,  *)
(* which ends the session and makes the next one.  A step is what a thread *)
(* does up to its next look at something another thread changes.           *)
(*                                                                         *)
(* Attempts are numbered by the tries the budget allows, and what an       *)
(* attempt makes (socket, tunnel, threads) carries its number.  The server *)
(* may answer anything, close, or be silent.                               *)
(***************************************************************************)
EXTENDS Tunnel, Sequences

CONSTANTS
    MaxRetries,     \* MAX_RETRIES
    Machines        \* the sets of own routes the machine may start with

ASSUME ClientConstants == MaxRetries \in Nat \ {0} /\ Machines \subseteq SUBSET Own

Attempts == 1..MaxRetries
Nobody == 0                     \* no socket, no tunnel; as an actor, the main thread
Actors == 0..MaxRetries         \* main, and the reconnect thread a session asked for
Kinds == {"send", "recv", "keepalive"}
Threads == Attempts \X Kinds

VARIABLES
    stop,       \* _stop_event
    requested,  \* _reconnect_requested
    retries,    \* _retries_left
    sock,       \* _sock (with _reader and _nat): the attempt that opened it
    tunnel,     \* _tunnel: the attempt that made the object
    object,     \* what each Tunnel object knows, and the next step of create()
    machine,    \* the network settings of the machine
    listed,     \* _threads
    thread,     \* the threads of each session
    actor,      \* the main thread and the reconnect threads
    before,     \* the routes the machine had before connect()
    astray,     \* changes of the network that no object knows of: see Strayed
    overtaken   \* disconnect() met a reconnect (these three are not in the code)

vars == <<stop, requested, retries, sock, tunnel, object, machine, listed, thread, actor,
          before, astray, overtaken>>
events == <<stop, requested>>
network == <<tunnel, object, machine, before, astray>>

-----------------------------------------------------------------------------

\* The attempt an actor is in, and where in the code it is.
At(a, place) == actor[a].pc = place
Goto(a, place) == actor' = [actor EXCEPT ![a].pc = place]

\* started, not ended
Alive(t) == thread[t] \in {"loop", "work", "ending"}

\* Where _establish goes when it raises: main goes on in the `finally`, the reconnect
\* thread ends.
Raised(a) == IF a = Nobody THEN "leave" ELSE "gone"

\* A command that needs the adapter fails on an object that was closed meanwhile.
Usable(k, step) == step \in {"adapter", "loopback"} \/ "adapter" \in object[k].known

\* A reconnect is under way; main is on its way out.
Reconnecting == \E a \in Attempts : actor[a].pc \notin {"idle", "gone"}
Leaving == actor[Nobody].pc \in {"leave", "join", "close", "done"}

\* Where Ctrl-C finds the main program: in connect() or wait().
Interruptible == actor[Nobody].pc \notin {"idle", "leave", "join", "close", "done", "exited"}

NoTunnelYet == [step |-> 0, known |-> {}, active |-> FALSE]

\* Off the record: things made by a command that was not heard to work, things that were
\* to be removed and were not, and routes of the machine's own that were.
Strayed(unnoted, failing, removed) == astray' = astray \cup unnoted \cup failing \cup (before \cap removed)

\* _teardown of the object of attempt k, after a last command that was not heard to work.
Teardown(k, unnoted, failing) ==
    LET removed == Removed(object[k].known, failing)
    IN  /\ machine' = (machine \cup unnoted) \ removed
        /\ object' = [object EXCEPT ![k].known = {}, ![k].active = FALSE]
        /\ Strayed(unnoted, failing, removed)
        /\ UNCHANGED before

-----------------------------------------------------------------------------
\* _establish, by the main thread or a reconnect thread.

\* connect()
Connect ==
    /\ At(Nobody, "idle")
    /\ retries' = MaxRetries
    /\ Goto(Nobody, "try")
    /\ UNCHANGED <<events, sock, network, listed, thread, overtaken>>

\* Mutant of Try: one try too many.
TryOnceMore(a) ==
    /\ At(a, "try")
    /\ retries' = retries - 1
    /\ actor' = [actor EXCEPT ![a] = IF retries >= 0
                    THEN [pc |-> "dial", attempt |-> MaxRetries - retries + 1]
                    ELSE [@ EXCEPT !.pc = Raised(a)]]
    /\ UNCHANGED <<events, sock, network, listed, thread, overtaken>>

\* Mutant of Try: a try is not taken off the budget.
TryForFree(a) ==
    /\ At(a, "try")
    /\ actor' = [actor EXCEPT ![a] = [pc |-> "dial", attempt |-> MaxRetries - retries + 1]]
    /\ UNCHANGED <<events, retries, sock, network, listed, thread, overtaken>>

\* The head of the loop: one more try, or the end.
Try(a) ==
    /\ At(a, "try")
    /\ IF retries > 0
       THEN /\ retries' = retries - 1
            /\ actor' = [actor EXCEPT ![a] = [pc |-> "dial", attempt |-> MaxRetries - retries + 1]]
       ELSE /\ Goto(a, Raised(a))
            /\ UNCHANGED retries
    /\ UNCHANGED <<events, sock, network, listed, thread, overtaken>>

\* The handshake of _handshake_get_ip on its own socket: create_connection fails
\* (OSError) within ten seconds or succeeds.
Dial(a) ==
    /\ At(a, "dial")
    /\ \E place \in {"auth", "try"} : Goto(a, place)
    /\ UNCHANGED <<events, retries, sock, network, listed, thread, overtaken>>

\* _authenticate, then GET_IP: the answer is good, transient (a malformed packet;
\* GET_NEW_IP or ERROR to GET_IP: next try), or final (AUTH_FAILED or ERROR to the
\* authentication, a closed connection, another packet: it leaves _establish).  There
\* is no step for a server that does not answer: read_packet reads again after each
\* timeout of the socket.
Handshake(a) ==
    /\ \/ /\ At(a, "auth")
          /\ \E place \in {"getip", "try", Raised(a)} : Goto(a, place)
       \/ /\ At(a, "getip")
          /\ \E place \in {"tunnel", "try", Raised(a)} : Goto(a, place)
    /\ UNCHANGED <<events, retries, sock, network, listed, thread, overtaken>>

\* _bring_up_tunnel: a new Tunnel object,
NewTunnel(a) ==
    /\ At(a, "tunnel")
    /\ tunnel' = actor[a].attempt
    /\ object' = [object EXCEPT ![actor[a].attempt] = [NoTunnelYet EXCEPT !.step = 1]]
    /\ Goto(a, "create")
    /\ UNCHANGED <<events, retries, sock, machine, before, astray, listed, thread, overtaken>>

\* its create(), step by step.
CreateStep(a) ==
    LET k == actor[a].attempt
        step == CreateSteps[object[k].step]
        made == Made(machine, step)
        last == object[k].step = Len(CreateSteps)
    IN  /\ At(a, "create")
        /\ Usable(k, step)
        /\ machine' = machine \cup made
        /\ object' = [object EXCEPT ![k].known = @ \cup made, ![k].step = @ + 1, ![k].active = last]
        /\ Goto(a, IF last THEN "bypass" ELSE "create")
        /\ UNCHANGED <<events, retries, sock, tunnel, before, astray, listed, thread, overtaken>>

\* A step fails, perhaps after it worked: create() takes back what it has made and
\* raises.
CreateFails(a) ==
    LET k == actor[a].attempt
        step == CreateSteps[object[k].step]
    IN  /\ At(a, "create")
        /\ \E unnoted \in SUBSET (Elsewhere \cap Made(machine, step)),
              failing \in SUBSET (Elsewhere \cap object[k].known) : Teardown(k, unnoted, failing)
        /\ Goto(a, "undo")
        /\ UNCHANGED <<events, retries, sock, tunnel, listed, thread, overtaken>>

\* _add_server_bypass, which needs the default gateway create() has read.  Its first
\* command takes away any route to the server, and may fail unseen; the second adds the
\* bypass, which is noted at the end.
Rerouted(k, noted) ==
    /\ tunnel = k /\ object[k].active
    /\ \E removed \in {{}, ToServer}, added \in {{}, {"bypass"}} :
        /\ noted \subseteq added
        /\ machine' = (machine \ removed) \cup added
        /\ object' = [object EXCEPT ![k].known = @ \cup noted]
        /\ Strayed(added \ noted, {}, removed)
    /\ UNCHANGED before

\* add_bypass, whose failure is ignored.
AddBypass(a) ==
    /\ At(a, "bypass")
    /\ \/ \E noted \in {{}, {"bypass"}} : Rerouted(actor[a].attempt, noted)
       \/ UNCHANGED <<machine, object, before, astray>>
    /\ Goto(a, "redial")
    /\ UNCHANGED <<events, retries, sock, tunnel, listed, thread, overtaken>>

\* _open_data_connection: the data socket,
OpenData(a) ==
    /\ At(a, "redial")
    /\ \/ sock' = actor[a].attempt /\ Goto(a, "reauth")
       \/ Goto(a, "undo") /\ UNCHANGED sock
    /\ UNCHANGED <<events, retries, network, listed, thread, overtaken>>

\* authentication and announcement on it.
Announce(a) ==
    /\ At(a, "reauth")
    /\ \E place \in {"reset", "undo", "refused"} : Goto(a, place)
    /\ UNCHANGED <<events, retries, sock, network, listed, thread, overtaken>>

\* _close_socket and _close_tunnel, whatever they hold by now.
CloseTunnel ==
    IF tunnel = Nobody
    THEN UNCHANGED <<object, machine, before, astray>>
    ELSE \E failing \in SUBSET (Elsewhere \cap object[tunnel].known) : Teardown(tunnel, {}, failing)

\* The places that close both: after a transient failure of the data connection, after
\* its AuthError, before the first try of a reconnect, and at the end of disconnect().
AfterClose(a) == [undo |-> "try", refused |-> Raised(a),
                  close |-> IF a = Nobody THEN "done" ELSE "try"]

Close(a) ==
    /\ actor[a].pc \in DOMAIN AfterClose(a)
    /\ sock' = Nobody
    /\ tunnel' = Nobody
    /\ CloseTunnel
    /\ Goto(a, AfterClose(a)[actor[a].pc])
    /\ UNCHANGED <<events, retries, listed, thread, overtaken>>

\* _reset_state
Reset(a) ==
    /\ At(a, "reset")
    /\ stop' = FALSE
    /\ requested' = FALSE
    /\ Goto(a, "list")
    /\ UNCHANGED <<retries, sock, network, listed, thread, overtaken>>

\* _start_threads: the list first, then one thread after the other.
ListThreads(a) ==
    /\ At(a, "list")
    /\ listed' = {actor[a].attempt} \X Kinds
    /\ Goto(a, "send")
    /\ UNCHANGED <<events, retries, sock, network, thread, overtaken>>

AfterStart(a) == [send |-> "recv", recv |-> "keepalive",
                  keepalive |-> IF a = Nobody THEN "wait" ELSE "gone"]

StartThread(a) ==
    /\ actor[a].pc \in Kinds
    /\ thread' = [thread EXCEPT ![<<actor[a].attempt, actor[a].pc>>] = "loop"]
    /\ Goto(a, AfterStart(a)[actor[a].pc])
    /\ UNCHANGED <<events, retries, sock, network, listed, overtaken>>

-----------------------------------------------------------------------------
\* The threads of a session: _send_loop, _recv_loop, _keepalive_loop.

\* The test at the head of the loop.
Look(t) ==
    /\ thread[t] = "loop" /\ t[2] # "keepalive"
    /\ thread' = [thread EXCEPT ![t] = IF stop THEN "ending" ELSE "work"]
    /\ UNCHANGED <<events, retries, sock, network, listed, actor, overtaken>>

\* _keepalive_loop ends when it is told to stop or a frame cannot be sent; it leaves the
\* stop event alone, and between its ticks there is nothing to see.
KeepaliveEnds(t) ==
    /\ thread[t] = "loop" /\ t[2] = "keepalive"
    /\ thread' = [thread EXCEPT ![t] = "dead"]
    /\ UNCHANGED <<events, retries, sock, network, listed, actor, overtaken>>

\* One packet or one timeout; or an end: a failed send or read, an error of the
\* tunnel or the NAT, DISCONNECT or ERROR from the server.
Work(t) ==
    /\ thread[t] = "work"
    /\ \E next \in {"loop", "ending"} : thread' = [thread EXCEPT ![t] = next]
    /\ UNCHANGED <<events, retries, sock, network, listed, actor, overtaken>>

\* GET_NEW_IP: _request_reconnect, and the end of the receive loop.
NewAddressWanted(k) ==
    /\ thread[<<k, "recv">>] = "work"
    /\ thread' = [thread EXCEPT ![<<k, "recv">>] = "ending"]
    /\ requested' = TRUE
    /\ IF requested
       THEN UNCHANGED <<actor, overtaken>>
       ELSE /\ Goto(k, "stop")
            /\ overtaken' = (overtaken \/ Leaving)
    /\ UNCHANGED <<stop, retries, sock, network, listed>>

\* Mutant of Finally: a send or receive thread ends without a word to the others.
FinallyNothing(t) ==
    /\ thread[t] = "ending"
    /\ thread' = [thread EXCEPT ![t] = "dead"]
    /\ UNCHANGED <<events, retries, sock, network, listed, actor, overtaken>>

\* The `finally` of the send and the receive loop.
Finally(t) ==
    /\ thread[t] = "ending"
    /\ thread' = [thread EXCEPT ![t] = "dead"]
    /\ stop' = TRUE
    /\ UNCHANGED <<requested, retries, sock, network, listed, actor, overtaken>>

-----------------------------------------------------------------------------
\* wait, disconnect and _do_reconnect.

\* wait() returns when no listed thread is alive; Ctrl-C ends it, or connect(), between
\* any two steps.
Leave ==
    /\ \/ At(Nobody, "wait") /\ \A t \in listed : ~Alive(t)
       \/ Interruptible
    /\ Goto(Nobody, "leave")
    /\ overtaken' = (overtaken \/ Reconnecting)
    /\ UNCHANGED <<events, retries, sock, network, listed, thread>>

\* Ctrl-C when a command has just taken effect: nobody notes it.
LeaveUnnoted ==
    LET k == actor[Nobody].attempt
        step == CreateSteps[object[k].step]
        made == Made(machine, step) \cap NotedLater
    IN  /\ \/ /\ At(Nobody, "create")
              /\ Usable(k, step)
              /\ machine' = machine \cup made
              /\ Strayed(made, {}, {})
              /\ UNCHANGED <<object, before>>
           \/ At(Nobody, "bypass") /\ Rerouted(k, {})
        /\ Goto(Nobody, "leave")
        /\ overtaken' = (overtaken \/ Reconnecting)
        /\ UNCHANGED <<events, retries, sock, tunnel, listed, thread>>

\* Mutant of Disconnect: it returns early whenever the session has stopped by itself.
DisconnectUnlessStopped ==
    /\ At(Nobody, "leave")
    /\ IF stop
       THEN Goto(Nobody, "done") /\ UNCHANGED stop
       ELSE Goto(Nobody, "join") /\ stop' = TRUE
    /\ UNCHANGED <<requested, retries, sock, network, listed, thread, overtaken>>

\* disconnect(): nothing to do when it is stopped and there are no threads.
Disconnect ==
    /\ At(Nobody, "leave")
    /\ IF stop /\ listed = {}
       THEN Goto(Nobody, "done") /\ UNCHANGED stop
       ELSE Goto(Nobody, "join") /\ stop' = TRUE
    /\ UNCHANGED <<requested, retries, sock, network, listed, thread, overtaken>>

\* _do_reconnect
StopForReconnect(a) ==
    /\ At(a, "stop")
    /\ stop' = TRUE
    /\ Goto(a, "join")
    /\ UNCHANGED <<requested, retries, sock, network, listed, thread, overtaken>>

\* Mutant of Join: the threads are not waited for.
JoinNobody(a) ==
    /\ At(a, "join")
    /\ listed' = {t \in listed : Alive(t)}
    /\ Goto(a, "close")
    /\ UNCHANGED <<events, retries, sock, network, thread, overtaken>>

\* _join_threads waits for every listed thread that has started and not ended.  The
\* wait of five seconds never runs out: whatever a thread of a session waits for has
\* a timeout of a second or less.
Join(a) ==
    /\ At(a, "join")
    /\ \A t \in listed : ~Alive(t)
    /\ listed' = {}
    /\ Goto(a, "close")
    /\ UNCHANGED <<events, retries, sock, network, thread, overtaken>>

\* The main program ends, and with it the daemon threads.
Exit ==
    /\ At(Nobody, "done")
    /\ actor' = [a \in Actors |-> [actor[a] EXCEPT !.pc = "exited"]]
    /\ thread' = [t \in Threads |-> "dead"]
    /\ sock' = Nobody
    /\ tunnel' = Nobody
    /\ object' = [k \in Attempts |-> NoTunnelYet]
    /\ machine' = WithoutProcess(machine)
    /\ UNCHANGED <<events, retries, before, astray, listed, overtaken>>

-----------------------------------------------------------------------------

Init ==
    /\ stop = FALSE
    /\ requested = FALSE
    /\ retries = MaxRetries
    /\ sock = Nobody
    /\ tunnel = Nobody
    /\ object = [k \in Attempts |-> NoTunnelYet]
    /\ before \in Machines
    /\ machine = before
    /\ listed = {}
    /\ thread = [t \in Threads |-> "unborn"]
    /\ actor = [a \in Actors |-> [pc |-> "idle", attempt |-> Nobody]]
    /\ astray = {}
    /\ overtaken = FALSE

\* Steps a thread takes whatever the server does.
Establish(a) == Try(a) \/ Dial(a) \/ NewTunnel(a) \/ CreateStep(a) \/ CreateFails(a) \/ AddBypass(a)
    \/ OpenData(a) \/ Close(a) \/ Reset(a) \/ ListThreads(a) \/ StartThread(a)
    \/ StopForReconnect(a)
SessionStep(t) == Look(t) \/ Work(t) \/ KeepaliveEnds(t) \/ Finally(t)

Next ==
    \/ Connect \/ Leave \/ LeaveUnnoted \/ Disconnect \/ Exit
    \/ \E a \in Actors : Establish(a) \/ Handshake(a) \/ Announce(a) \/ Join(a)
    \/ \E t \in Threads : SessionStep(t)
    \/ \E k \in Attempts : NewAddressWanted(k)

Spec == Init /\ [][Next]_vars

\* A thread of the client goes on unless it waits for the server or the user: every
\* socket of a session has a timeout of a second, the tunnel one of half a second, a
\* command of PowerShell one of a minute, and create_connection one of ten seconds.
Fairness ==
    /\ \A a \in Actors : WF_vars(Establish(a) \/ Join(a) \/ (a = Nobody /\ Disconnect))
    /\ \A t \in Threads : WF_vars(Look(t) \/ Work(t) \/ Finally(t) \/ (stop /\ KeepaliveEnds(t)))

FairSpec == Spec /\ Fairness

-----------------------------------------------------------------------------

\* Where the client waits for an answer of the server.
Waiting(a) == actor[a].pc \in {"auth", "getip", "reauth"}

\* An actor between the end of one session and the start of the next.
Establishing(a) == actor[a].pc \in {"try", "dial", "auth", "getip", "tunnel", "create", "bypass",
                                    "redial", "reauth", "undo", "refused", "reset", "list", "send"}

Working(t) == Alive(t) /\ t[2] # "keepalive"

\* Types of the state; the attempts of all reconnects together stay within the budget
\* of one connect().
TypeOK ==
    /\ stop \in BOOLEAN /\ requested \in BOOLEAN
    /\ overtaken \in BOOLEAN
    /\ retries \in 0..MaxRetries
    /\ sock \in 0..MaxRetries /\ tunnel \in 0..MaxRetries
    /\ object \in [Attempts -> [step : 0..(Len(CreateSteps) + 1), known : SUBSET Things, active : BOOLEAN]]
    /\ machine \subseteq Things \cup Own /\ before \subseteq Own /\ astray \subseteq Things \cup Own
    /\ listed \subseteq Threads
    /\ thread \in [Threads -> {"unborn", "loop", "work", "ending", "dead"}]
    /\ actor \in [Actors -> [pc : {"idle", "wait", "leave", "stop", "join", "close", "done", "gone",
                                   "recv", "keepalive", "exited", "try", "dial", "auth", "getip",
                                   "tunnel", "create", "bypass", "redial", "reauth", "undo",
                                   "refused", "reset", "list", "send"},
                             attempt : 0..MaxRetries]]

\* The send and receive threads of two sessions are never alive together, and none is
\* while the next session is being made: their `finally` sets the one stop event and
\* would end the new session.  Unless disconnect() ran into a reconnect and
\* forgot threads that were not started yet.
SessionsDoNotMix == overtaken \/ \A t \in Threads : Working(t) =>
    /\ \A u \in Threads : Working(u) => u[1] = t[1]
    /\ \A a \in Actors : Establishing(a) => actor[a].pc = "send" /\ actor[a].attempt = t[1]

\* A thread that uses the socket, the NAT and the tunnel finds those of its own
\* session: they are closed only when the threads have ended.
ThreadsHaveResources == overtaken \/ \A t \in Threads :
    thread[t] = "work" /\ t[2] # "keepalive" => sock = t[1] /\ tunnel = t[1]

\* When disconnect() returns there is no socket, no tunnel and no thread, whether the
\* session ended by itself, by Ctrl-C, or connect() failed half way; unless it met a
\* reconnect, which goes on behind its back.
NothingLeftOpen == At(Nobody, "done") /\ ~overtaken =>
    sock = Nobody /\ tunnel = Nobody /\ \A t \in Threads : ~Working(t)

\* Everything by which the network of the machine differs from what it was before
\* connect() is known to the open Tunnel object, which takes it back, or went astray: the
\* command that made it failed or was interrupted after it worked, its removal failed, or
\* it was the machine's own route to the server, which the bypass replaces.  One thing
\* that went astray leaves the others on record.  Unless the process ended in a reconnect.
MachineOnRecord == overtaken \/
    (machine \ before) \cup (before \ machine)
        \subseteq astray \cup (IF tunnel = Nobody THEN {} ELSE object[tunnel].known)

\* connect() and a reconnect come to an end, unless the server is silent: no
\* timeout ends the wait for an answer of the handshake.
HangsOnlyOnSilence == \A a \in Actors : Establishing(a) ~> ~Establishing(a) \/ []Waiting(a)

\* When the send or the receive thread of a session ends, for whatever reason, the
\* other one ends too.
SessionEndsWhole == \A k \in Attempts :
    (\E kind \in {"send", "recv"} : thread[<<k, kind>>] \in {"ending", "dead"}) ~>
        overtaken \/ \A t \in {k} \X Kinds : ~Working(t)

=============================================================================
