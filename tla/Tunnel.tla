-------------------------------- MODULE Tunnel --------------------------------
(***************************************************************************)
(* The Windows tunnel of Client/Tunnel.py as operators: what create,       *)
(* add_bypass and close change on the machine, and what a Tunnel object    *)
(* remembers of it.  The machine is a set of things that are there; a      *)
(* Tunnel object knows a set of things it has made.  The two may part: a   *)
(* command of PowerShell is killed after 60 seconds (_ps), before or after *)
(* it took effect, and its exception looks the same; and a command may     *)
(* take away what the object never made.                                   *)
(***************************************************************************)
EXTENDS Naturals

\* "adapter": the Wintun adapter with its interface index and session; "redirect": the
\* address, the metric and the two redirect routes, which are settings of the adapter
\* and go with it; "loopback" and "bypass": routes on other interfaces.
OnAdapter == {"adapter", "redirect"}
Elsewhere == {"loopback", "bypass"}
Things == OnAdapter \cup Elsewhere

\* Routes the machine may have had before: to 127.0.0.0/8, and to the server alone (/32).
SystemLoopback == "system loopback"
SystemRoute == "system route"
Own == {SystemLoopback, SystemRoute}

\* What a Get-NetRoute for the server's address finds: whoever made it.
ToServer == {SystemRoute, "bypass"}

\* What is made in one moment and noted in the next.  The redirect routes are taken back
\* whether they were noted or not.
NotedLater == {"adapter"} \cup Elsewhere

\* create(), in order.
CreateSteps == <<"adapter", "redirect", "loopback">>

\* _exclude_loopback: a machine that has the route keeps it, and the object does
\* not take it for its own.
Skipped(machine, step) ==
    step = "loopback" /\ {SystemLoopback, "loopback"} \cap machine # {}

\* What the step adds to the machine, and to the object when it succeeds.
Made(machine, step) == IF Skipped(machine, step) THEN {} ELSE {step}

\* Mutant of Removed: close() relies on the adapter to take its routes with it.
RemovedWithAdapter(known, failing) == IF "adapter" \in known THEN OnAdapter ELSE {}

\* _teardown: each step that takes back a route or the address may fail on its own
\* (`failing`) and the next is still done; the bypass goes with any other route to the
\* server; without an interface index there is no route yet; the end of the session and
\* of the adapter takes what hangs on it.
Removed(known, failing) ==
    IF "adapter" \in known
    THEN (known \ failing) \cup OnAdapter \cup {r \in ToServer : "bypass" \in known \ failing}
    ELSE {}

\* The process is gone: Windows closes the adapter, the other routes stay.
WithoutProcess(machine) == machine \ OnAdapter

=============================================================================
