------------------------------- MODULE Services -------------------------------
(***************************************************************************)
(* The two services from outside: for each the control script              *)
(* (control/common/common.py with {client,server}/start.py), the main      *)
(* thread of the process it starts (client_main.cpp, server_main.cpp) with *)
(* its Context, its tunnel device (tun_ctl.cpp), and the connections that  *)
(* the client's loop makes and the server's loop accepts.  What flows on a *)
(* connection is the subject of module TunnelFrameStream; here an end of   *)
(* it is open while its socket's task runs.                                *)
(***************************************************************************)
EXTENDS Naturals, Sequences, FiniteSets

CONSTANTS
  NumInterfaces,  \* _ctx.interfaces.size()
  Backlog,        \* connections the kernel completes that wait for accept()
  MaxStarts,      \* bound: service -> times its script is run
  MaxKills,       \* bound: processes ended by a signal
  MaxRefusals,    \* bound: connections refused on the way to a listening server
  None

ASSUME InterfacesAssumption == NumInterfaces \in Nat \ {0}
ASSUME BacklogAssumption == Backlog \in Nat
ASSUME StartsAssumption ==
  /\ MaxStarts \in [{"client", "server"} -> Nat]
  /\ MaxKills \in Nat /\ MaxRefusals \in Nat
ASSUME NoneAssumption ==
  None \notin Nat \cup {"ready", "other", "connecting", "sleeping", "waiting",
                       "listen", "accept"}

VARIABLES
  script,     \* service -> where its start_service_and_wait is
  process,    \* service -> where main() is
  firstLine,  \* service -> the first line on the pipe from the process
  device,     \* service -> its tunnel interface
  exitCode,   \* service -> Context::_exitCode
  loop,       \* service -> where runConnectToServerLoop, runAcceptConnectionLoop is
  upNext,     \* the position of the client's loop in _ctx.interfaces
  listening,  \* does the kernel complete connections to the server's port?
  conns,      \* the connections that have an end which is not closed, in order
  connected,  \* history: interfaces connected since the last refusal
  starts,     \* history: service -> times its script was run
  kills,      \* history: processes ended by a signal
  refusals    \* history: connections refused although the server listened

scriptVars == <<script, starts>>
netVars == <<listening, conns>>
historyVars == <<connected, kills, refusals>>
vars == <<script, process, firstLine, device, exitCode, loop, upNext, listening,
          conns, connected, starts, kills, refusals>>

Services == {"client", "server"}

Other(s) == IF s = "client" THEN "server" ELSE "client"

Interfaces == 1..NumInterfaces

\* The script is not running: never started, failed, or done.
Over == {"idle", "failed", "done"}

Configuring == {"linkUp", "configure"}

ScriptStates == {"preConfigure", "spawn", "readLine", "kill", "reap", "waiting"}
                \cup Over \cup Configuring

\* main(): start(), TunCtl, resolving or binding, signalReady, the loop, the
\* destructors of clientMain, waitForExit.
ProcessStates == {"none", "options", "device", "peer", "ready", "main",
                  "leaving", "exiting", "ended"}

Running(s) == process[s] \notin {"none", "ended"}

-----------------------------------------------------------------------------
(* The connections.                                                        *)

Connections == [intf : Interfaces, client : {"open", "closed"},
                server : {"pending", "open", "closed"}]

\* Nothing is left of a connection that both ends have closed.
Left(cs) ==
  LET left[i \in 0..Len(cs)] ==
        IF i = 0 THEN <<>>
        ELSE IF {cs[i].client, cs[i].server} = {"closed"} THEN left[i - 1]
        ELSE Append(left[i - 1], cs[i])
  IN  left[Len(cs)]

CloseEnd(k, s) == conns' = Left([conns EXCEPT ![k][s] = "closed"])

\* The ends of a process that ends; pending ones are reset by the kernel.
CloseEnds(s) ==
  conns' = Left([k \in DOMAIN conns |-> [conns[k] EXCEPT ![s] = "closed"]])

Pending == {k \in DOMAIN conns : conns[k].server = "pending"}

-----------------------------------------------------------------------------
(* The control script.                                                     *)

Goes(s, to) == script' = [script EXCEPT ![s] = to]

ProcessUntouched == UNCHANGED <<process, firstLine, exitCode, loop, upNext>>

Start(s) ==
  /\ script[s] \in Over
  /\ starts[s] < MaxStarts[s]
  /\ starts' = [starts EXCEPT ![s] = @ + 1]
  /\ Goes(s, "preConfigure")
  /\ process' = [process EXCEPT ![s] = "none"]
  /\ firstLine' = [firstLine EXCEPT ![s] = None]
  /\ UNCHANGED <<device, exitCode, loop, upNext, netVars, historyVars>>

\* The server's looks for the NAT rule and raises when there is none.
PreConfigure(s) ==
  /\ script[s] = "preConfigure"
  /\ Goes(s, "spawn") \/ (s = "server" /\ Goes(s, "failed"))
  /\ ProcessUntouched
  /\ UNCHANGED <<device, netVars, starts, historyVars>>

Spawn(s) ==
  /\ script[s] = "spawn"
  /\ Goes(s, "readLine")
  /\ process' = [process EXCEPT ![s] = "options"]
  /\ exitCode' = [exitCode EXCEPT ![s] = None]
  /\ UNCHANGED <<firstLine, device, loop, upNext, netVars, starts, historyVars>>

\* What the first line leads to, None being the end of the output; and when
\* only the end of the output is taken for a failure.
AnyLine(line) == IF line = None THEN "kill" ELSE "linkUp"

AfterFirstLine(line) == IF line = "ready" THEN "linkUp" ELSE "kill"

ReadLine(s) ==
  /\ script[s] = "readLine"
  /\ firstLine[s] # None \/ process[s] = "ended"
  /\ Goes(s, AfterFirstLine(firstLine[s]))
  /\ ProcessUntouched
  /\ UNCHANGED <<device, netVars, starts, historyVars>>

\* (Of a process that has ended already, kill() may raise: to the same effect.)
Kill(s) ==
  /\ script[s] = "kill"
  /\ Goes(s, "reap")
  /\ ProcessUntouched
  /\ UNCHANGED <<device, netVars, starts, historyVars>>

\* It waits for the process it has killed; and when it does not.
NotAwaited(s) == script[s] = "reap"

Reaped(s) == script[s] = "reap" /\ process[s] = "ended"

Raise(s) ==
  /\ Reaped(s)
  /\ Goes(s, "failed")
  /\ ProcessUntouched
  /\ UNCHANGED <<device, netVars, starts, historyVars>>

\* `ip link set ... up`, whose failure is not looked at.
LinkUp(s) ==
  /\ script[s] = "linkUp"
  /\ Goes(s, "configure")
  /\ device' = [device EXCEPT ![s] = IF @ = "down" THEN "up" ELSE @]
  /\ ProcessUntouched
  /\ UNCHANGED <<netVars, starts, historyVars>>

\* The address, and the client's route: of no consequence to the processes.
Configure(s) ==
  /\ script[s] = "configure"
  /\ Goes(s, "waiting")
  /\ ProcessUntouched
  /\ UNCHANGED <<device, netVars, starts, historyVars>>

ServiceEnded(s) ==
  /\ script[s] = "waiting"
  /\ process[s] = "ended"
  /\ Goes(s, "done")
  /\ ProcessUntouched
  /\ UNCHANGED <<device, netVars, starts, historyVars>>

ScriptStep(s) ==
  \/ PreConfigure(s) \/ Spawn(s) \/ ReadLine(s) \/ Kill(s) \/ Raise(s)
  \/ LinkUp(s) \/ Configure(s) \/ ServiceEnded(s)

-----------------------------------------------------------------------------
(* The process up to its loop.                                             *)

\* main() returns, or the kernel ends the process: the device goes with its
\* queues, and its sockets are closed.
Ends(s) ==
  /\ process' = [process EXCEPT ![s] = "ended"]
  /\ device' = [device EXCEPT ![s] = "absent"]
  /\ loop' = [loop EXCEPT ![s] = None]
  /\ listening' = (listening /\ s # "server")
  /\ CloseEnds(s)
  /\ UNCHANGED upNext

Moves(s, to) ==
  /\ process' = [process EXCEPT ![s] = to]
  /\ UNCHANGED <<loop, upNext, netVars>>

Prints(s, line) ==
  firstLine' = [firstLine EXCEPT ![s] = IF @ = None THEN line ELSE @]

\* Context::exit: only the first call counts.
Exit(s, code) == exitCode' = [exitCode EXCEPT ![s] = IF @ = None THEN code ELSE @]

\* Context::start: prints the options; throws; sets logging to the console up,
\* where the construction of the commands server is the first to log; or to a
\* file.
StartContext(s) ==
  /\ process[s] = "options"
  /\ \/ Prints(s, "other") /\ Exit(s, 1) /\ Moves(s, "exiting") /\ UNCHANGED device
     \/ Prints(s, "other") /\ Ends(s) /\ UNCHANGED exitCode
     \/ Prints(s, "other") /\ Moves(s, "device") /\ UNCHANGED <<device, exitCode>>
     \/ Moves(s, "device") /\ UNCHANGED <<firstLine, device, exitCode>>
  /\ UNCHANGED <<scriptVars, historyVars>>

\* TunCtl attaches one queue after the other: all of them, or it throws and
\* those that it has attached are closed.
MakeDevice(s) ==
  /\ process[s] = "device"
  /\ \/ Moves(s, "peer") /\ device' = [device EXCEPT ![s] = "down"]
     \/ Ends(s)
  /\ UNCHANGED <<firstLine, exitCode, scriptVars, historyVars>>

\* The client resolves the server's name, the server binds its port.
ReachPeer(s) ==
  /\ process[s] = "peer"
  /\ \/ Moves(s, "ready") /\ UNCHANGED device
     \/ Ends(s)
  /\ UNCHANGED <<firstLine, exitCode, scriptVars, historyVars>>

SignalReady(s) ==
  /\ process[s] = "ready"
  /\ Prints(s, "ready")
  /\ process' = [process EXCEPT ![s] = "main"]
  /\ loop' = [loop EXCEPT ![s] = IF s = "client" THEN "connecting" ELSE "listen"]
  /\ IF s = "client" THEN upNext' = 1 /\ connected' = {}
                     ELSE UNCHANGED <<upNext, connected>>
  /\ UNCHANGED <<device, exitCode, netVars, scriptVars, kills, refusals>>

-----------------------------------------------------------------------------
(* runConnectToServerLoop.                                                 *)

Connecting == process["client"] = "main" /\ loop["client"] = "connecting"

ClientLoop(to) ==
  /\ loop' = [loop EXCEPT !["client"] = to]
  /\ UNCHANGED <<process, firstLine, device, exitCode, scriptVars>>

\* What the loop does when interface i is connected; and when it runs past the
\* last.
PastTheLast(i) == IF i > NumInterfaces THEN "waiting" ELSE "connecting"

AfterConnected(i) == IF i = NumInterfaces THEN "waiting" ELSE "connecting"

\* The kernel completes the connection, and its end is handed to addSocket.
Connect ==
  /\ Connecting
  /\ listening
  /\ Cardinality(Pending) <= Backlog
  /\ conns' = Append(conns, [intf |-> upNext, client |-> "open", server |-> "pending"])
  /\ connected' = connected \cup {upNext}
  /\ upNext' = upNext + 1
  /\ ClientLoop(AfterConnected(upNext))
  /\ UNCHANGED <<listening, kills, refusals>>

\* No one listens, or something on this interface's way refuses: after a sleep
\* the loop begins anew, with the interfaces that are connected too; and when
\* it goes on to wait.
NotRetried == "waiting"

AfterRefusal == "sleeping"

Refused ==
  /\ Connecting
  /\ IF listening THEN refusals < MaxRefusals /\ refusals' = refusals + 1
                  ELSE UNCHANGED refusals
  /\ connected' = {}
  /\ ClientLoop(AfterRefusal)
  /\ UNCHANGED <<upNext, netVars, kills>>

Retry ==
  /\ process["client"] = "main" /\ loop["client"] = "sleeping"
  /\ ClientLoop("connecting")
  /\ upNext' = 1
  /\ UNCHANGED <<netVars, historyVars>>

\* Any other error: no address on the interface, no answer, no route.
GiveUp ==
  /\ Connecting
  /\ Exit("client", 1)
  /\ process' = [process EXCEPT !["client"] = "leaving"]
  /\ loop' = [loop EXCEPT !["client"] = None]
  /\ UNCHANGED <<firstLine, device, upNext, netVars, scriptVars, historyVars>>

\* The destructors: that of SocketProducerConsumer joins the sockets' tasks.
\* (From loop = "waiting" it is not reached: nothing else calls exit.)
Leave ==
  /\ process["client"] = "leaving"
  /\ \A k \in DOMAIN conns : conns[k].client = "closed"
  /\ Moves("client", "exiting")
  /\ device' = [device EXCEPT !["client"] = "absent"]
  /\ UNCHANGED <<firstLine, exitCode, scriptVars, historyVars>>

\* waitForExit returns in main().
WaitForExit(s) ==
  /\ process[s] = "exiting"
  /\ exitCode[s] # None
  /\ Ends(s)
  /\ UNCHANGED <<firstLine, exitCode, scriptVars, historyVars>>

-----------------------------------------------------------------------------
(* runAcceptConnectionLoop.                                                *)

ServerLoop(from, to) ==
  /\ process["server"] = "main" /\ loop["server"] = from
  /\ loop' = [loop EXCEPT !["server"] = to]
  /\ UNCHANGED <<process, firstLine, device, exitCode, upNext, scriptVars,
                 historyVars>>

Listen == ServerLoop("listen", "accept") /\ listening' = TRUE /\ UNCHANGED conns

ListenFails == ServerLoop("listen", "sleeping") /\ UNCHANGED netVars

ListenAgain == ServerLoop("sleeping", "listen") /\ UNCHANGED netVars

\* accept() takes the first that waits, and its end is handed to addSocket.
Accept ==
  /\ ServerLoop("accept", "listen")
  /\ \E k \in Pending :
       /\ \A j \in Pending : k <= j
       /\ conns' = Left([conns EXCEPT ![k].server = "open"])
  /\ UNCHANGED listening

AcceptFails == ServerLoop("accept", "listen") /\ UNCHANGED netVars

ProcessStep(s) ==
  \/ StartContext(s) \/ MakeDevice(s) \/ ReachPeer(s) \/ SignalReady(s)
  \/ s = "client" /\ (Connect \/ Refused \/ Retry \/ GiveUp \/ Leave)
  \/ s = "server" /\ (Listen \/ ListenFails \/ ListenAgain \/ Accept \/ AcceptFails)
  \/ WaitForExit(s)

-----------------------------------------------------------------------------
(* The sockets' tasks, and the kernel.                                     *)

SocketsOnly ==
  UNCHANGED <<scriptVars, process, firstLine, device, exitCode, loop, upNext,
              listening, historyVars>>

\* The other end is closed: receive() throws.
PeerClosed(k, s) ==
  /\ conns[k][s] = "open" /\ conns[k][Other(s)] = "closed"
  /\ CloseEnd(k, s)
  /\ SocketsOnly

\* A frame comes, and its datagrams cannot be written because the device is not
\* up (yet), or the receive loop finds itself interrupted by the destructor.  The
\* connection is not made again.
DeliveryFails(k, s) ==
  /\ conns[k].client = "open" /\ conns[k].server = "open"
  /\ device[s] # "up" \/ process[s] = "leaving"
  /\ CloseEnd(k, s)
  /\ SocketsOnly

\* The signal the script has sent arrives.
Killed(s) ==
  /\ script[s] = "reap" /\ Running(s)
  /\ Ends(s)
  /\ UNCHANGED <<firstLine, exitCode, scriptVars, historyVars>>

\* A signal of someone else, or a failed assertion.
Crash(s) ==
  /\ process[s] \in {"main", "leaving"}
  /\ kills < MaxKills
  /\ kills' = kills + 1
  /\ Ends(s)
  /\ UNCHANGED <<firstLine, exitCode, scriptVars, connected, refusals>>

-----------------------------------------------------------------------------

Init ==
  /\ script = [s \in Services |-> "idle"]
  /\ process = [s \in Services |-> "none"]
  /\ firstLine = [s \in Services |-> None]
  /\ device = [s \in Services |-> "absent"]
  /\ exitCode = [s \in Services |-> None]
  /\ loop = [s \in Services |-> None]
  /\ upNext = 1
  /\ listening = FALSE
  /\ conns = <<>>
  /\ connected = {}
  /\ starts = [s \in Services |-> 0]
  /\ kills = 0
  /\ refusals = 0

Next ==
  \E s \in Services :
    \/ Start(s) \/ ScriptStep(s) \/ ProcessStep(s) \/ Killed(s) \/ Crash(s)
    \/ \E k \in DOMAIN conns : PeerClosed(k, s) \/ DeliveryFails(k, s)

\* Scripts and threads run on and system calls return, one way or another;
\* nobody need start a script, and no peer need send.
Fairness ==
  \A s \in Services :
    /\ WF_vars(ScriptStep(s))
    /\ WF_vars(ProcessStep(s))
    /\ WF_vars(Killed(s))
    /\ WF_vars(\E k \in DOMAIN conns : PeerClosed(k, s))

Spec == Init /\ [][Next]_vars

FairSpec == Spec /\ Fairness

-----------------------------------------------------------------------------
(* What must hold.                                                         *)

\* Every variable keeps its type.
TypeOK ==
  /\ script \in [Services -> ScriptStates]
  /\ process \in [Services -> ProcessStates]
  /\ firstLine \in [Services -> {None, "ready", "other"}]
  /\ device \in [Services -> {"absent", "down", "up"}]
  /\ exitCode \in [Services -> Nat \cup {None}]
  /\ loop \in [Services -> {None, "connecting", "sleeping", "waiting", "listen",
                            "accept"}]
  /\ upNext \in 1..(NumInterfaces + 1)
  /\ listening \in BOOLEAN
  /\ conns \in Seq(Connections)
  /\ connected \subseteq Interfaces
  /\ starts \in [Services -> Nat]
  /\ kills \in Nat
  /\ refusals \in Nat

\* A script that is over leaves no process behind, so that the next one finds
\* the device and the port free.
NoOrphan == \A s \in Services : script[s] \in Over => ~ Running(s)

\* The network is configured when the process has made its device and is about
\* to serve it, not before and not for a process that failed to start.
ConfiguredWhenMade ==
  \A s \in Services :
    /\ script[s] \in Configuring \cup {"waiting"} =>
         /\ process[s] \in {"main", "leaving", "exiting", "ended"}
         /\ process[s] \in {"main", "leaving"} => device[s] # "absent"
    /\ device[s] = "up" => script[s] \in {"configure", "waiting"}

ScriptKeepsOrder == NoOrphan /\ ConfiguredWhenMade

\* A script comes to an end, or to wait for a process that runs.
ScriptsSettle ==
  \A s \in Services :
    []<>(script[s] \in Over \/ (script[s] = "waiting" /\ process[s] # "ended"))

\* If the server comes to stay, a client that runs has connected all of its
\* interfaces since it was last refused, or gives up.
ClientConnects ==
  <>[]listening =>
    []<>(\/ process["client"] \in {"none", "leaving", "exiting", "ended"}
         \/ loop["client"] = "waiting" /\ connected = Interfaces)

\* A client that gives up is held up only by the other ends of its connections.
GivesUp ==
  []<>(process["client"] = "leaving" =>
         \E k \in DOMAIN conns : conns[k].client = "open" /\ conns[k].server # "closed")

ServicesSettle == ScriptsSettle /\ ClientConnects /\ GivesUp
=============================================================================
