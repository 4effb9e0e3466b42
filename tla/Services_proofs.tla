---------------------------- MODULE Services_proofs ----------------------------
(***************************************************************************)
(* Proofs about Services: the control scripts keep the order of their      *)
(* processes, for every number of interfaces, starts, kills and refusals.  *)
(***************************************************************************)
EXTENDS Services, WellFoundedInduction, TLAPS

USE NoneAssumption

-----------------------------------------------------------------------------
(* The invariant.                                                          *)

Reached == {"main", "leaving", "exiting", "ended"}

Typed ==
  /\ script \in [Services -> ScriptStates]
  /\ process \in [Services -> ProcessStates]
  /\ firstLine \in [Services -> {None, "ready", "other"}]
  /\ device \in [Services -> {"absent", "down", "up"}]

\* Between two runs, and up to the spawn of the next, there is no process.
NoProcess(s) ==
  /\ script[s] \in Over \cup {"preConfigure", "spawn"} => ~ Running(s)
  /\ script[s] \in {"preConfigure", "spawn"} => firstLine[s] = None

\* Only a process that has reached its loop has printed the line, and only when
\* it is printed does the script go on to configure.
LineOfReady(s) ==
  /\ firstLine[s] = "ready" => process[s] \in Reached
  /\ script[s] \in Configuring \cup {"waiting"} => process[s] \in Reached

\* The device is there from its making to the end of its process.
DeviceOfProcess(s) ==
  /\ device[s] # "absent" <=> process[s] \in {"peer", "ready", "main", "leaving"}
  /\ device[s] = "up" => script[s] \in {"configure", "waiting"}

KeepsOrder(s) == NoProcess(s) /\ LineOfReady(s) /\ DeviceOfProcess(s)

Inv == Typed /\ \A s \in Services : KeepsOrder(s)

LEMMA InvImplies == Inv => ScriptKeepsOrder
<1> SUFFICES ASSUME Inv PROVE ScriptKeepsOrder
  OBVIOUS
<1>1. NoOrphan
  BY DEF NoOrphan, Inv, KeepsOrder, NoProcess
<1>2. ConfiguredWhenMade
  BY DEF ConfiguredWhenMade, Inv, KeepsOrder, LineOfReady, DeviceOfProcess, Reached
<1> QED
  BY <1>1, <1>2 DEF ScriptKeepsOrder

LEMMA InitInv == Init => Inv
  BY DEF Init, Inv, Typed, KeepsOrder, NoProcess, LineOfReady, DeviceOfProcess,
         Running, Over, Configuring, ScriptStates, ProcessStates, Reached

-----------------------------------------------------------------------------
(* A step of a service: what it may do to its own four variables.          *)

\* The other service's are not disturbed.
Only(s) ==
  \A t \in Services \ {s} :
    /\ script'[t] = script[t] /\ process'[t] = process[t]
    /\ firstLine'[t] = firstLine[t] /\ device'[t] = device[t]

Keeps(s) ==
  /\ Typed'
  /\ Only(s)
  /\ script'[s] \in Over \cup {"preConfigure", "spawn"} => process'[s] \in {"none", "ended"}
  /\ script'[s] \in {"preConfigure", "spawn"} => firstLine'[s] = None
  /\ firstLine'[s] = "ready" => process'[s] \in Reached
  /\ script'[s] \in Configuring \cup {"waiting"} => process'[s] \in Reached
  /\ device'[s] # "absent" <=> process'[s] \in {"peer", "ready", "main", "leaving"}
  /\ device'[s] = "up" => script'[s] \in {"configure", "waiting"}

LEMMA KeepsInv ==
  ASSUME Inv, NEW s \in Services, Keeps(s)
  PROVE  Inv'
<1>1. \A t \in Services : KeepsOrder(t)'
  <2> TAKE t \in Services
  <2>1. CASE t = s
    BY <2>1 DEF Keeps, KeepsOrder, NoProcess, LineOfReady, DeviceOfProcess, Running
  <2>2. CASE t # s
    BY <2>2 DEF Keeps, Only, Inv, KeepsOrder, NoProcess, LineOfReady,
                DeviceOfProcess, Running
  <2> QED
    BY <2>1, <2>2
<1> QED
  BY <1>1 DEF Inv, Keeps

LEMMA ScriptKeeps ==
  ASSUME Inv, NEW s \in Services, Start(s) \/ ScriptStep(s)
  PROVE  Keeps(s)
<1> USE DEF Inv, Typed, KeepsOrder, NoProcess, LineOfReady, DeviceOfProcess,
            Running, Over, Configuring, ScriptStates, ProcessStates, Reached,
            Keeps, Only, Goes, ProcessUntouched
<1>1. CASE Start(s)
  BY <1>1 DEF Start
<1>2. CASE PreConfigure(s)
  BY <1>2 DEF PreConfigure
<1>3. CASE Spawn(s)
  BY <1>3 DEF Spawn
<1>4. CASE ReadLine(s)
  BY <1>4 DEF ReadLine, AfterFirstLine
<1>5. CASE Kill(s)
  BY <1>5 DEF Kill
<1>6. CASE Raise(s)
  BY <1>6 DEF Raise, Reaped
<1>7. CASE LinkUp(s)
  BY <1>7 DEF LinkUp
<1>8. CASE Configure(s)
  BY <1>8 DEF Configure
<1>9. CASE ServiceEnded(s)
  BY <1>9 DEF ServiceEnded
<1> QED
  BY <1>1, <1>2, <1>3, <1>4, <1>5, <1>6, <1>7, <1>8, <1>9 DEF ScriptStep

\* What the end of a process, from whichever state it runs in, does to them.
LEMMA EndKeeps ==
  ASSUME Inv, NEW s \in Services, Ends(s), Running(s), script' = script,
         Prints(s, "other") \/ firstLine' = firstLine,
         firstLine'[s] = "ready" => firstLine[s] = "ready"
  PROVE  Keeps(s)
<1> USE DEF Inv, Typed, KeepsOrder, NoProcess, LineOfReady, DeviceOfProcess,
            Running, Over, Configuring, ScriptStates, ProcessStates, Reached
<1>1. /\ process' \in [Services -> ProcessStates]
      /\ device' \in [Services -> {"absent", "down", "up"}]
      /\ process'[s] = "ended" /\ device'[s] = "absent"
  BY DEF Ends
<1>2. firstLine' \in [Services -> {None, "ready", "other"}]
  BY DEF Prints
<1>3. Only(s)
  BY DEF Only, Ends, Prints
<1> QED
  BY <1>1, <1>2, <1>3 DEF Keeps

LEMMA ProcessKeeps ==
  ASSUME Inv, NEW s \in Services, ProcessStep(s) \/ Killed(s) \/ Crash(s)
  PROVE  Keeps(s)
<1> USE DEF scriptVars, historyVars, netVars
<1>1. CASE StartContext(s)
  <2>1. CASE Ends(s)
    <3>1. script' = script /\ Running(s)
      BY <1>1 DEF StartContext, Running
    <3>2. firstLine'[s] = "ready" => firstLine[s] = "ready"
      BY <1>1, <2>1 DEF StartContext, Prints, Inv, Typed, Ends, Moves
    <3> QED
      BY <1>1, <2>1, <3>1, <3>2, EndKeeps DEF StartContext
  <2>2. CASE ~ Ends(s)
    BY <1>1, <2>2 DEF StartContext, Prints, Moves, Exit, Inv, Typed, KeepsOrder, NoProcess,
          LineOfReady, DeviceOfProcess, Running, Over, Configuring, ScriptStates,
          ProcessStates, Reached, Keeps, Only
  <2> QED
    BY <2>1, <2>2
<1>2. CASE MakeDevice(s)
  <2>1. CASE Ends(s)
    BY <1>2, <2>1, EndKeeps DEF MakeDevice, Running
  <2>2. CASE ~ Ends(s)
    BY <1>2, <2>2 DEF MakeDevice, Moves, Inv, Typed, KeepsOrder, NoProcess,
          LineOfReady, DeviceOfProcess, Running, Over, Configuring, ScriptStates,
          ProcessStates, Reached, Keeps, Only
  <2> QED
    BY <2>1, <2>2
<1>3. CASE ReachPeer(s)
  <2>1. CASE Ends(s)
    BY <1>3, <2>1, EndKeeps DEF ReachPeer, Running
  <2>2. CASE ~ Ends(s)
    BY <1>3, <2>2 DEF ReachPeer, Moves, Inv, Typed, KeepsOrder, NoProcess,
          LineOfReady, DeviceOfProcess, Running, Over, Configuring, ScriptStates,
          ProcessStates, Reached, Keeps, Only
  <2> QED
    BY <2>1, <2>2
<1>4. CASE SignalReady(s)
  BY <1>4 DEF SignalReady, Prints, Inv, Typed, KeepsOrder, NoProcess,
        LineOfReady, DeviceOfProcess, Running, Over, Configuring, ScriptStates,
        ProcessStates, Reached, Keeps, Only
<1>5. CASE s = "client" /\ (Connect \/ Refused \/ Retry)
  <2>1. UNCHANGED <<script, process, firstLine, device>>
    BY <1>5 DEF Connect, Refused, Retry, ClientLoop
  <2> QED
    BY <2>1 DEF Inv, Typed, KeepsOrder, NoProcess, LineOfReady, DeviceOfProcess,
          Running, Keeps, Only
<1>6. CASE s = "client" /\ (GiveUp \/ Leave)
  BY <1>6 DEF GiveUp, Leave, Connecting, Moves, Inv, Typed, KeepsOrder, NoProcess,
        LineOfReady, DeviceOfProcess, Running, Over, Configuring, ScriptStates,
        ProcessStates, Reached, Keeps, Only
<1>7. CASE s = "server" /\ (Listen \/ ListenFails \/ ListenAgain \/ Accept \/ AcceptFails)
  <2>1. UNCHANGED <<script, process, firstLine, device>>
    BY <1>7 DEF Listen, ListenFails, ListenAgain, Accept, AcceptFails, ServerLoop
  <2> QED
    BY <2>1 DEF Inv, Typed, KeepsOrder, NoProcess, LineOfReady, DeviceOfProcess,
          Running, Keeps, Only
<1>8. CASE WaitForExit(s) \/ Killed(s) \/ Crash(s)
  <2>1. Ends(s) /\ Running(s) /\ script' = script /\ firstLine' = firstLine
    BY <1>8 DEF WaitForExit, Killed, Crash, Running
  <2> QED
    BY <2>1, EndKeeps
<1> QED
  BY <1>1, <1>2, <1>3, <1>4, <1>5, <1>6, <1>7, <1>8 DEF ProcessStep

LEMMA NextInv == Inv /\ [Next]_vars => Inv'
<1> SUFFICES ASSUME Inv, [Next]_vars PROVE Inv'
  OBVIOUS
<1>1. ASSUME NEW s \in Services, Start(s) \/ ScriptStep(s) PROVE Inv'
  BY <1>1, ScriptKeeps, KeepsInv
<1>2. ASSUME NEW s \in Services, ProcessStep(s) \/ Killed(s) \/ Crash(s) PROVE Inv'
  BY <1>2, ProcessKeeps, KeepsInv
<1>3. ASSUME NEW s \in Services, NEW k \in DOMAIN conns,
             PeerClosed(k, s) \/ DeliveryFails(k, s)
      PROVE  Inv'
  BY <1>3 DEF PeerClosed, DeliveryFails, SocketsOnly, scriptVars, Inv, Typed,
       KeepsOrder, NoProcess, LineOfReady, DeviceOfProcess, Running
<1>4. CASE UNCHANGED vars
  BY <1>4 DEF vars, Inv, Typed, KeepsOrder, NoProcess, LineOfReady, DeviceOfProcess,
       Running
<1> QED
  BY <1>1, <1>2, <1>3, <1>4 DEF Next

\* Neither script leaves a process behind when it is over, and neither
\* configures the network before its process serves it or for one that failed
\* to start (common.py:77-106 with main() in client_main.cpp and
\* server_main.cpp): for every number of starts, kills and interfaces.
THEOREM ScriptsKeepOrder == Spec => []ScriptKeepsOrder
<1>1. Spec => []Inv
  BY InitInv, NextInv, PTL DEF Spec
<1> QED
  BY <1>1, InvImplies, PTL

-----------------------------------------------------------------------------
(* What is left of the connections.  An induction on a number is done on   *)
(* the set of the numbers for which a formula holds.                       *)

LEMMA Smallest ==
  ASSUME NEW T \in SUBSET Nat, NEW t \in T
  PROVE  \E m \in T : \A k \in T : m <= k
<1> DEFINE R == OpToRel(<, Nat)
<1>1. IsWellFoundedOn(R, Nat)
  BY NatLessThanWellFounded
<1>2. \A x, y \in Nat : y < x => <<y, x>> \in R
  BY DEF OpToRel
<1> HIDE DEF R
<1>3. \E x \in T : \A y \in T : ~ (<<y, x>> \in R)
  BY <1>1, WFMin
<1>4. PICK m \in T : \A y \in T : ~ (<<y, m>> \in R)
  BY <1>3
<1>5. \A y \in T : ~ (y < m)
  BY <1>2, <1>4
<1> QED BY <1>5

LEMMA InductNat ==
  ASSUME NEW P \in SUBSET Nat, 0 \in P, \A n \in P : n + 1 \in P
  PROVE P = Nat
<1> SUFFICES ASSUME NEW n \in Nat, n \notin P PROVE FALSE
  OBVIOUS
<1>1. PICK m \in Nat \ P : \A k \in Nat \ P : m <= k
  BY Smallest
<1>2. m # 0 /\ m - 1 \in P
  BY <1>1
<1> QED BY <1>1, <1>2

OneOpen(C) == {c \in C : {c.client, c.server} # {"closed"}}

LEMMA LeftTyped ==
  ASSUME NEW C, NEW cs \in Seq(C)
  PROVE  Left(cs) \in Seq(OneOpen(C))
<1> DEFINE n == Len(cs)
           D == OneOpen(C)
           E(f, i) == IF i = 0 THEN <<>>
                      ELSE IF {cs[i].client, cs[i].server} = {"closed"} THEN f[i - 1]
                      ELSE Append(f[i - 1], cs[i])
           Upto(k) == {g \in [0..k -> Seq(D)] : \A i \in 0..k : g[i] = E(g, i)}
           P == {k \in Nat : k <= n => Upto(k) # {}}
           left == CHOOSE f : f = [i \in 0..n |-> E(f, i)]
<1>0. /\ n \in Nat
      /\ \A i \in 1..n : {cs[i].client, cs[i].server} # {"closed"} => cs[i] \in D
  BY DEF OneOpen
<1>1. Left(cs) = left[n]
  BY DEF Left
<1> HIDE DEF n, D
<1>2. 0 \in P
  <2> DEFINE g == [i \in 0..0 |-> <<>>]
  <2>0. g \in [0..0 -> Seq(D)] /\ \A i \in 0..0 : i = 0 /\ g[i] = <<>>
    OBVIOUS
  <2>1. g \in Upto(0)
    BY <2>0
  <2> QED BY <2>1
<1>3. ASSUME NEW k \in P PROVE k + 1 \in P
  <2> SUFFICES ASSUME k + 1 <= n PROVE Upto(k + 1) # {}
    <3> HIDE DEF Upto
    <3> QED OBVIOUS
  <2>1. k \in Nat /\ k <= n /\ k + 1 \in 1..n
    BY <1>0
  <2>2. PICK g \in [0..k -> Seq(D)] : \A i \in 0..k : g[i] = E(g, i)
    BY <2>1
  <2> DEFINE h == [i \in 0..(k + 1) |-> IF i \in 0..k THEN g[i] ELSE E(g, k + 1)]
  <2>3. E(g, k + 1) \in Seq(D)
    <3>1. g[(k + 1) - 1] \in Seq(D) /\ k + 1 \in 1..n /\ k + 1 # 0
      BY <1>0, <2>1, <2>2
    <3>2. CASE {cs[k + 1].client, cs[k + 1].server} = {"closed"}
      BY <3>1, <3>2
    <3>3. CASE {cs[k + 1].client, cs[k + 1].server} # {"closed"}
      <4>1. cs[k + 1] \in D
        BY <1>0, <3>1, <3>3
      <4> QED BY <3>1, <3>3, <4>1
    <3> QED BY <3>2, <3>3
  <2>4. h \in [0..(k + 1) -> Seq(D)]
    BY <2>2, <2>3
  <2>5. ASSUME NEW i \in 0..(k + 1) PROVE h[i] = E(h, i)
    <3>1. CASE i = k + 1
      <4>1. i # 0 /\ i - 1 \in 0..k /\ i \notin 0..k
        BY <3>1, <2>1
      <4>3. h[i] = E(g, i)
        <5> HIDE DEF E
        <5> QED BY <3>1, <4>1
      <4>2. h[i - 1] = g[i - 1]
        BY <4>1, <2>1
      <4> QED BY <4>1, <4>2, <4>3
    <3>2. CASE i \in 0..k
      <4>1. h[i] = E(g, i)
        BY <2>2, <3>2
      <4>2. i # 0 => h[i - 1] = g[i - 1]
        BY <2>1, <3>2
      <4> QED BY <4>1, <4>2
    <3>3. i = k + 1 \/ i \in 0..k
      BY <2>1
    <3> QED BY <3>1, <3>2, <3>3
  <2>6. h \in Upto(k + 1)
    BY <2>4, <2>5
  <2> QED BY <2>6
<1>4. n \in P
  <2> HIDE DEF P
  <2>0. P \in SUBSET Nat
    BY DEF P
  <2> QED BY <1>0, <1>2, <1>3, <2>0, InductNat
<1>5. PICK g \in [0..n -> Seq(D)] : \A i \in 0..n : g[i] = E(g, i)
  <2>1. Upto(n) # {}
    <3> HIDE DEF Upto
    <3> QED BY <1>0, <1>4
  <2> QED BY <2>1
<1>6. g = [i \in 0..n |-> E(g, i)]
  BY <1>5
<1>7. left = [i \in 0..n |-> E(left, i)]
  BY <1>6
<1> HIDE DEF left
<1> DEFINE Q == {k \in Nat : k <= n => left[k] \in Seq(D)}
<1>8. 0 \in Q
  BY <1>0, <1>7
<1>9. ASSUME NEW k \in Q PROVE k + 1 \in Q
  <2> SUFFICES ASSUME k + 1 <= n PROVE left[k + 1] \in Seq(D)
    OBVIOUS
  <2>1. k \in Nat /\ k + 1 \in 0..n /\ k + 1 # 0 /\ (k + 1) - 1 = k /\ left[k] \in Seq(D) /\ k + 1 \in 1..n
    BY <1>0
  <2>2. left[k + 1] = E(left, k + 1)
    BY <1>7, <2>1
  <2>3. CASE {cs[k + 1].client, cs[k + 1].server} = {"closed"}
    BY <2>1, <2>2, <2>3
  <2>4. CASE {cs[k + 1].client, cs[k + 1].server} # {"closed"}
    <3>1. cs[k + 1] \in D
      BY <1>0, <2>1, <2>4
    <3> QED BY <2>1, <2>2, <2>4, <3>1
  <2> QED BY <2>3, <2>4
<1>10. n \in Q
  <2> HIDE DEF Q
  <2>0. Q \in SUBSET Nat
    BY DEF Q
  <2> QED BY <1>0, <1>8, <1>9, <2>0, InductNat
<1> QED BY <1>0, <1>1, <1>10 DEF D

-----------------------------------------------------------------------------
(* The loops and the connections.                                          *)

RestTyped ==
  /\ exitCode \in [Services -> Nat \cup {None}]
  /\ loop \in [Services -> {None, "connecting", "sleeping", "waiting", "listen",
                            "accept"}]
  /\ upNext \in 1..(NumInterfaces + 1)
  /\ listening \in BOOLEAN
  /\ connected \subseteq Interfaces
  /\ starts \in [Services -> Nat]
  /\ kills \in Nat
  /\ refusals \in Nat

\* A process that has signalled is in its own loop, and the port is open only
\* while the server's is.
LoopOfProcess ==
  /\ \A s \in Services : loop[s] # None <=> process[s] = "main"
  /\ loop["client"] \in {None, "connecting", "sleeping", "waiting"}
  /\ loop["server"] \in {None, "listen", "accept", "sleeping"}
  /\ listening => process["server"] = "main"

\* The client has connected the interfaces up to its place since it was last
\* refused, and when it waits, all of them.
ClientsPlace ==
  /\ loop["client"] = "connecting" => /\ upNext \in Interfaces
                                      /\ connected = 1..(upNext - 1)
  /\ loop["client"] = "sleeping" => connected = {}
  /\ loop["client"] = "waiting" => connected = Interfaces

\* A connection is kept for an end that is not closed, and such an end belongs to
\* a process that serves.
Held ==
  {c \in Connections :
     /\ {c.client, c.server} # {"closed"}
     /\ c.client = "open" => process["client"] \in {"main", "leaving"}
     /\ c.server # "closed" => process["server"] = "main"}

EndsOfProcesses == conns \in Seq(Held)

LoopInv == RestTyped /\ LoopOfProcess /\ ClientsPlace /\ EndsOfProcesses

LEMMA HeldStays ==
  ASSUME EndsOfProcesses, conns' = conns,
         process["client"] \in {"main", "leaving"} => process'["client"] \in {"main", "leaving"},
         process["server"] = "main" => process'["server"] = "main"
  PROVE  EndsOfProcesses'
<1>1. Held \subseteq Held'
  BY DEF Held
<1> QED
  BY <1>1 DEF EndsOfProcesses

\* What closing ends, whoever does it, leaves.
LEMMA HeldLeft ==
  ASSUME NEW cs \in Seq(Connections), conns' = Left(cs),
         \A k \in 1..Len(cs) :
           /\ cs[k].client = "open" => process'["client"] \in {"main", "leaving"}
           /\ cs[k].server # "closed" => process'["server"] = "main"
  PROVE  EndsOfProcesses'
<1> DEFINE C == {c \in Connections :
                   /\ c.client = "open" => process'["client"] \in {"main", "leaving"}
                   /\ c.server # "closed" => process'["server"] = "main"}
<1>1. cs \in Seq(C)
  <2>1. \A k \in 1..Len(cs) : cs[k] \in C
    OBVIOUS
  <2> HIDE DEF C
  <2> QED
    BY <2>1
<1>2. conns' \in Seq(OneOpen(C))
  BY <1>1, LeftTyped
<1>3. OneOpen(C) = Held'
  BY DEF OneOpen, Held
<1> QED
  BY <1>2, <1>3 DEF EndsOfProcesses

LEMMA EndChanged ==
  ASSUME EndsOfProcesses, process' = process, NEW k \in DOMAIN conns, NEW s \in Services,
         NEW v \in {"open", "closed"}, v = "open" => s = "server" /\ process["server"] = "main",
         conns' = Left([conns EXCEPT ![k][s] = v])
  PROVE  EndsOfProcesses'
<1> DEFINE cs == [conns EXCEPT ![k][s] = v]
<1>1. conns \in Seq(Held) /\ DOMAIN conns = 1..Len(conns) /\ Len(conns) \in Nat
  BY DEF EndsOfProcesses
<1>2. /\ DOMAIN cs = 1..Len(conns) /\ cs = [j \in 1..Len(conns) |-> cs[j]]
      /\ \A j \in 1..Len(conns) : cs[j] = IF j = k THEN [conns[k] EXCEPT ![s] = v]
                                         ELSE conns[j]
  BY <1>1
<1>3. conns' = Left(cs)
  OBVIOUS
<1> HIDE DEF cs
<1>4. ASSUME NEW j \in 1..Len(conns)
      PROVE  /\ cs[j] \in Connections
             /\ cs[j].client = "open" => process'["client"] \in {"main", "leaving"}
             /\ cs[j].server # "closed" => process'["server"] = "main"
  <2>1. conns[j] \in Held
    BY <1>1
  <2>2. CASE j # k
    BY <1>2, <2>1, <2>2 DEF Held
  <2>3. CASE j = k /\ s = "client"
    <3>1. cs[j] = [conns[j] EXCEPT !.client = v] /\ v = "closed"
      BY <1>2, <2>3
    <3> QED
      BY <2>1, <3>1 DEF Held, Connections
  <2>4. CASE j = k /\ s = "server"
    <3>1. cs[j] = [conns[j] EXCEPT !.server = v]
      BY <1>2, <2>4
    <3> QED
      BY <2>1, <3>1 DEF Held, Connections
  <2> QED
    BY <2>2, <2>3, <2>4 DEF Services
<1>5. cs \in Seq(Connections) /\ Len(cs) = Len(conns)
  <2>1. cs \in [1..Len(conns) -> Connections]
    BY <1>2, <1>4
  <2> QED
    BY <1>1, <2>1
<1> QED
  BY <1>3, <1>4, <1>5, HeldLeft

LEMMA EndsHeld ==
  ASSUME EndsOfProcesses, process \in [Services -> ProcessStates],
         NEW s \in Services, Ends(s)
  PROVE  EndsOfProcesses'
<1> DEFINE cs == [k \in DOMAIN conns |-> [conns[k] EXCEPT ![s] = "closed"]]
<1>1. conns \in Seq(Held) /\ DOMAIN conns = 1..Len(conns) /\ Len(conns) \in Nat
  BY DEF EndsOfProcesses
<1>2. ASSUME NEW k \in 1..Len(conns)
      PROVE  /\ cs[k] \in Connections
             /\ cs[k].client = "open" => process'["client"] \in {"main", "leaving"}
             /\ cs[k].server # "closed" => process'["server"] = "main"
  <2>1. conns[k] \in Held
    BY <1>1
  <2>2. cs[k] = [conns[k] EXCEPT ![s] = "closed"]
    BY <1>1
  <2> HIDE DEF cs
  <2>3. process' = [process EXCEPT ![s] = "ended"]
    BY DEF Ends
  <2> QED
    BY <2>1, <2>2, <2>3 DEF Held, Connections, Services
<1>3. cs \in Seq(Connections) /\ Len(cs) = Len(conns)
  <2>1. cs \in [1..Len(conns) -> Connections]
    BY <1>1, <1>2
  <2> HIDE DEF cs
  <2> QED
    BY <1>1, <2>1
<1>4. conns' = Left(cs)
  BY DEF Ends, CloseEnds
<1> HIDE DEF cs
<1> QED
  BY <1>2, <1>3, <1>4, HeldLeft

LEMMA LoopInit == Init => LoopInv
<1> SUFFICES ASSUME Init PROVE LoopInv
  OBVIOUS
<1>1. 1 \in 1..(NumInterfaces + 1)
  BY InterfacesAssumption
<1>2. RestTyped
  BY <1>1 DEF Init, RestTyped
<1>4. LoopOfProcess
  BY DEF Init, LoopOfProcess, Services
<1>5. ClientsPlace
  BY DEF Init, ClientsPlace, Services
<1>3. EndsOfProcesses
  BY DEF Init, EndsOfProcesses
<1> QED
  BY <1>2, <1>3, <1>4, <1>5 DEF LoopInv

\* Between two runs the process changes only from one that does not run to
\* another that does not serve.
LEMMA LoopScript ==
  ASSUME Inv, LoopInv, NEW s \in Services, Start(s) \/ ScriptStep(s)
  PROVE  LoopInv'
<1>1. /\ UNCHANGED <<loop, upNext, listening, conns, connected, kills, refusals>>
      /\ process' \in [Services -> ProcessStates]
      /\ \A t \in Services : process'[t] = "main" <=> process[t] = "main"
      /\ \A t \in Services : process'[t] = "leaving" <=> process[t] = "leaving"
      /\ starts' \in [Services -> Nat] /\ exitCode' \in [Services -> Nat \cup {None}]
  <2> USE DEF LoopInv, RestTyped, Inv, Typed, netVars, historyVars, ProcessUntouched
  <2>1. CASE Start(s)
    BY <2>1 DEF Start, KeepsOrder, NoProcess, Running, ProcessStates
  <2>2. CASE Spawn(s)
    BY <2>2 DEF Spawn, KeepsOrder, NoProcess, Running, ProcessStates
  <2>3. CASE PreConfigure(s) \/ ReadLine(s) \/ Kill(s) \/ Raise(s) \/ LinkUp(s)
             \/ Configure(s) \/ ServiceEnded(s)
    BY <2>3 DEF PreConfigure, ReadLine, Kill, Raise, LinkUp, Configure, ServiceEnded
  <2> QED
    BY <2>1, <2>2, <2>3 DEF ScriptStep
<1>2. EndsOfProcesses'
  BY <1>1, HeldStays DEF LoopInv, Services
<1> QED
  BY <1>1, <1>2 DEF LoopInv, RestTyped, LoopOfProcess, ClientsPlace, Services

LEMMA LoopEnds ==
  ASSUME Inv, LoopInv, NEW s \in Services, Ends(s), UNCHANGED <<starts, connected, refusals>>,
         exitCode' \in [Services -> Nat \cup {None}], kills' \in Nat
  PROVE  LoopInv'
<1>1. EndsOfProcesses'
  BY EndsHeld DEF LoopInv, Inv, Typed
<1>2. RestTyped'
  BY DEF LoopInv, RestTyped, Ends
<1>3. LoopOfProcess'
  BY DEF LoopInv, RestTyped, LoopOfProcess, Ends, Inv, Typed, Services
<1>4. ClientsPlace'
  BY DEF LoopInv, RestTyped, ClientsPlace, Ends, Services
<1> QED
  BY <1>1, <1>2, <1>3, <1>4 DEF LoopInv

LEMMA LoopBefore ==
  ASSUME Inv, LoopInv, NEW s \in Services,
         StartContext(s) \/ MakeDevice(s) \/ ReachPeer(s)
  PROVE  LoopInv'
<1>1. /\ UNCHANGED <<starts, connected, kills, refusals>>
      /\ exitCode' \in [Services -> Nat \cup {None}]
      /\ process[s] \in {"options", "device", "peer"}
      /\ Ends(s) \/ \E to \in ProcessStates \ {"main", "leaving"} : Moves(s, to)
  BY DEF StartContext, MakeDevice, ReachPeer, scriptVars, historyVars, Exit, LoopInv,
         RestTyped, ProcessStates
<1>2. CASE Ends(s)
  BY <1>1, <1>2, LoopEnds DEF LoopInv, RestTyped
<1>3. ASSUME NEW to \in ProcessStates \ {"main", "leaving"}, Moves(s, to)
      PROVE  LoopInv'
  <2>1. /\ UNCHANGED <<loop, upNext, listening, conns>>
        /\ \A t \in Services : process'[t] = "main" <=> process[t] = "main"
        /\ \A t \in Services : process'[t] = "leaving" <=> process[t] = "leaving"
    BY <1>1, <1>3 DEF Moves, netVars, Inv, Typed
  <2>2. EndsOfProcesses'
    BY <2>1, HeldStays DEF LoopInv, Services
  <2> QED
    BY <1>1, <2>1, <2>2 DEF LoopInv, RestTyped, LoopOfProcess, ClientsPlace, Services
<1> QED
  BY <1>1, <1>2, <1>3

LEMMA LoopSignal ==
  ASSUME Inv, LoopInv, NEW s \in Services, SignalReady(s)
  PROVE  LoopInv'
<1>1. /\ process[s] = "ready" /\ process' = [process EXCEPT ![s] = "main"]
      /\ UNCHANGED <<exitCode, listening, conns, starts, kills, refusals>>
  BY DEF SignalReady, netVars, scriptVars
<1>2. EndsOfProcesses'
  BY <1>1, HeldStays DEF LoopInv, Inv, Typed, Services
<1>3. CASE s = "client"
  <2>1. loop' = [loop EXCEPT !["client"] = "connecting"] /\ upNext' = 1 /\ connected' = {}
    BY <1>3 DEF SignalReady
  <2>2. /\ 1..(upNext' - 1) = {} /\ upNext' \in Interfaces
        /\ upNext' \in 1..(NumInterfaces + 1)
    BY <2>1, InterfacesAssumption DEF Interfaces
  <2>3. RestTyped'
    BY <1>1, <2>1, <2>2 DEF LoopInv, RestTyped, Interfaces
  <2>4. LoopOfProcess'
    BY <1>1, <1>3, <2>1 DEF LoopInv, RestTyped, LoopOfProcess, Inv, Typed, Services
  <2>5. ClientsPlace'
    BY <1>1, <2>1, <2>2 DEF LoopInv, RestTyped, ClientsPlace, Interfaces, Services
  <2> QED
    BY <1>2, <2>3, <2>4, <2>5 DEF LoopInv
<1>4. CASE s = "server"
  <2>1. loop' = [loop EXCEPT !["server"] = "listen"] /\ UNCHANGED <<upNext, connected>>
    BY <1>4 DEF SignalReady
  <2> QED
    BY <1>1, <1>2, <1>4, <2>1
       DEF LoopInv, RestTyped, LoopOfProcess, ClientsPlace, Services, Inv, Typed
<1> QED
  BY <1>3, <1>4 DEF Services

\* A loop that goes from one place to another, and touches no connection.
LEMMA LoopMoves ==
  ASSUME Inv, LoopInv,
         UNCHANGED <<process, exitCode, starts, conns, kills>>,
         RestTyped', LoopOfProcess', ClientsPlace'
  PROVE  LoopInv'
<1>1. EndsOfProcesses'
  BY HeldStays DEF LoopInv
<1> QED
  BY <1>1 DEF LoopInv

LEMMA LoopConnect ==
  ASSUME Inv, LoopInv, Connect
  PROVE  LoopInv'
<1> DEFINE c == [intf |-> upNext, client |-> "open", server |-> "pending"]
<1>1. /\ process["client"] = "main" /\ loop["client"] = "connecting" /\ listening
      /\ conns' = Append(conns, c) /\ connected' = connected \cup {upNext}
      /\ upNext' = upNext + 1
      /\ loop' = [loop EXCEPT !["client"] = AfterConnected(upNext)]
      /\ UNCHANGED <<process, exitCode, starts, listening, kills, refusals>>
  BY DEF Connect, Connecting, ClientLoop, scriptVars
<1>2. upNext \in Interfaces /\ connected = 1..(upNext - 1) /\ process["server"] = "main"
  BY <1>1 DEF LoopInv, ClientsPlace, LoopOfProcess
<1>3. EndsOfProcesses'
  <2>1. c \in Held
    BY <1>1, <1>2 DEF Held, Connections
  <2>2. Held \subseteq Held'
    BY <1>1 DEF Held
  <2>3. Append(conns, c) \in Seq(Held)
    BY <2>1 DEF LoopInv, EndsOfProcesses
  <2> QED
    BY <1>1, <2>2, <2>3 DEF EndsOfProcesses
<1>4. /\ connected' = 1..(upNext' - 1) /\ upNext' \in 1..(NumInterfaces + 1)
      /\ upNext # NumInterfaces => upNext' \in Interfaces
      /\ upNext = NumInterfaces => connected' = Interfaces
      /\ connected' \subseteq Interfaces
  BY <1>1, <1>2, InterfacesAssumption DEF Interfaces
<1>5. loop'["client"] = IF upNext = NumInterfaces THEN "waiting" ELSE "connecting"
  BY <1>1 DEF LoopInv, RestTyped, AfterConnected, Services
<1>6. RestTyped'
  BY <1>1, <1>4 DEF LoopInv, RestTyped, AfterConnected
<1>7. LoopOfProcess'
  BY <1>1, <1>5 DEF LoopInv, RestTyped, LoopOfProcess, Services
<1>8. ClientsPlace'
  BY <1>4, <1>5 DEF ClientsPlace
<1> QED
  BY <1>3, <1>6, <1>7, <1>8 DEF LoopInv

LEMMA LoopRefused ==
  ASSUME Inv, LoopInv, Refused \/ Retry
  PROVE  LoopInv'
<1>1. UNCHANGED <<process, exitCode, starts, conns, kills, listening>>
  BY DEF Refused, Retry, ClientLoop, scriptVars, netVars, historyVars
<1>2. RestTyped'
  <2>1. 1 \in 1..(NumInterfaces + 1)
    BY InterfacesAssumption
  <2> QED
    BY <1>1, <2>1 DEF LoopInv, RestTyped, Refused, Retry, ClientLoop, AfterRefusal, netVars,
       historyVars
<1>3. LoopOfProcess'
  BY <1>1 DEF LoopInv, RestTyped, LoopOfProcess, Refused, Retry, Connecting, ClientLoop,
     AfterRefusal, Services
<1>4. ClientsPlace'
  <2>1. CASE Refused
    BY <2>1 DEF LoopInv, RestTyped, ClientsPlace, Refused, ClientLoop, AfterRefusal, Services
  <2>2. CASE Retry
    <3>1. loop["client"] = "sleeping" /\ upNext' = 1 /\ connected' = {}
      BY <2>2 DEF Retry, historyVars, LoopInv, ClientsPlace
    <3>2. 1..(upNext' - 1) = {} /\ upNext' \in Interfaces
      BY <3>1, InterfacesAssumption DEF Interfaces
    <3>3. loop'["client"] = "connecting"
      BY <2>2 DEF Retry, ClientLoop, LoopInv, RestTyped, Services
    <3> QED
      BY <3>1, <3>2, <3>3 DEF ClientsPlace
  <2> QED
    BY <2>1, <2>2
<1> QED
  BY <1>1, <1>2, <1>3, <1>4, LoopMoves

LEMMA LoopLeaves ==
  ASSUME Inv, LoopInv, GiveUp \/ Leave
  PROVE  LoopInv'
<1>1. CASE GiveUp
  <2>1. /\ process["client"] = "main" /\ process' = [process EXCEPT !["client"] = "leaving"]
        /\ loop' = [loop EXCEPT !["client"] = None]
        /\ exitCode' \in [Services -> Nat \cup {None}]
        /\ UNCHANGED <<upNext, listening, conns, starts, connected, kills, refusals>>
    BY <1>1 DEF GiveUp, Connecting, Exit, netVars, scriptVars, historyVars, LoopInv, RestTyped
  <2>2. EndsOfProcesses'
    BY <2>1, HeldStays DEF LoopInv, Inv, Typed, Services
  <2> QED
    BY <2>1, <2>2 DEF LoopInv, RestTyped, LoopOfProcess, ClientsPlace, Inv, Typed, Services
<1>2. CASE Leave
  <2>1. /\ process["client"] = "leaving" /\ process' = [process EXCEPT !["client"] = "exiting"]
        /\ \A k \in DOMAIN conns : conns[k].client = "closed"
        /\ UNCHANGED <<loop, exitCode, upNext, listening, conns, starts, connected, kills,
                       refusals>>
    BY <1>2 DEF Leave, Moves, netVars, scriptVars, historyVars
  <2>2. EndsOfProcesses'
    <3>1. \A k \in 1..Len(conns) : conns[k] \in Held /\ conns[k].client = "closed"
      BY <2>1 DEF LoopInv, EndsOfProcesses
    <3>2. \A k \in 1..Len(conns) : conns[k] \in Held'
      BY <2>1, <3>1 DEF Held, Inv, Typed, Services
    <3> QED
      BY <2>1, <3>2 DEF LoopInv, EndsOfProcesses
  <2> QED
    BY <2>1, <2>2 DEF LoopInv, RestTyped, LoopOfProcess, ClientsPlace, Inv, Typed, Services
<1> QED
  BY <1>1, <1>2

LEMMA LoopServer ==
  ASSUME Inv, LoopInv, Listen \/ ListenFails \/ ListenAgain \/ Accept \/ AcceptFails
  PROVE  LoopInv'
<1>1. /\ process["server"] = "main"
      /\ \E to \in {"listen", "accept", "sleeping"} : loop' = [loop EXCEPT !["server"] = to]
      /\ UNCHANGED <<process, exitCode, upNext, starts, connected, kills, refusals>>
      /\ listening' \in BOOLEAN
  BY DEF Listen, ListenFails, ListenAgain, Accept, AcceptFails, ServerLoop, scriptVars,
     netVars, historyVars, LoopInv, RestTyped
<1>2. RestTyped'
  BY <1>1 DEF LoopInv, RestTyped
<1>3. LoopOfProcess'
  BY <1>1 DEF LoopInv, RestTyped, LoopOfProcess, Services
<1>4. ClientsPlace'
  BY <1>1 DEF LoopInv, RestTyped, ClientsPlace, Services
<1>5. CASE conns' = conns
  BY <1>1, <1>2, <1>3, <1>4, <1>5, LoopMoves
<1>6. CASE Accept
  <2>1. PICK k \in Pending : conns' = Left([conns EXCEPT ![k].server = "open"])
    BY <1>6 DEF Accept
  <2>2. EndsOfProcesses'
    <3>1. "server" \in Services /\ k \in DOMAIN conns
      BY <2>1 DEF Pending, Services
    <3> QED
      BY <1>1, <2>1, <3>1, EndChanged DEF LoopInv
  <2> QED
    BY <1>2, <1>3, <1>4, <2>2 DEF LoopInv
<1> QED
  BY <1>5, <1>6 DEF Listen, ListenFails, ListenAgain, AcceptFails, netVars

LEMMA LoopCloses ==
  ASSUME Inv, LoopInv, NEW k \in DOMAIN conns, NEW s \in Services,
         PeerClosed(k, s) \/ DeliveryFails(k, s)
  PROVE  LoopInv'
<1>1. /\ conns' = Left([conns EXCEPT ![k][s] = "closed"])
      /\ UNCHANGED <<process, exitCode, loop, upNext, listening, starts, connected, kills,
                     refusals>>
  BY DEF PeerClosed, DeliveryFails, CloseEnd, SocketsOnly, scriptVars, historyVars
<1>2. EndsOfProcesses'
  BY <1>1, EndChanged DEF LoopInv
<1> QED
  BY <1>1, <1>2 DEF LoopInv, RestTyped, LoopOfProcess, ClientsPlace

LEMMA LoopProcess ==
  ASSUME Inv, LoopInv, NEW s \in Services, ProcessStep(s) \/ Killed(s) \/ Crash(s)
  PROVE  LoopInv'
<1>1. CASE WaitForExit(s) \/ Killed(s) \/ Crash(s)
  <2>1. /\ Ends(s) /\ UNCHANGED <<exitCode, starts, connected, refusals>>
        /\ kills' \in Nat
    BY <1>1 DEF WaitForExit, Killed, Crash, scriptVars, historyVars, LoopInv, RestTyped
  <2> QED
    BY <2>1, LoopEnds DEF LoopInv, RestTyped
<1> QED
  BY <1>1, LoopBefore, LoopSignal, LoopConnect, LoopRefused, LoopLeaves, LoopServer
     DEF ProcessStep

LEMMA LoopNext == Inv /\ LoopInv /\ [Next]_vars => LoopInv'
<1> SUFFICES ASSUME Inv, LoopInv, [Next]_vars PROVE LoopInv'
  OBVIOUS
<1>1. CASE UNCHANGED vars
  <2>1. Held' = Held
    BY <1>1 DEF vars, Held
  <2> QED
    BY <1>1, <2>1 DEF vars, LoopInv, RestTyped, LoopOfProcess, ClientsPlace, EndsOfProcesses
<1> QED
  BY <1>1, LoopScript, LoopProcess, LoopCloses DEF Next

LEMMA LoopAlways == Spec => [](Inv /\ LoopInv)
<1>1. Spec => []Inv
  BY InitInv, NextInv, PTL DEF Spec
<1> QED
  BY <1>1, LoopInit, LoopNext, PTL DEF Spec

\* The variables of both services keep their types, whatever is left of the
\* connections (client_main.cpp, server_main.cpp, common.py:77-106).
THEOREM ServicesAreTyped == Spec => []TypeOK
<1>1. Inv /\ LoopInv => TypeOK
  <2> SUFFICES ASSUME Inv, LoopInv PROVE TypeOK
    OBVIOUS
  <2>1. conns \in Seq(Connections)
    BY DEF LoopInv, EndsOfProcesses, Held
  <2> QED
    BY <2>1 DEF TypeOK, Inv, Typed, LoopInv, RestTyped
<1> QED
  BY <1>1, LoopAlways, PTL

\* A client whose loop has gone on to wait has connected every one of its
\* interfaces since it was last refused (client_main.cpp:56-121): what ClientConnects
\* says it comes to.
WaitsWhenConnected == loop["client"] = "waiting" => connected = Interfaces

THEOREM ClientWaitsConnected == Spec => []WaitsWhenConnected
<1>1. LoopInv => WaitsWhenConnected
  BY DEF LoopInv, ClientsPlace, WaitsWhenConnected
<1> QED
  BY <1>1, LoopAlways, PTL

\* No end of a connection outlives its process, on whichever way that ends, and
\* a connection with both ends closed is not kept (scoped_file_descriptor and
\* the kernel at the end of a process).
THEOREM NoEndLeftOpen == Spec => []EndsOfProcesses
<1>1. LoopInv => EndsOfProcesses
  BY DEF LoopInv
<1> QED
  BY <1>1, LoopAlways, PTL

-----------------------------------------------------------------------------
(* The handshake.                                                          *)

\* A script that has spawned a process has one to wait for.
HasProcess(s) ==
  script[s] \notin Over \cup {"preConfigure", "spawn"} => process[s] # "none"

\* A process is in its loop, or past it, only with a line on the pipe; and past
\* it only with an exit code.
HasSpoken(s) == process[s] \in {"main", "leaving", "exiting"} => firstLine[s] # None

HasExitCode(s) == process[s] \in {"leaving", "exiting"} => exitCode[s] # None

HandshakeInv == \A s \in Services : HasProcess(s) /\ HasSpoken(s) /\ HasExitCode(s)

\* A step of service s leaves these of the other service alone.
LEMMA HandshakeKept ==
  ASSUME HandshakeInv, NEW s \in Services,
         HasProcess(s)' /\ HasSpoken(s)' /\ HasExitCode(s)',
         \A t \in Services \ {s} :
           /\ script'[t] = script[t]
           /\ process'[t] = process[t]
           /\ firstLine'[t] = firstLine[t]
           /\ exitCode'[t] = exitCode[t]
  PROVE  HandshakeInv'
BY DEF HandshakeInv, HasProcess, HasSpoken, HasExitCode

LEMMA HandshakeScript ==
  ASSUME Inv, LoopInv, HandshakeInv, NEW s \in Services, Start(s) \/ ScriptStep(s)
  PROVE  HandshakeInv'
<1> USE DEF HasProcess, HasSpoken, HasExitCode, Goes, Over, ProcessUntouched
<1>1. /\ script \in [Services -> ScriptStates] /\ process \in [Services -> ProcessStates]
      /\ firstLine \in [Services -> {None, "ready", "other"}]
      /\ exitCode \in [Services -> Nat \cup {None}]
      /\ HasProcess(s) /\ HasSpoken(s) /\ HasExitCode(s) /\ NoProcess(s)
  BY DEF Inv, Typed, LoopInv, RestTyped, HandshakeInv, KeepsOrder
<1>2. /\ HasProcess(s)' /\ HasSpoken(s)' /\ HasExitCode(s)'
      /\ \A t \in Services \ {s} :
           /\ script'[t] = script[t] /\ process'[t] = process[t]
           /\ firstLine'[t] = firstLine[t] /\ exitCode'[t] = exitCode[t]
  <2>1. CASE Start(s)
    BY <1>1, <2>1 DEF Start
  <2>2. CASE PreConfigure(s)
    BY <1>1, <2>2 DEF PreConfigure
  <2>3. CASE Spawn(s)
    BY <1>1, <2>3 DEF Spawn
  <2>4. CASE ReadLine(s)
    BY <1>1, <2>4 DEF ReadLine, AfterFirstLine
  <2>5. CASE Kill(s)
    BY <1>1, <2>5 DEF Kill
  <2>6. CASE Raise(s)
    BY <1>1, <2>6 DEF Raise, Reaped
  <2>7. CASE LinkUp(s) \/ Configure(s)
    BY <1>1, <2>7 DEF LinkUp, Configure
  <2>8. CASE ServiceEnded(s)
    BY <1>1, <2>8 DEF ServiceEnded
  <2> QED
    BY <2>1, <2>2, <2>3, <2>4, <2>5, <2>6, <2>7, <2>8 DEF ScriptStep
<1> QED BY <1>2, HandshakeKept

LEMMA HandshakeProcess ==
  ASSUME Inv, LoopInv, HandshakeInv, NEW s \in Services,
         ProcessStep(s) \/ Killed(s) \/ Crash(s)
  PROVE  HandshakeInv'
<1> USE DEF HasProcess, HasSpoken, HasExitCode, Moves, Ends, scriptVars
<1>1. /\ script \in [Services -> ScriptStates] /\ process \in [Services -> ProcessStates]
      /\ firstLine \in [Services -> {None, "ready", "other"}]
      /\ exitCode \in [Services -> Nat \cup {None}]
      /\ HasProcess(s) /\ HasSpoken(s) /\ HasExitCode(s)
  BY DEF Inv, Typed, LoopInv, RestTyped, HandshakeInv
<1>2. /\ HasProcess(s)' /\ HasSpoken(s)' /\ HasExitCode(s)'
      /\ \A t \in Services \ {s} :
           /\ script'[t] = script[t] /\ process'[t] = process[t]
           /\ firstLine'[t] = firstLine[t] /\ exitCode'[t] = exitCode[t]
  <2>1. CASE StartContext(s)
    <3>1. CASE Prints(s, "other") /\ Exit(s, 1) /\ Moves(s, "exiting")
      <4>1. script' = script /\ process' = [process EXCEPT ![s] = "exiting"]
        BY <2>1, <3>1 DEF StartContext
      <4>2. firstLine'[s] # None /\ \A t \in Services \ {s} : firstLine'[t] = firstLine[t]
        BY <1>1, <3>1 DEF Prints
      <4>3. exitCode'[s] # None /\ \A t \in Services \ {s} : exitCode'[t] = exitCode[t]
        BY <1>1, <3>1 DEF Exit
      <4> QED BY <1>1, <4>1, <4>2, <4>3
    <3>2. CASE Prints(s, "other") /\ Ends(s) /\ UNCHANGED exitCode
      BY <1>1, <2>1, <3>2 DEF StartContext, Prints
    <3>3. CASE (Prints(s, "other") \/ UNCHANGED firstLine) /\ Moves(s, "device") /\ UNCHANGED exitCode
      BY <1>1, <2>1, <3>3 DEF StartContext, Prints
    <3> QED
      BY <2>1, <3>1, <3>2, <3>3 DEF StartContext
  <2>2. CASE MakeDevice(s) \/ ReachPeer(s)
    BY <1>1, <2>2 DEF MakeDevice, ReachPeer
  <2>3. CASE SignalReady(s)
    BY <1>1, <2>3 DEF SignalReady, Prints
  <2>4. CASE s = "client" /\ (Connect \/ Refused \/ Retry)
    BY <1>1, <2>4 DEF Connect, Refused, Retry, ClientLoop
  <2>5. CASE s = "client" /\ (GiveUp \/ Leave)
    BY <1>1, <2>5 DEF GiveUp, Leave, Connecting, Exit
  <2>6. CASE s = "server" /\ (Listen \/ ListenFails \/ ListenAgain \/ Accept \/ AcceptFails)
    BY <1>1, <2>6 DEF Listen, ListenFails, ListenAgain, Accept, AcceptFails, ServerLoop
  <2>7. CASE WaitForExit(s) \/ Killed(s) \/ Crash(s)
    BY <1>1, <2>7 DEF WaitForExit, Killed, Crash
  <2> QED
    BY <2>1, <2>2, <2>3, <2>4, <2>5, <2>6, <2>7 DEF ProcessStep
<1> QED BY <1>2, HandshakeKept

LEMMA HandshakeAlways == Spec => [](Inv /\ HandshakeInv)
<1>1. Init => HandshakeInv
  BY DEF Init, HandshakeInv, HasProcess, HasSpoken, HasExitCode, Over
<1>2. Inv /\ LoopInv /\ HandshakeInv /\ [Next]_vars => HandshakeInv'
  <2> SUFFICES ASSUME Inv, LoopInv, HandshakeInv, [Next]_vars PROVE HandshakeInv'
    OBVIOUS
  <2>1. CASE UNCHANGED <<script, process, firstLine, exitCode>>
    BY <2>1 DEF HandshakeInv, HasProcess, HasSpoken, HasExitCode
  <2>2. CASE UNCHANGED vars
    BY <2>1, <2>2 DEF vars
  <2>3. ASSUME NEW s \in Services, NEW k \in DOMAIN conns,
               PeerClosed(k, s) \/ DeliveryFails(k, s)
        PROVE  HandshakeInv'
    BY <2>1, <2>3 DEF PeerClosed, DeliveryFails, SocketsOnly, scriptVars
  <2> QED
    BY <2>2, <2>3, HandshakeScript, HandshakeProcess DEF Next
<1> QED
  BY <1>1, <1>2, LoopAlways, PTL DEF Spec

\* Nobody in the start and the end of a service waits for what does not come:
\* while the script waits for the first line, there is one, or the end of the
\* output, or a process on its way there that waits for nobody; the process it
\* has killed is there to be waited for, and so is the one that serves; and
\* main() finds an exit code when it waits for it.
NobodyWaitsInVain ==
  \A s \in Services :
    /\ script[s] = "readLine" =>
         \/ firstLine[s] # None
         \/ process[s] \in {"ended", "options", "device", "peer", "ready"}
    /\ script[s] \in {"reap", "waiting"} => process[s] = "ended" \/ Running(s)
    /\ process[s] = "exiting" => exitCode[s] # None

\* The handshake of common.py:77-106 with signalReady, and waitForExit of
\* context_base.cpp:105-112, whichever step of the start fails, with a log file
\* and without: what ScriptsSettle and GivesUp need besides fairness.
THEOREM HandshakeIsNotStuck == Spec => []NobodyWaitsInVain
<1>1. Inv /\ HandshakeInv => NobodyWaitsInVain
  <2> SUFFICES ASSUME Inv, HandshakeInv, NEW s \in Services
               PROVE  /\ script[s] = "readLine" =>
                           \/ firstLine[s] # None
                           \/ process[s] \in {"ended", "options", "device", "peer", "ready"}
                      /\ script[s] \in {"reap", "waiting"} => process[s] = "ended" \/ Running(s)
                      /\ process[s] = "exiting" => exitCode[s] # None
    BY DEF NobodyWaitsInVain
  <2>1. process[s] \in ProcessStates /\ HasProcess(s) /\ HasSpoken(s) /\ HasExitCode(s)
    BY DEF Inv, Typed, HandshakeInv
  <2> QED
    BY <2>1 DEF HasProcess, HasSpoken, HasExitCode, Over, Running, ProcessStates
<1> QED
  BY <1>1, HandshakeAlways, PTL
=============================================================================
