-------------------------- MODULE LifecycleProofs --------------------------
(***************************************************************************)
(* Lifecycle, proved: the types, one server at most, and a pidfile that    *)
(* names it, as long as no start was disturbed.                            *)
(*                                                                         *)
(* The last two hold together only: start spawns because the process that  *)
(* the pidfile names is gone, which excludes a server because every server *)
(* is named between two commands, which in turn needs stop to remove the   *)
(* file after the process ended and not before.                            *)
(***************************************************************************)
EXTENDS Lifecycle, TLAPS

States == Servers \cup {"free", "stranger"}

\* A start that was not disturbed has no company.
Alone == \A c, d \in Cmds : pc[c] \in Starts /\ d # c => pc[d] = "idle"

\* Who may live, by what is under way.
NoneYet == \A c \in Cmds : pc[c] = "checked" => Live = {}
Child == \A c \in Cmds : pc[c] \in {"spawned", "writing"} => Live \subseteq {target[c]}
Filed == (\A c \in Cmds : pc[c] \notin Starts) => Live \subseteq {pidfile}

\* What a stop may remove, and that its process is gone by then.
Removable == \A c \in Cmds : pc[c] \in Stops => pidfile \in {target[c], None}
Ended == \A c \in Cmds : pc[c] = "removing" => target[c] \notin Live

Orderly == Alone /\ NoneYet /\ Child /\ Filed /\ Removable /\ Ended

IInv == TypeOK /\ (clean => Orderly)

-----------------------------------------------------------------------------
LEMMA InitTyped == Init => TypeOK
  BY LifecycleAssumption DEF Init, TypeOK, Live, Servers, Starts, Stops

LEMMA StartTyped ==
  ASSUME TypeOK, NEW c \in Cmds, Start(c) PROVE TypeOK'
  <1> USE LifecycleAssumption DEF TypeOK, Live, Servers, Starts, Stops, Go, Over, machine, cmds
  <1>1. CASE StartCheck(c)  BY <1>1 DEF StartCheck
  <1>2. CASE \E p \in Pids : Spawn(c, p)  BY <1>2 DEF Spawn
  <1>3. CASE SpawnFails(c)  BY <1>3 DEF SpawnFails
  <1>4. CASE Truncate(c)  BY <1>4 DEF Truncate
  <1>5. CASE WritePid(c)  BY <1>5 DEF WritePid
  <1>6. CASE WriteFails(c)  BY <1>6 DEF WriteFails
  <1>7. CASE Killed(c)  BY <1>7 DEF Killed
  <1> QED BY <1>1, <1>2, <1>3, <1>4, <1>5, <1>6, <1>7 DEF Start

LEMMA StopTyped ==
  ASSUME TypeOK, NEW c \in Cmds, Stop(c) PROVE TypeOK'
  <1> USE LifecycleAssumption DEF TypeOK, Live, Servers, Starts, Stops, Go, Over, machine, cmds
  <1>1. CASE StopCheck(c)  BY <1>1 DEF StopCheck, Running
  <1>2. CASE Signal(c)  BY <1>2 DEF Signal, Reap, Alive
  <1>3. CASE SignalFails(c)  BY <1>3 DEF SignalFails
  <1>4. CASE Gone(c)  BY <1>4 DEF Gone
  <1>5. CASE TimedOut(c)  BY <1>5 DEF TimedOut
  <1>6. CASE Remove(c)  BY <1>6 DEF Remove
  <1> QED BY <1>1, <1>2, <1>3, <1>4, <1>5, <1>6 DEF Stop

LEMMA ServerTyped ==
  ASSUME TypeOK, NEW p \in Pids, Server(p) PROVE TypeOK'
  <1> USE LifecycleAssumption DEF TypeOK, Live, Servers, Become, Reap, machine, cmds
  <1>1. CASE Boot(p)  BY <1>1 DEF Boot
  <1>2. CASE Bind(p)  BY <1>2 DEF Bind
  <1>3. CASE BindFails(p)  BY <1>3 DEF BindFails
  <1>4. CASE Leave(p)  BY <1>4 DEF Leave
  <1>5. CASE Exit(p)  BY <1>5 DEF Exit
  <1>6. CASE Dies(p)  BY <1>6 DEF Dies
  <1> QED BY <1>1, <1>2, <1>3, <1>4, <1>5, <1>6 DEF Server, Listen

LEMMA TypeStep == TypeOK /\ [Next]_vars => TypeOK'
  <1> SUFFICES ASSUME TypeOK, [Next]_vars PROVE TypeOK'
    OBVIOUS
  <1>1. CASE UNCHANGED vars  BY <1>1 DEF vars, TypeOK, Live
  <1>2. CASE \E c \in Cmds : Start(c) \/ Stop(c)  BY <1>2, StartTyped, StopTyped
  <1>3. CASE \E p \in Pids : Server(p)  BY <1>3, ServerTyped
  <1>4. ASSUME NEW p \in Pids, Stranger(p) PROVE TypeOK'
    <2>1. /\ UNCHANGED <<pidfile, port, told, pc, target, clean>>
          /\ proc[p] \in {"free", "stranger"}
          /\ proc' = [proc EXCEPT ![p] = "free"] \/ proc' = [proc EXCEPT ![p] = "stranger"]
      BY <1>4 DEF Stranger, Become, machine, cmds
    <2> QED BY <2>1 DEF TypeOK, Live, Servers
  <1>5. ASSUME NEW p \in Pids, Foreground(p) PROVE TypeOK'
    <2>1. /\ UNCHANGED <<pidfile, port, told, pc, target>>
          /\ proc[p] = "free" /\ proc' = [proc EXCEPT ![p] = "booting"] /\ clean' = FALSE
      BY <1>5 DEF Foreground, machine, cmds
    <2>2. Live \subseteq Live'
      BY <2>1 DEF TypeOK, Live, Servers
    <2>3. \A q \in Pids : port' = q <=> proc'[q] = "serving"
      BY <2>1 DEF TypeOK
    <2> QED BY <2>1, <2>2, <2>3 DEF TypeOK, Servers
  <1>6. CASE ForeignPort
    BY <1>6, LifecycleAssumption DEF ForeignPort, TypeOK, Live, cmds
  <1> QED BY <1>1, <1>2, <1>3, <1>4, <1>5, <1>6 DEF Next

-----------------------------------------------------------------------------
(* Every step keeps the order, as long as clean holds after it *)

\* No step makes up for a start that was disturbed.
LEMMA NeverCleanAgain == TypeOK /\ [Next]_vars /\ clean' => clean
  BY DEF Next, vars, Start, Stop, Server, Listen, StartCheck, Spawn, SpawnFails, Truncate,
         WritePid, WriteFails, Killed, StopCheck, Signal, SignalFails, Gone, TimedOut, Remove,
         Boot, Bind, BindFails, Leave, Exit, Dies, Stranger, Foreground, ForeignPort

LEMMA InitOrderly == Init => Orderly
  BY DEF Init, Orderly, Alone, NoneYet, Child, Filed, Removable, Ended, Live, Servers, Starts, Stops

LEMMA StartOrderly ==
  ASSUME TypeOK, Orderly, NEW c \in Cmds, Start(c), clean' PROVE Orderly'
  <1> USE LifecycleAssumption DEF TypeOK, Orderly, Alone, NoneYet, Child, Filed, Removable, Ended,
          Live, Servers, Starts, Stops, Go, Over, machine, cmds
  <1>1. CASE StartCheck(c)
    <2>1. \A d \in Cmds : pc[d] = "idle"
      BY <1>1, Zenon DEF StartCheck
    <2>2. Live = {}
      BY <1>1, <2>1 DEF StartCheck, Running, Alive
    <2>3. pc' = [pc EXCEPT ![c] = "checked"] /\ UNCHANGED <<proc, pidfile, target>>
      BY <1>1 DEF StartCheck
    <2> QED BY <2>1, <2>2, <2>3
  <1>2. CASE \E p \in Pids : Spawn(c, p)  BY <1>2 DEF Spawn
  <1>3. CASE SpawnFails(c)  BY <1>3 DEF SpawnFails
  <1>4. CASE Truncate(c)  BY <1>4 DEF Truncate
  <1>5. CASE WritePid(c)  BY <1>5 DEF WritePid
  <1>6. CASE WriteFails(c)  BY <1>6 DEF WriteFails
  <1>7. CASE Killed(c)
    <2>1. pc[c] \notin {"spawned", "writing"}
      BY <1>7, Zenon DEF Killed
    <2>2. pc' = [pc EXCEPT ![c] = "idle"] /\ target' = [target EXCEPT ![c] = None]
      BY <1>7 DEF Killed
    <2>3. UNCHANGED <<proc, pidfile>>
      BY <1>7 DEF Killed
    <2> QED BY <2>1, <2>2, <2>3
  <1> QED BY <1>1, <1>2, <1>3, <1>4, <1>5, <1>6, <1>7 DEF Start

LEMMA StopOrderly ==
  ASSUME TypeOK, Orderly, NEW c \in Cmds, Stop(c), clean' PROVE Orderly'
  <1> USE LifecycleAssumption DEF TypeOK, Orderly, Alone, NoneYet, Child, Filed, Removable, Ended,
          Live, Servers, Starts, Stops, Go, Over, machine, cmds
  <1>1. CASE StopCheck(c)
    <2>1. \A d \in Cmds : pc[d] \notin Starts
      BY <1>1, Zenon DEF StopCheck
    <2>2. pc[c] = "idle" /\ pidfile \in Pids
      BY <1>1 DEF StopCheck, Running
    <2>3. /\ pc' = [pc EXCEPT ![c] = "found"] /\ target' = [target EXCEPT ![c] = pidfile]
          /\ UNCHANGED <<proc, pidfile>>
      BY <1>1 DEF StopCheck
    <2> QED BY <2>1, <2>2, <2>3
  <1>2. CASE Signal(c)  BY <1>2 DEF Signal, Reap, Alive
  <1>3. CASE SignalFails(c)  BY <1>3 DEF SignalFails
  <1>4. CASE Gone(c)  BY <1>4 DEF Gone, Alive
  <1>5. CASE TimedOut(c)  BY <1>5 DEF TimedOut
  <1>6. CASE Remove(c)  BY <1>6 DEF Remove
  <1> QED BY <1>1, <1>2, <1>3, <1>4, <1>5, <1>6 DEF Stop

\* What does not touch the commands and the pidfile, and makes no server.
LEMMA OthersOrderly ==
  ASSUME Orderly, Live' \subseteq Live, UNCHANGED <<pidfile, cmds>> PROVE Orderly'
  BY DEF Orderly, Alone, NoneYet, Child, Filed, Removable, Ended, cmds

LEMMA OrderStep == IInv /\ [Next]_vars => IInv'
  <1> SUFFICES ASSUME IInv, [Next]_vars, clean' PROVE Orderly'
    BY TypeStep DEF IInv
  <1>0. TypeOK /\ Orderly
    BY NeverCleanAgain DEF IInv
  <1>1. CASE UNCHANGED vars  BY <1>0, <1>1, OthersOrderly DEF vars, cmds, Live
  <1>2. CASE \E c \in Cmds : Start(c) \/ Stop(c)  BY <1>0, <1>2, StartOrderly, StopOrderly
  <1>3. CASE \E p \in Pids : Server(p)
    <2> PICK p \in Pids : Server(p)
      BY <1>3
    <2>1. Live' \subseteq Live
      BY <1>0 DEF TypeOK, Server, Listen, Boot, Bind, BindFails, Leave, Exit, Dies, Become, Reap,
                  Live, Servers
    <2>2. UNCHANGED <<pidfile, cmds>>
      BY DEF Server, Listen, Boot, Bind, BindFails, Leave, Exit, Dies, machine
    <2> QED BY <1>0, <2>1, <2>2, OthersOrderly
  <1>4. CASE \E p \in Pids : Stranger(p)
    <2>1. Live' \subseteq Live /\ UNCHANGED <<pidfile, cmds>>
      BY <1>0, <1>4 DEF TypeOK, Stranger, Become, Live, Servers, machine
    <2> QED BY <1>0, <2>1, OthersOrderly
  <1>5. CASE \E p \in Pids : Foreground(p)  BY <1>5 DEF Foreground
  <1>6. CASE ForeignPort  BY <1>0, <1>6, OthersOrderly DEF ForeignPort, Live
  <1> QED BY <1>1, <1>2, <1>3, <1>4, <1>5, <1>6 DEF Next

LEMMA Inductive == Spec => []IInv
  <1>1. Init => IInv
    BY InitTyped, InitOrderly DEF IInv
  <1> QED BY <1>1, OrderStep, PTL DEF Spec

-----------------------------------------------------------------------------
\* The types, the holder of the port and what each command names, for any number
\* of shells and processes and with every mishap.
THEOREM LifecycleTypeCorrect == Spec => []TypeOK
  <1>1. IInv => TypeOK
    BY DEF IInv
  <1> QED BY <1>1, Inductive, PTL

\* With no disturbed start there is never a second server, whatever stops overlap
\* or give up, whoever dies and whatever numbers are used again.
THEOREM OnlyOneServer == Spec => []OneServer
  <1>1. IInv => OneServer
    <2> SUFFICES ASSUME IInv, clean PROVE \A p, q \in Live : p = q
      BY DEF OneServer
    <2>1. CASE \E c \in Cmds : pc[c] \in Starts
      BY <2>1 DEF IInv, Orderly, NoneYet, Child, Starts
    <2>2. CASE \A c \in Cmds : pc[c] \notin Starts
      BY <2>2 DEF IInv, Orderly, Filed
    <2> QED BY <2>1, <2>2
  <1> QED BY <1>1, Inductive, PTL

\* With no disturbed start every server that lives between two commands is the one
\* that stop would find in revolution.pid.
THEOREM ServerIsNamed == Spec => []Named
  <1>1. IInv => Named
    BY DEF IInv, Orderly, Filed, Named, Starts
  <1> QED BY <1>1, Inductive, PTL
=============================================================================
