----------------------------- MODULE Lifecycle -----------------------------
(***************************************************************************)
(* The commands start and stop, the servers they spawn and signal, and the *)
(* three things they meet on: revolution.pid, the process numbers and the  *)
(* port.  A command is a sequence of system calls, between any two of      *)
(* which another command, a server or the rest of the machine may act.     *)
(*                                                                         *)
(* A process that has died is "free" at once: the wait of its parent is    *)
(* left out.  clean is history: FALSE once a start overlapped another      *)
(* command, died or failed after its spawn, or ran in the foreground.      *)
(***************************************************************************)
EXTENDS FiniteSets

CONSTANTS Cmds,      \* shells that run start and stop
          Pids,      \* process numbers
          Env,       \* the mishaps of this instance
          Empty,     \* a pidfile that was truncated and not written yet
          Foreign,   \* another program that listens on our port
          None

ASSUME LifecycleAssumption ==
    /\ Empty \notin Pids /\ Foreign \notin Pids /\ None \notin Pids
    /\ Empty # None /\ Foreign # None

VARIABLES
    pidfile,   \* revolution.pid: a number, Empty, or None when there is no file
    proc,      \* what each number is
    told,      \* servers whose ctx is done
    port,      \* who listens on listen_addr
    pc,        \* where each command is
    target,    \* the number the command spawned or signals
    clean      \* no start was disturbed so far (history)

vars == <<pidfile, proc, told, port, pc, target, clean>>
cmds == <<pc, target>>
machine == <<pidfile, port>>

Servers == {"booting", "starting", "serving", "closing"}
Starts == {"checked", "spawned", "writing"}
Stops == {"found", "waiting", "removing"}

Live == {p \in Pids : proc[p] \in Servers}

Init ==
    /\ pidfile = None /\ port = None
    /\ proc = [p \in Pids |-> "free"] /\ told = {}
    /\ pc = [c \in Cmds |-> "idle"] /\ target = [c \in Cmds |-> None]
    /\ clean = TRUE

Mishap(k) == k \in Env

\* processAlive: some process has the number, the server or not.
Alive(p) == proc[p] # "free"

\* Mutant: a server is looked for where it listens, not by its number.
Answering == pidfile \in Pids /\ proc[pidfile] = "serving"

\* readPid: a file that is missing, empty or about a dead process counts for none.
Running == pidfile \in Pids /\ Alive(pidfile)

Go(c, from, to) == pc[c] = from /\ pc' = [pc EXCEPT ![c] = to]

\* The command is over, whatever it prints.
Over(c, from) == Go(c, from, "idle") /\ target' = [target EXCEPT ![c] = None]

\* Process p is gone, and its listener with it.
Reap(p) ==
    /\ proc' = [proc EXCEPT ![p] = "free"] /\ told' = told \ {p}
    /\ port' = IF port = p THEN None ELSE port

-----------------------------------------------------------------------------
(* revolution start *)

StartCheck(c) ==
    /\ Go(c, "idle", "checked") /\ ~Running
    /\ clean' = (clean /\ \A d \in Cmds : pc[d] = "idle")
    /\ UNCHANGED <<machine, proc, told, target>>

\* child.Start, with any number the system gives.
Spawn(c, p) ==
    /\ Go(c, "checked", "spawned") /\ target' = [target EXCEPT ![c] = p]
    /\ proc[p] = "free" /\ proc' = [proc EXCEPT ![p] = "booting"]
    /\ UNCHANGED <<machine, told, clean>>

\* The log or the child cannot be opened.
SpawnFails(c) ==
    /\ Mishap("refused") /\ Over(c, "checked")
    /\ UNCHANGED <<machine, proc, told, clean>>

\* os.WriteFile opens with O_TRUNC, then writes.
Truncate(c) ==
    /\ Go(c, "spawned", "writing") /\ pidfile' = Empty
    /\ UNCHANGED <<proc, told, port, target, clean>>

WritePid(c) ==
    /\ Over(c, "writing") /\ pidfile' = target[c]
    /\ UNCHANGED <<proc, told, port, clean>>

\* The file cannot be opened, or not written: the child goes on.
WriteFails(c) ==
    /\ Mishap("refused") /\ (Over(c, "spawned") \/ Over(c, "writing"))
    /\ clean' = FALSE
    /\ UNCHANGED <<machine, proc, told>>

\* start --foreground, by systemd or by hand: it looks at no pidfile.
Foreground(p) ==
    /\ Mishap("foreground")
    /\ proc[p] = "free" /\ proc' = [proc EXCEPT ![p] = "booting"]
    /\ clean' = FALSE
    /\ UNCHANGED <<machine, told, cmds>>

\* A command is killed between two calls.
Killed(c) ==
    /\ Mishap("killed") /\ pc[c] # "idle" /\ Over(c, pc[c])
    /\ clean' = (clean /\ pc[c] \notin {"spawned", "writing"})
    /\ UNCHANGED <<machine, proc, told>>

-----------------------------------------------------------------------------
(* revolution stop *)

StopCheck(c) ==
    /\ Go(c, "idle", "found") /\ Running
    /\ target' = [target EXCEPT ![c] = pidfile]
    /\ clean' = (clean /\ \A d \in Cmds : pc[d] \notin Starts)
    /\ UNCHANGED <<machine, proc, told>>

\* Mutant: a server that is not at its select yet misses the signal.
SignalLost(c) ==
    LET p == target[c] IN
    /\ Go(c, "found", "waiting") /\ Alive(p)
    /\ \/ proc[p] \in {"booting", "stranger"} /\ Reap(p)
       \/ /\ proc[p] \in {"starting", "serving", "closing", "stranger"}
          /\ told' = IF proc[p] = "starting" THEN told ELSE told \cup {p}
          /\ UNCHANGED <<proc, port>>
    /\ UNCHANGED <<pidfile, target, clean>>

\* Before signal.NotifyContext SIGTERM kills; a stranger dies of it or not.
Signal(c) ==
    LET p == target[c] IN
    /\ Go(c, "found", "waiting") /\ Alive(p)
    /\ \/ proc[p] \in {"booting", "stranger"} /\ Reap(p)
       \/ proc[p] = "stranger" /\ UNCHANGED <<proc, told, port>>
       \/ /\ proc[p] \in {"starting", "serving", "closing"}
          /\ told' = told \cup {p} /\ UNCHANGED <<proc, port>>
    /\ UNCHANGED <<pidfile, target, clean>>

\* The process died in between: stop leaves the pidfile there.
SignalFails(c) ==
    /\ Over(c, "found") /\ ~Alive(target[c])
    /\ UNCHANGED <<machine, proc, told, clean>>

Gone(c) ==
    /\ Go(c, "waiting", "removing") /\ ~Alive(target[c])
    /\ UNCHANGED <<machine, proc, told, target, clean>>

\* Mutant: the pidfile goes although the process did not.
TimedOutRemoves(c) ==
    /\ Over(c, "waiting") /\ Alive(target[c])
    /\ pidfile' = None
    /\ UNCHANGED <<proc, told, port, clean>>

\* Ten seconds, which the shutdown of the server may take as well.
TimedOut(c) ==
    /\ Over(c, "waiting") /\ Alive(target[c])
    /\ UNCHANGED <<machine, proc, told, clean>>

\* os.Remove, whatever the file holds by now.
Remove(c) ==
    /\ Over(c, "removing") /\ pidfile' = None
    /\ UNCHANGED <<proc, told, port, clean>>

-----------------------------------------------------------------------------
(* The server *)

Become(p, from, to) == proc[p] = from /\ proc' = [proc EXCEPT ![p] = to]

\* The database is open and NotifyContext called.
Boot(p) ==
    /\ Become(p, "booting", "starting")
    /\ UNCHANGED <<machine, told, cmds, clean>>

Bind(p) ==
    /\ Become(p, "starting", "serving")
    /\ port = None /\ port' = p
    /\ UNCHANGED <<pidfile, told, cmds, clean>>

\* Mutant: the error of ListenAndServe is logged and never sent to errCh.
BindFailsGoesOn(p) ==
    /\ Become(p, "starting", "starting") /\ port # None
    /\ UNCHANGED <<machine, told, cmds, clean>>

\* errCh: runServer shuts down, and returns nil.
BindFails(p) ==
    /\ Become(p, "starting", "closing") /\ port # None
    /\ UNCHANGED <<machine, told, cmds, clean>>

\* Mutant: the requests end before the listener does.
LeaveListening(p) ==
    /\ p \in told
    /\ Become(p, "starting", "closing") \/ Become(p, "serving", "closing")
    /\ UNCHANGED <<machine, told, cmds, clean>>

\* ctx.Done: Shutdown closes the listener, then waits for the requests.
Leave(p) ==
    /\ p \in told
    /\ Become(p, "starting", "closing") \/ Become(p, "serving", "closing")
    /\ port' = IF port = p THEN None ELSE port
    /\ UNCHANGED <<pidfile, told, cmds, clean>>

Exit(p) ==
    /\ proc[p] = "closing" /\ Reap(p)
    /\ UNCHANGED <<pidfile, cmds, clean>>

\* An error before NotifyContext, a panic, SIGKILL.
Dies(p) ==
    /\ Mishap("crash") /\ p \in Live /\ Reap(p)
    /\ UNCHANGED <<pidfile, cmds, clean>>

-----------------------------------------------------------------------------
(* The rest of the machine *)

\* Another process of the same user gets the number, and ends.
Stranger(p) ==
    /\ Mishap("stranger")
    /\ Become(p, "free", "stranger") \/ Become(p, "stranger", "free")
    /\ UNCHANGED <<machine, told, cmds, clean>>

\* Another program takes the port, and frees it.
ForeignPort ==
    /\ Mishap("foreign")
    /\ \/ port = None /\ port' = Foreign
       \/ port = Foreign /\ port' = None
    /\ UNCHANGED <<pidfile, proc, told, cmds, clean>>

-----------------------------------------------------------------------------
Start(c) ==
    \/ StartCheck(c) \/ (\E p \in Pids : Spawn(c, p)) \/ SpawnFails(c)
    \/ Truncate(c) \/ WritePid(c) \/ WriteFails(c) \/ Killed(c)
Stop(c) ==
    StopCheck(c) \/ Signal(c) \/ SignalFails(c) \/ Gone(c) \/ TimedOut(c) \/ Remove(c)
Listen(p) == Bind(p) \/ BindFails(p)
Server(p) == Boot(p) \/ Listen(p) \/ Leave(p) \/ Exit(p) \/ Dies(p)

Next ==
    \/ \E c \in Cmds : Start(c) \/ Stop(c)
    \/ \E p \in Pids : Server(p) \/ Stranger(p) \/ Foreground(p)
    \/ ForeignPort

Spec == Init /\ [][Next]_vars

\* The scheduler runs the servers, and Shutdown is bounded by its deadline.
\* Nobody has to run a command.
FairSpec ==
    Spec /\ \A p \in Pids : /\ WF_vars(Boot(p)) /\ WF_vars(Listen(p))
                            /\ WF_vars(Leave(p)) /\ WF_vars(Exit(p))

-----------------------------------------------------------------------------
(* Properties *)

\* The port is held by a server that serves, which is told only while it runs,
\* and a command names a process from the moment it found or made one.
TypeOK ==
    /\ pidfile \in Pids \cup {Empty, None} /\ port \in Pids \cup {Foreign, None}
    /\ proc \in [Pids -> Servers \cup {"free", "stranger"}] /\ told \subseteq Live
    /\ pc \in [Cmds -> {"idle"} \cup Starts \cup Stops]
    /\ target \in [Cmds -> Pids \cup {None}] /\ clean \in BOOLEAN
    /\ \A p \in Pids : port = p <=> proc[p] = "serving"
    /\ \A c \in Cmds : target[c] = None <=> pc[c] \in {"idle", "checked"}

\* readPid and waitForExit: as long as no start is disturbed there is one server
\* at most, whatever the stops do that overlap each other or give up waiting,
\* whoever dies, and though a number may pass to a stranger or to the next server.
\* So `stop && start' finds its own port free.
OneServer == clean => \A p, q \in Live : p = q

\* revolution.pid between two commands: every server that runs can be stopped.
\* A stop never removes the file of another server, and one that gave up leaves
\* the file of a server that still shuts down.
Named ==
    (clean /\ \A c \in Cmds : pc[c] = "idle") => \A p \in Live : pidfile = p

\* However many servers were spawned, by commands that overlap, by systemd, or
\* over a pidfile that was lost, all but one end once no more are: the port
\* decides, and errCh ends the server that does not get it.
OneRemains ==
    <>[][\A p \in Pids : proc[p] = "free" => proc'[p] # "booting"]_proc
        => <>[](\A p, q \in Live : p = q)

\* The server that a stop waits for ends, also one that was still starting, and
\* also after stop gave up.  (After a start that overlaps the stop its number may
\* have gone to a server that nobody signalled.)
StopServes ==
    \A c \in Cmds, p \in Pids :
        (clean /\ pc[c] = "waiting" /\ target[c] = p /\ p \in Live) ~> p \notin Live
=============================================================================
