--------------------------- MODULE TunnelManager ---------------------------
(***************************************************************************)
(* pkg/tunnel/manager.go, composed with the SSH pool, the SOCKS server and *)
(* the VPN controller: Start and Stop as the window and the command line   *)
(* call them, runTunnel with its parallel connections, and cleanup.        *)
(*                                                                         *)
(* tm.mu is a variable, as cleanup and runTunnel hold it while they wait   *)
(* for the pool; a step that needs it for itself requires it to be free.   *)
(* Left out: logs, telemetry and the speed loop, and reconnect, which is   *)
(* the onFailure callback's, and no code calls that.                       *)
(***************************************************************************)
EXTENDS SocksServer, VPNController

CONSTANTS
  Runs,     \* bound: goroutines in runTunnel at a time
  Configs,  \* the settings to look at
  Events,   \* what the user and the environment may do
  Budget    \* bound: how many such events happen altogether

\* The goroutines of runTunnel, Stop and None are apart.
ASSUME RunsAssumption == "stop" \notin Runs /\ None \notin Runs \cup {"stop"} /\ Budget \in Nat

VARIABLES
  cfg,         \* UseVPN, AutoSetSystemProxy, AutoReconnect, SSHConcurrency > 1
  state,       \* the TunnelState
  mu,          \* who holds tm.mu from one step to the next
  cancelFn,    \* the run whose context Stop would cancel
  starts,      \* calls of Start on their way
  runs,        \* runTunnel
  parallel,    \* the goroutine of each run for its second connection
  stop,        \* Stop
  server,      \* socksServer
  dns,         \* the forwarder's socket is open, dnsForwarder names it
  proxy,       \* the registry has the proxy, sysProxyOn, and a failed clear left it there
  late,        \* clients added to a pool the manager no longer looked at
  budget

manager == <<cfg, state, mu, cancelFn, starts, runs, parallel, stop, server, dns, proxy, late, budget>>
vars == <<ssh, socks, vpn, manager>>
-----------------------------------------------------------------------------
States == {"DISCONNECTED", "CONNECTING", "INJECTING", "SSH_AUTH", "CONNECTED", "ERROR"}

RunPCs == {"free", "head", "inject", "dial", "auth", "wait", "replace", "closing", "install", "socks",
           "unbound", "unpooling", "failed", "vpn", "prepare", "launch", "setcmd", "route", "activate",
           "dns", "setdns", "proxy", "setproxy", "connect"}
StopPCs == {"idle", "begin", "vpn", "routes", "lock", "pool", "closing", "socks", "conns", "final"}

NoRun == [pc |-> "free", cancelled |-> FALSE, client |-> None, proc |-> NoProc]
NoParallel == [pc |-> "free", client |-> None, pool |-> "current"]
NoStop == [pc |-> "idle", proc |-> NoProc, calm |-> FALSE]

Spend(e) == e \in Events /\ budget > 0 /\ budget' = budget - 1

At(r, pc) == runs[r].pc = pc
Goto(r, pc) == runs' = [runs EXCEPT ![r].pc = pc]
Done(r) == runs' = [runs EXCEPT ![r] = [NoRun EXCEPT !.cancelled = runs[r].cancelled]]
ParAt(r, pc) == parallel[r].pc = pc
StopAt(pc) == stop.pc = pc
StopTo(pc) == stop' = [stop EXCEPT !.pc = pc]
Unlocked == mu = None
SetState(s) == Unlocked /\ state' = s

\* What a step of runTunnel leaves alone, and the state of the other modules.
RunKeeps == <<cfg, cancelFn, starts, parallel, stop, server, dns, proxy, late>>
Parts == <<ssh, socks, vpn>>
-----------------------------------------------------------------------------
(* Start, Stop.                                                            *)

\* onConnectToggle, which looks at a state that may be old when its goroutine
\* calls Start or Stop. The window, the command line and the web server's handler
\* call Stop in every state.
Toggle ==
  /\ Spend("toggle")
  /\ \/ StopAt("idle") /\ StopTo("begin") /\ UNCHANGED starts
     \/ /\ state \notin {"CONNECTED", "CONNECTING", "INJECTING", "SSH_AUTH"}
        /\ starts' = starts + 1 /\ UNCHANGED stop
  /\ UNCHANGED <<Parts, cfg, state, mu, cancelFn, runs, parallel, server, dns, proxy, late>>

\* Goroutines that do not run yet.
Spare == {r \in Runs : At(r, "free") /\ ParAt(r, "free")}

\* What stands in the way of a Start.
Busy == state \in {"CONNECTED", "CONNECTING", "SSH_AUTH"}

Start ==
  /\ starts > 0 /\ Unlocked
  /\ starts' = starts - 1
  /\ IF Busy THEN UNCHANGED <<runs, cancelFn, stop>>
     ELSE /\ Spare # {}
          /\ runs' = [runs EXCEPT ![Any(Spare)] = [NoRun EXCEPT !.pc = "head"]]
          /\ cancelFn' = Any(Spare)
          /\ stop' = [stop EXCEPT !.calm = FALSE]
  /\ UNCHANGED <<Parts, cfg, state, mu, parallel, server, dns, proxy, late, budget>>

Quiet == starts = 0 /\ \A r \in Runs : At(r, "free") /\ ParAt(r, "free")

StopBegin ==
  /\ StopAt("begin") /\ Unlocked
  /\ runs' = IF cancelFn = None THEN runs ELSE [runs EXCEPT ![cancelFn].cancelled = TRUE]
  /\ cancelFn' = None
  /\ stop' = [stop EXCEPT !.pc = "vpn", !.calm = Quiet]
  /\ UNCHANGED <<Parts, cfg, state, mu, starts, parallel, server, dns, proxy, late, budget>>

StopVPN ==
  /\ StopAt("vpn")
  /\ IF VPNStopped THEN StopTo("lock") /\ UNCHANGED vpn
     ELSE VPNTake /\ stop' = [stop EXCEPT !.pc = "routes", !.proc = cmd]
  /\ UNCHANGED <<ssh, socks, cfg, state, mu, cancelFn, starts, runs, parallel, server, dns, proxy, late, budget>>

StopRoutes ==
  /\ StopAt("routes")
  /\ VPNRestore(stop.proc)
  /\ stop' = [stop EXCEPT !.pc = "lock", !.proc = NoProc]
  /\ UNCHANGED <<ssh, socks, cfg, state, mu, cancelFn, starts, runs, parallel, server, dns, proxy, late, budget>>

\* cleanup takes tm.mu and closes the forwarder.
StopLock ==
  /\ StopAt("lock") /\ Unlocked
  /\ mu' = "stop"
  /\ dns' = IF dns.named THEN [open |-> FALSE, named |-> FALSE] ELSE dns
  /\ StopTo("pool")
  /\ UNCHANGED <<Parts, cfg, state, cancelFn, starts, runs, parallel, server, proxy, late, budget>>

StopPool ==
  /\ \/ StopAt("pool") /\ BeginClose("stop") /\ StopTo("closing")
     \/ StopAt("closing") /\ EndClose("stop") /\ StopTo("socks")
  /\ UNCHANGED <<socks, vpn, cfg, state, mu, cancelFn, starts, runs, parallel, server, dns, proxy, late, budget>>

\* The server cleanup closes, and what socksServer is then.
ToClose_BUG == IF state = "CONNECTED" THEN server ELSE None
ToClose == server
ServerAfterStop == None

\* The SOCKS server, in its two halves.
StopSocks ==
  /\ StopAt("socks")
  /\ IF ToClose # None THEN CloseListener(ToClose) ELSE UNCHANGED socks
  /\ StopTo("conns")
  /\ UNCHANGED <<ssh, vpn, cfg, state, mu, cancelFn, starts, runs, parallel, server, dns, proxy, late, budget>>

\* ClearWindowsSystemProxy, whose error cleanup does not look at.
Cleared == [set |-> FALSE, on |-> FALSE, left |-> FALSE]
NotCleared == [proxy EXCEPT !.on = FALSE, !.left = TRUE]

\* Its connections, the system proxy, and the end of cleanup.
StopConns ==
  /\ StopAt("conns")
  /\ IF ToClose # None THEN CloseConns(ToClose) ELSE UNCHANGED socks
  /\ server' = ServerAfterStop
  /\ \/ proxy' = (IF proxy.on THEN Cleared ELSE proxy) /\ UNCHANGED budget
     \/ proxy.on /\ Spend("proxyfail") /\ proxy' = NotCleared
  /\ mu' = None
  /\ StopTo("final")
  /\ UNCHANGED <<ssh, vpn, cfg, state, cancelFn, starts, runs, parallel, dns, late>>

StopEnd ==
  /\ StopAt("final")
  /\ SetState("DISCONNECTED")
  /\ stop' = NoStop
  /\ UNCHANGED <<Parts, cfg, mu, cancelFn, starts, runs, parallel, server, dns, proxy, late, budget>>

\* ToggleSystemProxy sets registry and flag with tm.mu held. (On an error it
\* changes neither.)
ToggleSystemProxy ==
  /\ Unlocked /\ Spend("sysproxy")
  /\ proxy' = IF proxy.on THEN Cleared ELSE [set |-> TRUE, on |-> TRUE, left |-> FALSE]
  /\ stop' = [stop EXCEPT !.calm = FALSE]
  /\ UNCHANGED <<Parts, cfg, state, mu, cancelFn, starts, runs, parallel, server, dns, late>>
-----------------------------------------------------------------------------
(* runTunnel up to the new pool.                                           *)

\* The context is looked at here and in waitRetry, nowhere else.
Ended_BUG(r) == FALSE
Ended(r) == runs[r].cancelled

Head(r) ==
  /\ At(r, "head")
  /\ \/ Ended(r) /\ Done(r) /\ UNCHANGED <<state, budget>>
     \/ ~Ended(r) /\ Spend("noconfig") /\ SetState("ERROR") /\ Done(r)
     \/ ~Ended(r) /\ SetState("CONNECTING") /\ Goto(r, "inject") /\ UNCHANGED budget
  /\ UNCHANGED <<Parts, mu, RunKeeps>>

Inject(r) ==
  /\ At(r, "inject")
  /\ SetState("INJECTING") /\ Goto(r, "dial")
  /\ UNCHANGED <<Parts, mu, budget, RunKeeps>>

Connected(r) ==
  /\ At(r, "dial")
  /\ DialPayload /\ runs' = [runs EXCEPT ![r].pc = "auth", ![r].client = Stream]
  /\ SetState("SSH_AUTH")
  /\ UNCHANGED <<socks, vpn, mu, budget, RunKeeps>>

\* The dial fails, or the handshake, which closes the stream.
AttemptFails(r) ==
  /\ \/ At(r, "dial") /\ (Spend("dialfail") \/ (runs[r].cancelled /\ UNCHANGED budget)) /\ UNCHANGED ssh
     \/ At(r, "auth") /\ Spend("authfail") /\ ConnectSSH(runs[r].client, FALSE)
  /\ SetState("ERROR")
  /\ IF cfg.reconnect THEN runs' = [runs EXCEPT ![r].pc = "wait", ![r].client = None] ELSE Done(r)
  /\ UNCHANGED <<socks, vpn, mu, RunKeeps>>

WaitRetry(r) ==
  /\ At(r, "wait")
  /\ Goto(r, "head")
  /\ UNCHANGED <<Parts, state, mu, budget, RunKeeps>>

Authenticated(r) ==
  /\ At(r, "auth")
  /\ ConnectSSH(runs[r].client, TRUE)
  /\ Goto(r, "replace")
  /\ UNCHANGED <<socks, vpn, state, mu, budget, RunKeeps>>

\* With tm.mu held the old pool is closed, and a new one takes its place.
ReplacePool(r) ==
  /\ \/ At(r, "replace") /\ Unlocked /\ BeginClose(r) /\ mu' = r /\ Goto(r, "closing")
     \/ At(r, "closing") /\ EndClose(r) /\ Goto(r, "install") /\ UNCHANGED mu
  /\ UNCHANGED <<socks, vpn, state, budget, RunKeeps>>

\* tm.mu once the pool is there.
AfterInstall_BUG(r) == r
AfterInstall(r) == None

Install(r) ==
  /\ At(r, "install")
  /\ NewSSHPool(runs[r].client)
  /\ runs' = [runs EXCEPT ![r].pc = "socks", ![r].client = None]
  /\ parallel' = [q \in Runs |->
       IF q = r /\ cfg.parallel THEN [NoParallel EXCEPT !.pc = "head"]
       ELSE IF ParAt(q, "add") THEN [parallel[q] EXCEPT !.pool = "old"] ELSE parallel[q]]
  /\ mu' = AfterInstall(r)
  /\ UNCHANGED <<socks, vpn, cfg, state, cancelFn, starts, stop, server, dns, proxy, late, budget>>

\* A client of the current pool is closed by whoever holds the pool's mutex.
CloseClient(c) ==
  /\ poolOwner # None
  /\ \/ MarkClosed(c) /\ UNCHANGED conns
     \/ FinishClose(c, Dialling) /\ conns' = Severed(c)
  /\ UNCHANGED <<servers, vpn, manager>>
-----------------------------------------------------------------------------
(* The second connection. It reads tm.sshPool before it waits for its      *)
(* mutex, so the pool it adds to may have been replaced.                   *)

ParHead(r) ==
  /\ ParAt(r, "head")
  /\ parallel' = [parallel EXCEPT ![r] = IF runs[r].cancelled THEN NoParallel ELSE [@ EXCEPT !.pc = "dial"]]
  /\ UNCHANGED <<Parts, cfg, state, mu, cancelFn, starts, runs, stop, server, dns, proxy, late, budget>>

ParConnect(r) ==
  /\ \/ /\ ParAt(r, "dial")
        /\ DialPayload /\ parallel' = [parallel EXCEPT ![r].pc = "auth", ![r].client = Stream]
        /\ UNCHANGED budget
     \/ /\ ParAt(r, "dial") /\ Spend("dialfail")
        /\ parallel' = [parallel EXCEPT ![r] = NoParallel] /\ UNCHANGED ssh
     \/ /\ ParAt(r, "auth")
        /\ ConnectSSH(parallel[r].client, TRUE)
        /\ parallel' = [parallel EXCEPT ![r].pc = "add"] /\ UNCHANGED budget
     \/ /\ ParAt(r, "auth") /\ Spend("authfail")
        /\ ConnectSSH(parallel[r].client, FALSE)
        /\ parallel' = [parallel EXCEPT ![r] = NoParallel]
  /\ UNCHANGED <<socks, vpn, cfg, state, mu, cancelFn, starts, runs, stop, server, dns, proxy, late>>

ParAdd(r) ==
  /\ ParAt(r, "add")
  /\ Add(parallel[r].client, parallel[r].pool)
  /\ late' = IF parallel[r].pool = "old" \/ \E q \in Runs : At(q, "install")
             THEN late \cup {parallel[r].client} ELSE late
  /\ parallel' = [parallel EXCEPT ![r] = NoParallel]
  /\ UNCHANGED <<socks, vpn, cfg, state, mu, cancelFn, starts, runs, stop, server, dns, proxy, budget>>
-----------------------------------------------------------------------------
(* runTunnel from the SOCKS server on.                                     *)

StartSocks(r) ==
  /\ At(r, "socks") /\ Unlocked
  /\ IF server # None THEN UNCHANGED <<socks, server>>
     ELSE NewSocksServer /\ server' = Any(Fresh)
  /\ Goto(r, IF cfg.vpn THEN "vpn" ELSE IF cfg.proxy THEN "proxy" ELSE "connect")
  /\ UNCHANGED <<ssh, vpn, cfg, state, mu, cancelFn, starts, parallel, stop, dns, proxy, late, budget>>

\* The port is taken: the pool is closed without tm.mu, and the run ends.
BindFails(r) ==
  /\ \/ At(r, "socks") /\ Unlocked /\ server = None /\ Spend("bindfail")
        /\ Goto(r, "unbound") /\ UNCHANGED <<ssh, state>>
     \/ At(r, "unbound") /\ BeginClose(r) /\ Goto(r, "unpooling") /\ UNCHANGED <<state, budget>>
     \/ At(r, "unpooling") /\ EndClose(r) /\ Goto(r, "failed") /\ UNCHANGED <<state, budget>>
     \/ At(r, "failed") /\ SetState("ERROR") /\ Done(r) /\ UNCHANGED <<ssh, budget>>
  /\ UNCHANGED <<socks, vpn, mu, RunKeeps>>

StartVPN(r) ==
  /\ \/ At(r, "vpn") /\ vpnActive /\ Goto(r, "dns") /\ UNCHANGED <<vpn, budget>>
     \/ At(r, "vpn") /\ ~vpnActive /\ vpnStarting /\ Goto(r, "connect") /\ UNCHANGED <<vpn, budget>>
     \/ At(r, "vpn") /\ VPNEnter /\ Goto(r, "prepare") /\ UNCHANGED budget
     \/ At(r, "prepare") /\ VPNPrepare /\ Goto(r, "launch") /\ UNCHANGED budget
     \/ At(r, "launch") /\ VPNFail /\ Spend("vpnfail") /\ Goto(r, "connect")
     \/ /\ At(r, "launch") /\ UNCHANGED budget
        /\ VPNLaunch /\ runs' = [runs EXCEPT ![r].pc = "setcmd", ![r].proc = NewProc]
     \/ At(r, "setcmd") /\ VPNSetCmd(runs[r].proc) /\ UNCHANGED budget
        /\ runs' = [runs EXCEPT ![r].pc = "route", ![r].proc = NoProc]
     \/ At(r, "route") /\ VPNRoute /\ Goto(r, "activate") /\ UNCHANGED budget
     \/ At(r, "activate") /\ VPNActivate /\ Goto(r, "dns") /\ UNCHANGED budget
  /\ UNCHANGED <<ssh, socks, state, mu, RunKeeps>>

\* NewDNSForwarder fails while an earlier one has the address.
StartDNS(r) ==
  /\ \/ At(r, "dns") /\ ~dns.open /\ dns' = [dns EXCEPT !.open = TRUE] /\ Goto(r, "setdns")
     \/ At(r, "dns") /\ dns.open /\ Goto(r, "connect") /\ UNCHANGED dns
     \/ At(r, "setdns") /\ Unlocked /\ dns' = [dns EXCEPT !.named = TRUE] /\ Goto(r, "connect")
  /\ UNCHANGED <<Parts, cfg, state, mu, cancelFn, starts, parallel, stop, server, proxy, late, budget>>

SetSystemProxy(r) ==
  /\ \/ At(r, "proxy") /\ proxy' = [proxy EXCEPT !.set = TRUE, !.left = FALSE] /\ Goto(r, "setproxy") /\ UNCHANGED budget
     \/ At(r, "proxy") /\ Spend("proxyfail") /\ UNCHANGED proxy /\ Goto(r, "connect")
     \/ /\ At(r, "setproxy") /\ Unlocked /\ proxy' = [proxy EXCEPT !.on = TRUE] /\ Goto(r, "connect")
        /\ UNCHANGED budget
  /\ UNCHANGED <<Parts, cfg, state, mu, cancelFn, starts, parallel, stop, server, dns, late>>

ReportConnected(r) ==
  /\ At(r, "connect")
  /\ SetState("CONNECTED") /\ Done(r)
  /\ UNCHANGED <<Parts, mu, budget, RunKeeps>>
-----------------------------------------------------------------------------
(* The environment, and the steps of the other modules.                    *)

Die(p) == Spend("procdies") /\ ProcDies(p)
          /\ UNCHANGED <<ssh, socks, cfg, state, mu, cancelFn, starts, runs, parallel, stop, server, dns, proxy, late>>

\* The monitor is there once cmd is set.
Monitor(p) ==
  /\ \A r \in Runs : runs[r].proc # p
  /\ Reap(p) \/ ClearCmd(p)
  /\ UNCHANGED <<ssh, socks, manager>>

Connect(k) == Spend("connection") /\ (\E s \in Servers : Accept(k, s))
              /\ UNCHANGED <<vpn, cfg, state, mu, cancelFn, starts, runs, parallel, stop, server, dns, proxy, late>>
LocalStep(k) == (DialReturns(k, TRUE) \/ \E pipe \in {"up", "down"} : PipeEnds(k, pipe))
                /\ UNCHANGED <<vpn, manager>>
ServerStep(k) == ConnStep(k) /\ UNCHANGED <<vpn, manager>>

Init ==
  /\ PoolInit /\ SocksInit /\ VPNInit
  /\ cfg \in Configs /\ state = "DISCONNECTED" /\ mu = None
  /\ cancelFn = None /\ starts = 0
  /\ runs = [r \in Runs |-> NoRun] /\ parallel = [r \in Runs |-> NoParallel] /\ stop = NoStop
  /\ server = None /\ dns = [open |-> FALSE, named |-> FALSE] /\ proxy = Cleared
  /\ late = {} /\ budget = Budget

RunStep(r) ==
  \/ Head(r) \/ Inject(r) \/ Connected(r) \/ WaitRetry(r) \/ Authenticated(r) \/ ReplacePool(r)
  \/ Install(r) \/ StartSocks(r) \/ BindFails(r) \/ StartVPN(r) \/ StartDNS(r) \/ SetSystemProxy(r)
  \/ ReportConnected(r)
ParStep(r) == ParHead(r) \/ ParConnect(r) \/ ParAdd(r)
StopStep == StopBegin \/ StopVPN \/ StopRoutes \/ StopLock \/ StopPool \/ StopSocks \/ StopConns \/ StopEnd

Next ==
  \/ Toggle \/ Start \/ StopStep \/ ToggleSystemProxy
  \/ \E r \in Runs : RunStep(r) \/ AttemptFails(r) \/ ParStep(r)
  \/ \E c \in Clients : CloseClient(c)
  \/ \E p \in Procs : Die(p) \/ Monitor(p)
  \/ \E k \in Conns : Connect(k) \/ LocalStep(k) \/ ServerStep(k)

Spec == Init /\ [][Next]_vars

\* A run waits for the far side. The TLS and the SSH handshake have no deadline and
\* do not look at the context: they may stay unanswered.
Waits(r) == At(r, "dial") \/ At(r, "auth")

\* What goroutines that can run do. An answer of the far side is not among it: neither
\* a handshake nor a Dial through a client has a deadline.
Progress ==
  \/ Start \/ StopStep
  \/ \E r \in Runs : (RunStep(r) /\ ~Waits(r)) \/ ParHead(r) \/ ParAdd(r)
  \/ \E c \in Clients : CloseClient(c)
  \/ \E p \in Procs : Monitor(p)
  \/ \E k \in Conns : ServerStep(k) /\ ~ConnAt(k, "dialling")

\* Some goroutine that can run does: less than the scheduler gives, and enough.
Fairness == WF_vars(Progress)

FairSpec == Spec /\ Fairness
-----------------------------------------------------------------------------
(* Properties.                                                             *)

TypeOK ==
  /\ clients \in [Clients -> {"unused", "stream", "open", "closing"}]
  /\ pool \in [Clients -> {"none", "current", "old"}]
  /\ poolOwner \in Runs \cup {"stop", None} /\ mu \in Runs \cup {"stop", None}
  /\ servers \in [Servers -> {"unused", "open", "closed", "drained"}] /\ server \in Servers \cup {None}
  /\ conns \in [Conns -> [pc : ConnPCs, server : Servers \cup {None}, local : BOOLEAN, mapped : BOOLEAN,
                          client : Clients \cup {None}, up : BOOLEAN, down : BOOLEAN]]
  /\ \A k \in Conns : ConnAt(k, "free") => conns[k] = NoConn
  /\ vpnActive \in BOOLEAN /\ vpnStarting \in BOOLEAN /\ routes \in BOOLEAN /\ stray \subseteq {"routes", "process"}
  /\ cmd \in Procs \cup {NoProc} /\ procs \in [Procs -> {"none", "running", "dead", "reaped"}]
  /\ state \in States /\ cancelFn \in Runs \cup {None} /\ starts \in Nat
  /\ runs \in [Runs -> [pc : RunPCs, cancelled : BOOLEAN, client : Clients \cup {None},
                        proc : Procs \cup {NoProc}]]
  /\ parallel \in [Runs -> [pc : {"free", "head", "dial", "auth", "add"}, client : Clients \cup {None},
                            pool : {"current", "old"}]]
  /\ stop.pc \in StopPCs /\ stop.proc \in Procs \cup {NoProc} /\ stop.calm \in BOOLEAN
  /\ dns \in [open : BOOLEAN, named : BOOLEAN] /\ proxy \in [set : BOOLEAN, on : BOOLEAN, left : BOOLEAN]
  /\ late \subseteq Clients /\ budget \in 0..Budget

\* There is never a second listener on the SOCKS port, nor one the manager
\* has lost: runs, retries and Stop race, but agree on socksServer.
SoleListener == \A s \in Servers : servers[s] = "open" => server = s

\* "Close all active client connections so goroutines unblock immediately"
\* (socks5.go:79): a connection accepted while Close runs is not forgotten.
NoneSurvivesClose ==
  \A k \in Conns : conns[k].server # None /\ servers[conns[k].server] = "drained"
                     /\ ~ConnAt(k, "accepted") => ~conns[k].local

\* No open SSH client is out of the manager's reach: replacing the pool loses
\* none, except one that its goroutine adds to a pool replaced meanwhile.
OrphansAreLate == \A c \in Clients : pool[c] = "old" /\ clients[c] # "unused" => c \in late

\* A Stop that no Start or run overlaps undoes everything, whatever races and
\* failures came before: no listener, no client, no forwarder, no proxy but one the
\* registry refused to clear, and no routes and no process but those a monitor
\* goroutine made Stop overlook.
CalmStopCleans ==
  StopAt("final") /\ stop.calm =>
    /\ server = None /\ \A s \in Servers : servers[s] # "open"
    /\ Current = {} /\ ~dns.open
    /\ proxy.set => proxy.left
    /\ routes => "routes" \in stray
    /\ \A p \in Procs : procs[p] = "running" => "process" \in stray

\* The pool waits for the client it closes, whose mutex a Dial holds (ssh.go:98, 116).
HeldUp == \E k \in Conns : ConnAt(k, "dialling") /\ clients[conns[k].client] = "closing"

\* Stop returns, whatever it meets, unless a Dial through a client is never answered:
\* that one keeps the pool from closing, and Stop, or the run that has tm.mu, with it.
StopReturns == []<>StopAt("idle") \/ <>[]HeldUp

\* A run whose context was cancelled ends, with AutoReconnect too, unless it stays for
\* ever in one dial or handshake, or behind a pool that cannot close.
CancelledRunEnds ==
  \A r \in Runs : []<>(runs[r].cancelled => At(r, "free")) \/ <>[]At(r, "dial") \/ <>[]At(r, "auth") \/ <>[]HeldUp

\* The connections of a closed server end, unless one still runs over a client added
\* after the pool was closed, or its Dial is never answered.
ConnsEnd ==
  \A k \in Conns :
    \/ []<>(conns[k].server # None /\ servers[conns[k].server] = "drained"
              => ConnAt(k, "piping") /\ conns[k].client # None)
    \/ <>[]ConnAt(k, "dialling")
=============================================================================
