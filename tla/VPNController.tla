--------------------------- MODULE VPNController ---------------------------
(***************************************************************************)
(* pkg/tunnel/vpn_windows.go: the tun2socks process, the goroutine that    *)
(* waits for its end, and the two routes that send all traffic into the    *)
(* tunnel. Neither Start nor Stop holds a lock while a command runs.       *)
(* Start's early exits before a process exists are one; the host route to  *)
(* the bug host and the adapter's settings are left out.                   *)
(***************************************************************************)
EXTENDS Integers, FiniteSets

CONSTANTS
  Procs,    \* ids of tun2socks processes
  NoProc

ASSUME ProcsAssumption == NoProc \notin Procs

VARIABLES
  vpnActive,    \* active
  vpnStarting,  \* starting
  cmd,          \* cmd
  procs,        \* "none", "running", "dead", "reaped": active cleared, cmd not yet
  routes,       \* the routes into the tunnel exist
  stray         \* what a monitor put out of Stop's reach: "routes", a "process"

vpn == <<vpnActive, vpnStarting, cmd, procs, routes, stray>>
-----------------------------------------------------------------------------
\* taskkill ends every tun2socks there is.
Killed == [p \in Procs |-> IF procs[p] = "running" THEN "dead" ELSE procs[p]]

VPNEnter ==
  /\ ~vpnActive /\ ~vpnStarting
  /\ vpnStarting' = TRUE
  /\ UNCHANGED <<vpnActive, cmd, procs, routes, stray>>

VPNFail ==
  /\ vpnStarting' = FALSE
  /\ UNCHANGED <<vpnActive, cmd, procs, routes, stray>>

VPNPrepare ==
  /\ procs' = Killed /\ stray' = stray \ {"process"}
  /\ UNCHANGED <<vpnActive, vpnStarting, cmd, routes>>

NewProc == CHOOSE p \in Procs : procs[p] = "none"

VPNLaunch ==
  /\ \E p \in Procs : procs[p] = "none"
  /\ procs' = [procs EXCEPT ![NewProc] = "running"]
  /\ UNCHANGED <<vpnActive, vpnStarting, cmd, routes, stray>>

VPNSetCmd(p) ==
  /\ cmd' = p
  /\ UNCHANGED <<vpnActive, vpnStarting, procs, routes, stray>>

VPNRoute ==
  /\ routes' = TRUE
  /\ UNCHANGED <<vpnActive, vpnStarting, cmd, procs, stray>>

VPNActivate ==
  /\ vpnActive' = TRUE /\ vpnStarting' = FALSE
  /\ UNCHANGED <<cmd, procs, routes, stray>>

\* Stop, first part: nothing to stop, or the process is taken.
VPNStopped == ~vpnActive /\ cmd = NoProc
VPNTake ==
  /\ vpnActive' = FALSE /\ cmd' = NoProc
  /\ UNCHANGED <<vpnStarting, procs, routes, stray>>

\* Stop, second part. p is the process taken.
RoutesAfterStop_BUG(p) == IF p = NoProc THEN FALSE ELSE routes
RoutesAfterStop(p) == FALSE

VPNRestore(p) ==
  /\ routes' = RoutesAfterStop(p) /\ stray' = stray \ {"routes"}
  /\ procs' = IF p # NoProc /\ procs[p] = "running" THEN [procs EXCEPT ![p] = "dead"] ELSE procs
  /\ UNCHANGED <<vpnActive, vpnStarting, cmd>>

\* The process dies by itself.
ProcDies(p) ==
  /\ procs[p] = "running"
  /\ procs' = [procs EXCEPT ![p] = "dead"]
  /\ UNCHANGED <<vpnActive, vpnStarting, cmd, routes, stray>>

\* The monitor goroutine: the flag, then whatever process cmd names by then.
\* Once neither is there, Stop leaves the routes; a process cmd does not name runs on.
Reap(p) ==
  /\ procs[p] = "dead"
  /\ vpnActive' = FALSE
  /\ procs' = [procs EXCEPT ![p] = "reaped"]
  /\ stray' = IF vpnActive /\ cmd = NoProc THEN stray \cup {"routes"} ELSE stray
  /\ UNCHANGED <<vpnStarting, cmd, routes>>

ClearCmd(p) ==
  /\ procs[p] = "reaped"
  /\ cmd' = NoProc
  /\ procs' = [procs EXCEPT ![p] = "none"]
  /\ stray' = stray \cup (IF cmd # NoProc /\ ~vpnActive THEN {"routes"} ELSE {})
                    \cup (IF cmd \notin {NoProc, p} THEN {"process"} ELSE {})
  /\ UNCHANGED <<vpnActive, vpnStarting, routes>>

VPNInit ==
  /\ vpnActive = FALSE /\ vpnStarting = FALSE /\ cmd = NoProc
  /\ procs = [p \in Procs |-> "none"] /\ routes = FALSE /\ stray = {}
=============================================================================
