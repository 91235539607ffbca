------------------------ MODULE TunnelManagerProofs ------------------------
(***************************************************************************)
(* Proofs about TunnelManager and the pool, the SOCKS server and the VPN   *)
(* controller in it, for every number of runs, clients, servers,           *)
(* connections and processes, every setting and every series of events.    *)
(***************************************************************************)
EXTENDS TunnelManager, TLAPS

RunRecord == [pc : RunPCs, cancelled : BOOLEAN, client : Clients \cup {None}, proc : Procs \cup {NoProc}]
\* The goroutine of a second connection has its client from the dial on.
ParallelRecord ==
  {x \in [pc : {"free", "head", "dial", "auth", "add"}, client : Clients \cup {None}, pool : {"current", "old"}] :
     x.pc \in {"auth", "add"} => x.client \in Clients}
StopRecord == [pc : StopPCs, proc : Procs \cup {NoProc}, calm : BOOLEAN]
ConnRecord == [pc : ConnPCs, server : Servers \cup {None}, local : BOOLEAN, mapped : BOOLEAN,
               client : Clients \cup {None}, up : BOOLEAN, down : BOOLEAN]
Owners == Runs \cup {"stop"}

(***************************************************************************)
(* What is assumed of the constants, in the form the provers use it.       *)
(***************************************************************************)
LEMMA Parameters ==
  /\ None \notin Clients /\ None \notin Servers /\ NoProc \notin Procs
  /\ "stop" \notin Runs /\ None \notin Runs /\ None # "stop" /\ Budget \in Nat
BY ClientsAssumption, ServersAssumption, ProcsAssumption, RunsAssumption

LEMMA Chosen ==
  ASSUME NEW S, S # {}
  PROVE  Any(S) \in S
BY DEF Any
-----------------------------------------------------------------------------
(* The types of the parts.                                                 *)

PoolTyped ==
  /\ clients \in [Clients -> {"unused", "stream", "open", "closing"}]
  /\ pool \in [Clients -> {"none", "current", "old"}]
  /\ poolOwner \in Owners \cup {None}
SocksTyped ==
  /\ servers \in [Servers -> {"unused", "open", "closed", "drained"}]
  /\ conns \in [Conns -> ConnRecord]
  /\ \A k \in Conns : ConnAt(k, "free") => conns[k] = NoConn
VPNTyped ==
  /\ vpnActive \in BOOLEAN /\ vpnStarting \in BOOLEAN /\ routes \in BOOLEAN
  /\ stray \subseteq {"routes", "process"}
  /\ cmd \in Procs \cup {NoProc} /\ procs \in [Procs -> {"none", "running", "dead", "reaped"}]
ManagerTyped ==
  /\ state \in States /\ mu \in Owners \cup {None} /\ cancelFn \in Runs \cup {None} /\ starts \in Nat
  /\ runs \in [Runs -> RunRecord] /\ parallel \in [Runs -> ParallelRecord] /\ stop \in StopRecord
  /\ server \in Servers \cup {None}
  /\ dns \in [open : BOOLEAN, named : BOOLEAN] /\ proxy \in [set : BOOLEAN, on : BOOLEAN, left : BOOLEAN]
  /\ late \subseteq Clients /\ budget \in 0..Budget
Typed == PoolTyped /\ SocksTyped /\ VPNTyped /\ ManagerTyped

(***************************************************************************)
(* The operations of the pool and of the clients.                          *)
(***************************************************************************)
PoolMoves ==
  \/ UNCHANGED ssh \/ DialPayload
  \/ \E c \in Clients \cup {None} : \E ok \in BOOLEAN : ConnectSSH(c, ok)
  \/ \E c \in Clients \cup {None} : NewSSHPool(c) \/ \E p \in {"current", "old"} : Add(c, p)
  \/ \E owner \in Owners : BeginClose(owner) \/ EndClose(owner)
  \/ \E c \in Clients : MarkClosed(c) \/ FinishClose(c, Dialling)

LEMMA PoolKeepsType ==
  ASSUME PoolTyped, PoolMoves
  PROVE  PoolTyped'
PROOF
  <1>1. CASE UNCHANGED ssh
    BY <1>1 DEF ssh, PoolTyped
  <1>2. CASE DialPayload
    BY <1>2 DEF DialPayload, PoolTyped
  <1>3. ASSUME NEW c, NEW ok, ConnectSSH(c, ok) PROVE PoolTyped'
    BY <1>3 DEF ConnectSSH, PoolTyped
  <1>4. ASSUME NEW c, NewSSHPool(c) PROVE PoolTyped'
    BY <1>4 DEF NewSSHPool, PoolTyped
  <1>5. ASSUME NEW c, NEW p \in {"current", "old"}, Add(c, p) PROVE PoolTyped'
    BY <1>5 DEF Add, PoolTyped
  <1>6. ASSUME NEW owner \in Owners, BeginClose(owner) \/ EndClose(owner) PROVE PoolTyped'
    BY <1>6 DEF BeginClose, EndClose, PoolTyped
  <1>7. ASSUME NEW c, MarkClosed(c) \/ FinishClose(c, Dialling) PROVE PoolTyped'
    BY <1>7 DEF MarkClosed, FinishClose, PoolTyped
  <1>8. QED BY <1>1, <1>2, <1>3, <1>4, <1>5, <1>6, <1>7 DEF PoolMoves

(***************************************************************************)
(* The operations of the SOCKS server and its connections.                 *)
(***************************************************************************)
LEMMA NoConnType == NoConn \in ConnRecord
BY DEF NoConn, ConnRecord, ConnPCs

\* A connection that changes, and does not become a free slot of its own accord.
LEMMA ConnKeepsType ==
  ASSUME SocksTyped, NEW k \in Conns, NEW x \in ConnRecord, x.pc = "free" => x = NoConn,
         conns' = [conns EXCEPT ![k] = x], UNCHANGED servers
  PROVE  SocksTyped'
PROOF
  <1>1. conns' \in [Conns -> ConnRecord]
    BY DEF SocksTyped
  <1>2. ASSUME NEW j \in Conns, conns'[j].pc = "free" PROVE conns'[j] = NoConn
    BY <1>2 DEF SocksTyped, ConnAt
  <1>3. QED BY <1>1, <1>2 DEF SocksTyped, ConnAt

(***************************************************************************)
(* What a step of a connection makes of it: a free slot, one that was just *)
(* accepted or registered, or the same one with other pipes or client.     *)
(***************************************************************************)
ConnBecomes(k, x) ==
  /\ x \in ConnRecord /\ conns' = [conns EXCEPT ![k] = x] /\ UNCHANGED servers
  /\ \/ x = NoConn
     \/ x.pc = "accepted" /\ x.server \in Servers /\ servers[x.server] = "open" /\ x.mapped = FALSE
     \/ /\ x.pc \notin {"free", "accepted"}
        /\ x.server = conns[k].server /\ x.local = conns[k].local
        /\ \/ x.mapped = conns[k].mapped /\ conns[k].pc \notin {"free", "accepted"}
           \/ x.mapped = TRUE /\ conns[k].pc = "accepted" /\ servers[conns[k].server] = "open"
ConnGoesOn(k) == \E x : ConnBecomes(k, x)

LEMMA GoesOnWith ==
  ASSUME SocksTyped, NEW k \in Conns, NEW pc \in ConnPCs \ {"free", "accepted"},
         NEW c \in Clients \cup {None}, NEW up \in BOOLEAN, NEW down \in BOOLEAN, UNCHANGED servers,
         conns[k].pc \notin {"free", "accepted"},
         \/ conns' = [conns EXCEPT ![k].pc = pc]
         \/ conns' = [conns EXCEPT ![k].pc = pc, ![k].client = c]
         \/ conns' = [conns EXCEPT ![k].pc = pc, ![k].up = up, ![k].down = down]
  PROVE  ConnGoesOn(k)
PROOF
  <1> DEFINE o == conns[k]
             x1 == [o EXCEPT !.pc = pc]
             x2 == [o EXCEPT !.pc = pc, !.client = c]
             x3 == [o EXCEPT !.pc = pc, !.up = up, !.down = down]
  <1>0. o \in ConnRecord /\ conns \in [Conns -> ConnRecord]
    BY DEF SocksTyped
  <1>1. conns' = [conns EXCEPT ![k] = x1] \/ conns' = [conns EXCEPT ![k] = x2] \/ conns' = [conns EXCEPT ![k] = x3]
    BY <1>0
  <1> HIDE DEF o
  <1>2. x1 \in ConnRecord /\ x1.pc = pc /\ x1.server = o.server /\ x1.local = o.local /\ x1.mapped = o.mapped
    BY <1>0 DEF ConnRecord
  <1>3. x2 \in ConnRecord /\ x2.pc = pc /\ x2.server = o.server /\ x2.local = o.local /\ x2.mapped = o.mapped
    BY <1>0 DEF ConnRecord
  <1>4. x3 \in ConnRecord /\ x3.pc = pc /\ x3.server = o.server /\ x3.local = o.local /\ x3.mapped = o.mapped
    BY <1>0 DEF ConnRecord
  <1> HIDE DEF x1, x2, x3
  <1>5. pc \notin {"free", "accepted"}
    OBVIOUS
  <1>6. QED BY <1>1, <1>2, <1>3, <1>4, <1>5 DEF ConnGoesOn, ConnBecomes, o

LEMMA Failing ==
  ASSUME SocksTyped, NEW k \in Conns, conns[k].pc \notin {"free", "accepted"}, Fails(k), UNCHANGED servers
  PROVE  ConnGoesOn(k)
PROOF
  <1>1. "ending" \in ConnPCs \ {"free", "accepted"} /\ None \in Clients \cup {None}
    BY DEF ConnPCs
  <1>2. conns' = [conns EXCEPT ![k].pc = "ending", ![k].client = None]
    BY DEF Fails
  <1>3. QED BY <1>1, <1>2, GoesOnWith

LEMMA PipeEnding ==
  ASSUME SocksTyped, NEW k \in Conns, NEW pipe \in {"up", "down"}, PipeEnds(k, pipe)
  PROVE  ConnGoesOn(k)
PROOF
  <1> DEFINE o == conns[k]
             x1 == [o EXCEPT !.up = FALSE]
             x2 == [o EXCEPT !.down = FALSE]
  <1>0. o \in ConnRecord /\ conns \in [Conns -> ConnRecord] /\ UNCHANGED servers /\ o.pc = "piping"
    BY DEF SocksTyped, PipeEnds, ConnAt
  <1>1. conns' = [conns EXCEPT ![k] = x1] \/ conns' = [conns EXCEPT ![k] = x2]
    <2>1. CASE pipe = "up"
      BY <1>0, <2>1 DEF PipeEnds
    <2>2. CASE pipe = "down"
      BY <1>0, <2>2 DEF PipeEnds
    <2>3. QED BY <2>1, <2>2
  <1> HIDE DEF o
  <1>2. x1 \in ConnRecord /\ x1.pc = o.pc /\ x1.server = o.server /\ x1.local = o.local /\ x1.mapped = o.mapped
    BY <1>0 DEF ConnRecord
  <1>3. x2 \in ConnRecord /\ x2.pc = o.pc /\ x2.server = o.server /\ x2.local = o.local /\ x2.mapped = o.mapped
    BY <1>0 DEF ConnRecord
  <1> HIDE DEF x1, x2
  <1>4. QED BY <1>0, <1>1, <1>2, <1>3 DEF ConnGoesOn, ConnBecomes, o

LEMMA ConnSteps ==
  ASSUME SocksTyped, NEW k \in Conns,
         \/ \E s \in Servers : Accept(k, s)
         \/ ConnStep(k) \/ DialReturns(k, TRUE) \/ \E pipe \in {"up", "down"} : PipeEnds(k, pipe)
  PROVE  ConnGoesOn(k)
PROOF
  <1>0. conns[k] \in ConnRecord /\ conns \in [Conns -> ConnRecord] /\ NoConn \in ConnRecord
    BY NoConnType DEF SocksTyped
  <1>1. ASSUME NEW s \in Servers, Accept(k, s) PROVE ConnGoesOn(k)
    <2> DEFINE x == [NoConn EXCEPT !.pc = "accepted", !.server = s, !.local = TRUE]
    <2>1. x \in ConnRecord /\ x.pc = "accepted" /\ x.server = s /\ x.mapped = FALSE
      BY DEF NoConn, ConnRecord, ConnPCs
    <2>2. conns' = [conns EXCEPT ![k] = x] /\ UNCHANGED servers /\ servers[s] = "open"
      BY <1>1 DEF Accept
    <2> HIDE DEF x
    <2>3. QED BY <2>1, <2>2 DEF ConnGoesOn, ConnBecomes
  <1>2. CASE Register(k)
    <2> DEFINE x == [conns[k] EXCEPT !.pc = "handshake", !.mapped = TRUE]
    <2>1. /\ x \in ConnRecord /\ x.pc = "handshake" /\ x.mapped = TRUE
          /\ x.server = conns[k].server /\ x.local = conns[k].local
      BY <1>0 DEF ConnRecord, ConnPCs
    <2>2. conns[k].pc = "accepted" /\ UNCHANGED servers
      BY <1>2 DEF Register, ConnAt
    <2>3. CASE Refused(k)
      <3>1. conns' = [conns EXCEPT ![k] = NoConn]
        BY <1>2, <2>3 DEF Register
      <3>2. QED BY <1>0, <2>2, <3>1 DEF ConnGoesOn, ConnBecomes
    <2>4. CASE ~Refused(k)
      <3>1. conns' = [conns EXCEPT ![k] = x] /\ servers[conns[k].server] = "open"
        BY <1>2, <2>4 DEF Register, Refused
      <3> HIDE DEF x
      <3>2. QED BY <2>1, <2>2, <3>1 DEF ConnGoesOn, ConnBecomes
    <2>5. QED BY <2>3, <2>4
  <1>3. CASE HandshakeFails(k)
    BY <1>3, Failing DEF HandshakeFails, ConnAt
  <1>4. CASE GetClient(k)
    <2>1. conns[k].pc = "handshake" /\ UNCHANGED servers
      BY <1>4 DEF GetClient, ConnAt
    <2>2. CASE Got = {}
      BY <1>4, <2>1, <2>2, Failing DEF GetClient
    <2>3. CASE Got # {}
      <3>1. PICK c \in Got : conns' = [conns EXCEPT ![k].pc = "got", ![k].client = c]
        BY <1>4, <2>3 DEF GetClient
      <3>2. c \in Clients \cup {None} /\ "got" \in ConnPCs \ {"free", "accepted"}
        BY DEF Got, Current, ConnPCs
      <3>3. QED BY <2>1, <3>1, <3>2, GoesOnWith
    <2>4. QED BY <2>2, <2>3
  <1>5. CASE Dial(k)
    <2>1. conns[k].pc = "got" /\ UNCHANGED servers /\ "dialling" \in ConnPCs \ {"free", "accepted"}
      BY <1>5 DEF Dial, ConnAt, ConnPCs
    <2>2. Fails(k) \/ conns' = [conns EXCEPT ![k].pc = "dialling"]
      BY <1>5 DEF Dial
    <2>3. QED BY <2>1, <2>2, Failing, GoesOnWith
  <1>6. ASSUME NEW ok, DialReturns(k, ok) PROVE ConnGoesOn(k)
    <2>1. conns[k].pc = "dialling" /\ UNCHANGED servers /\ "piping" \in ConnPCs \ {"free", "accepted"}
      BY <1>6 DEF DialReturns, ConnAt, ConnPCs
    <2>2. Fails(k) \/ conns' = [conns EXCEPT ![k].pc = "piping", ![k].up = TRUE, ![k].down = TRUE]
      BY <1>6 DEF DialReturns
    <2>3. QED BY <2>1, <2>2, Failing, GoesOnWith
  <1>7. CASE PipesDone(k)
    BY <1>7, Failing DEF PipesDone, ConnAt
  <1>8. CASE Leave(k)
    <2>1. conns' = [conns EXCEPT ![k] = NoConn] /\ UNCHANGED servers
      BY <1>8 DEF Leave, Left
    <2>2. QED BY <1>0, <2>1 DEF ConnGoesOn, ConnBecomes
  <1>9. QED BY <1>1, <1>2, <1>3, <1>4, <1>5, <1>6, <1>7, <1>8, PipeEnding DEF ConnStep, PipeBreaks

\* The other changes of connections: those of a server, and of a client.
SocksMoves ==
  \/ UNCHANGED socks \/ NewSocksServer
  \/ \E k \in Conns : ConnGoesOn(k)
  \/ \E s \in Servers \cup {None} : CloseListener(s) \/ CloseConns(s)
  \/ UNCHANGED servers /\ \E c \in Clients : conns' = Severed(c)

LEMMA SocksKeepsType ==
  ASSUME SocksTyped, SocksMoves
  PROVE  SocksTyped'
PROOF
  <1>0. conns \in [Conns -> ConnRecord] /\ NoConn.pc = "free" /\ NoConn.client = None /\ NoConn.mapped = FALSE
        /\ NoConn.local = FALSE
    BY DEF SocksTyped, NoConn
  <1>1. CASE UNCHANGED socks
    BY <1>1 DEF socks, SocksTyped, ConnAt
  <1>2. CASE NewSocksServer
    BY <1>2 DEF NewSocksServer, SocksTyped, ConnAt
  <1>3. ASSUME NEW k \in Conns, NEW x, ConnBecomes(k, x) PROVE SocksTyped'
    BY <1>3, ConnKeepsType DEF ConnBecomes
  <1>4. ASSUME NEW s, CloseListener(s) PROVE SocksTyped'
    BY <1>4 DEF CloseListener, SocksTyped, ConnAt
  <1>5. ASSUME NEW s, CloseConns(s) PROVE SocksTyped'
    <2>1. servers' \in [Servers -> {"unused", "open", "closed", "drained"}]
      BY <1>5 DEF CloseConns, SocksTyped
    <2>2. conns' = [k \in Conns |-> IF Drained(k, s) THEN [conns[k] EXCEPT !.local = FALSE, !.mapped = FALSE]
                                    ELSE conns[k]]
      BY <1>5 DEF CloseConns
    <2>3. ASSUME NEW k \in Conns
          PROVE  conns'[k] \in ConnRecord /\ (conns'[k].pc = "free" => conns'[k] = NoConn)
      <3>1. conns[k] \in ConnRecord /\ (conns[k].pc = "free" => conns[k] = NoConn)
        BY DEF SocksTyped, ConnAt
      <3>2. CASE ~Drained(k, s)
        BY <2>2, <3>1, <3>2
      <3>3. CASE Drained(k, s)
        <4> DEFINE x == [conns[k] EXCEPT !.local = FALSE, !.mapped = FALSE]
        <4>1. x \in ConnRecord /\ x.pc = conns[k].pc
          BY <3>1 DEF ConnRecord
        <4>2. conns[k].pc # "free"
          BY <3>1, <3>3, <1>0 DEF Drained
        <4>3. conns'[k] = x
          BY <2>2, <3>3
        <4> HIDE DEF x
        <4>4. QED BY <4>1, <4>2, <4>3
      <3>4. QED BY <3>2, <3>3
    <2>4. QED BY <2>1, <2>2, <2>3 DEF SocksTyped, ConnAt
  <1>6. ASSUME UNCHANGED servers, NEW c \in Clients, conns' = Severed(c) PROVE SocksTyped'
    <2>1. ASSUME NEW k \in Conns
          PROVE  conns'[k] \in ConnRecord /\ (conns'[k].pc = "free" => conns'[k] = NoConn)
      <3>1. conns[k] \in ConnRecord /\ (conns[k].pc = "free" => conns[k] = NoConn)
        BY DEF SocksTyped, ConnAt
      <3>2. CASE conns[k].client # c
        BY <1>6, <3>1, <3>2 DEF Severed
      <3>3. CASE conns[k].client = c
        <4> DEFINE x == [conns[k] EXCEPT !.client = None]
        <4>1. x \in ConnRecord /\ x.pc = conns[k].pc
          BY <3>1 DEF ConnRecord
        <4>2. conns[k].pc # "free"
          BY <3>1, <3>3, <1>0, Parameters
        <4>3. conns'[k] = x
          BY <1>6, <3>3 DEF Severed
        <4> HIDE DEF x
        <4>4. QED BY <4>1, <4>2, <4>3
      <3>4. QED BY <3>2, <3>3
    <2>2. conns' = [k \in Conns |-> conns'[k]]
      BY <1>6 DEF Severed
    <2>3. QED BY <1>6, <2>1, <2>2 DEF SocksTyped, ConnAt
  <1>7. QED BY <1>1, <1>2, <1>3, <1>4, <1>5, <1>6 DEF SocksMoves, ConnGoesOn

(***************************************************************************)
(* The operations of the VPN controller.                                   *)
(***************************************************************************)
VPNMoves ==
  \/ UNCHANGED vpn \/ VPNEnter \/ VPNFail \/ VPNPrepare \/ VPNLaunch \/ VPNRoute \/ VPNActivate \/ VPNTake
  \/ \E p \in Procs \cup {NoProc} : VPNSetCmd(p) \/ VPNRestore(p)
  \/ \E p \in Procs : ProcDies(p) \/ Reap(p) \/ ClearCmd(p)

LEMMA VPNKeepsType ==
  ASSUME VPNTyped, VPNMoves
  PROVE  VPNTyped'
PROOF
  <1>1. CASE UNCHANGED vpn
    BY <1>1 DEF vpn, VPNTyped
  <1>2. CASE VPNEnter \/ VPNFail \/ VPNRoute \/ VPNActivate \/ VPNTake
    BY <1>2 DEF VPNEnter, VPNFail, VPNRoute, VPNActivate, VPNTake, VPNTyped
  <1>3. CASE VPNPrepare \/ VPNLaunch
    BY <1>3 DEF VPNPrepare, Killed, VPNLaunch, VPNTyped
  <1>4. ASSUME NEW p \in Procs \cup {NoProc}, VPNSetCmd(p) \/ VPNRestore(p) PROVE VPNTyped'
    BY <1>4 DEF VPNSetCmd, VPNRestore, RoutesAfterStop, VPNTyped
  <1>5. ASSUME NEW p \in Procs, ProcDies(p) \/ Reap(p) \/ ClearCmd(p) PROVE VPNTyped'
    BY <1>5 DEF ProcDies, Reap, ClearCmd, VPNTyped
  <1>6. QED BY <1>1, <1>2, <1>3, <1>4, <1>5 DEF VPNMoves
-----------------------------------------------------------------------------
(* A step of the manager is a step of each part, or leaves it alone.       *)

LEMMA PartsMove ==
  ASSUME Typed, [Next]_vars
  PROVE  PoolMoves /\ SocksMoves /\ VPNMoves
PROOF
  <1> USE DEF Parts, RunKeeps, manager
  <1>0. /\ runs \in [Runs -> RunRecord] /\ parallel \in [Runs -> ParallelRecord] /\ stop \in StopRecord
        /\ server \in Servers \cup {None} /\ Runs \subseteq Owners /\ "stop" \in Owners
        /\ \A r \in Runs : /\ runs[r].client \in Clients \cup {None} /\ runs[r].proc \in Procs \cup {NoProc}
                           /\ parallel[r].client \in Clients \cup {None} /\ parallel[r].pool \in {"current", "old"}
        /\ stop.proc \in Procs \cup {NoProc}
    BY DEF Typed, ManagerTyped, RunRecord, ParallelRecord, StopRecord, Owners
  <1>1. ASSUME UNCHANGED <<ssh, socks, vpn>> PROVE PoolMoves /\ SocksMoves /\ VPNMoves
    BY <1>1 DEF PoolMoves, SocksMoves, VPNMoves
  <1>2. ASSUME PoolMoves, UNCHANGED <<socks, vpn>> PROVE PoolMoves /\ SocksMoves /\ VPNMoves
    BY <1>2 DEF SocksMoves, VPNMoves
  <1>3. ASSUME SocksMoves, UNCHANGED <<ssh, vpn>> PROVE PoolMoves /\ SocksMoves /\ VPNMoves
    BY <1>3 DEF PoolMoves, VPNMoves
  <1>4. ASSUME VPNMoves, UNCHANGED <<ssh, socks>> PROVE PoolMoves /\ SocksMoves /\ VPNMoves
    BY <1>4 DEF PoolMoves, SocksMoves
  <1> DEFINE Goal == PoolMoves /\ SocksMoves /\ VPNMoves
  <1>5. CASE Toggle \/ Start \/ StopBegin \/ StopLock \/ StopEnd \/ ToggleSystemProxy
    BY <1>1, <1>5 DEF Toggle, Start, StopBegin, StopLock, StopEnd, ToggleSystemProxy
  <1>6. CASE StopVPN \/ StopRoutes
    <2>1. VPNMoves /\ UNCHANGED <<ssh, socks>>
      BY <1>0, <1>6 DEF StopVPN, StopRoutes, VPNMoves
    <2>2. QED BY <2>1, <1>4
  <1>7. CASE StopPool
    <2>1. PoolMoves /\ UNCHANGED <<socks, vpn>>
      BY <1>0, <1>7 DEF StopPool, PoolMoves
    <2>2. QED BY <2>1, <1>2
  <1>8. CASE StopSocks \/ StopConns
    <2>1. SocksMoves /\ UNCHANGED <<ssh, vpn>>
      BY <1>0, <1>8 DEF StopSocks, StopConns, ToClose, SocksMoves
    <2>2. QED BY <2>1, <1>3
  <1>9. ASSUME NEW r \in Runs, RunStep(r) \/ AttemptFails(r) \/ ParStep(r) PROVE Goal
    <2>1. CASE Head(r) \/ Inject(r) \/ WaitRetry(r) \/ StartDNS(r) \/ SetSystemProxy(r) \/ ReportConnected(r)
               \/ ParHead(r)
      BY <1>1, <2>1 DEF Head, Inject, WaitRetry, StartDNS, SetSystemProxy, ReportConnected, ParHead
    <2>2. CASE Connected(r) \/ Authenticated(r) \/ ReplacePool(r) \/ Install(r) \/ BindFails(r)
      <3>1. PoolMoves /\ UNCHANGED <<socks, vpn>>
        BY <1>0, <2>2 DEF Connected, Authenticated, ReplacePool, Install, BindFails, PoolMoves
      <3>2. QED BY <3>1, <1>2
    <2>3. CASE AttemptFails(r)
      <3>1. PoolMoves /\ UNCHANGED <<socks, vpn>>
        BY <1>0, <2>3 DEF AttemptFails, PoolMoves
      <3>2. QED BY <3>1, <1>2
    <2>4. CASE ParConnect(r) \/ ParAdd(r)
      <3>1. PoolMoves /\ UNCHANGED <<socks, vpn>>
        BY <1>0, <2>4 DEF ParConnect, ParAdd, PoolMoves
      <3>2. QED BY <3>1, <1>2
    <2>5. CASE StartSocks(r)
      <3>1. SocksMoves /\ UNCHANGED <<ssh, vpn>>
        BY <2>5 DEF StartSocks, SocksMoves
      <3>2. QED BY <3>1, <1>3
    <2>6. CASE StartVPN(r)
      <3>1. VPNMoves /\ UNCHANGED <<ssh, socks>>
        BY <1>0, <2>6 DEF StartVPN, VPNMoves
      <3>2. QED BY <3>1, <1>4
    <2>7. QED BY <1>9, <2>1, <2>2, <2>3, <2>4, <2>5, <2>6 DEF RunStep, ParStep
  <1>10. ASSUME NEW c \in Clients, CloseClient(c) PROVE Goal
    <2>1. PoolMoves
      BY <1>10 DEF CloseClient, PoolMoves
    <2>2. SocksMoves
      BY <1>10 DEF CloseClient, SocksMoves, socks
    <2>3. VPNMoves
      BY <1>10 DEF CloseClient, VPNMoves
    <2>4. QED BY <2>1, <2>2, <2>3
  <1>11. ASSUME NEW p \in Procs, Die(p) \/ Monitor(p) PROVE Goal
    <2>1. VPNMoves /\ UNCHANGED <<ssh, socks>>
      BY <1>11 DEF Die, Monitor, VPNMoves
    <2>2. QED BY <2>1, <1>4
  <1>12. ASSUME NEW k \in Conns, Connect(k) \/ LocalStep(k) \/ ServerStep(k) PROVE Goal
    <2>1. ConnGoesOn(k)
      BY <1>12, ConnSteps DEF Connect, LocalStep, ServerStep, Typed
    <2>2. UNCHANGED <<ssh, vpn>>
      BY <1>12 DEF Connect, LocalStep, ServerStep, Accept, ConnStep, Register, HandshakeFails, GetClient, Dial,
                   DialReturns, PipeBreaks, PipeEnds, PipesDone, Leave
    <2>3. QED BY <2>1, <2>2, <1>3 DEF SocksMoves
  <1>13. CASE UNCHANGED vars
    BY <1>1, <1>13 DEF vars
  <1>14. QED
    BY <1>5, <1>6, <1>7, <1>8, <1>9, <1>10, <1>11, <1>12, <1>13 DEF Next, StopStep

(***************************************************************************)
(* The goroutine of a run, in each of the forms in which it goes on.       *)
(***************************************************************************)
RunGoesOn(r, pc) ==
  \/ runs' = [runs EXCEPT ![r].pc = pc]
  \/ \E c \in Clients \cup {None} : runs' = [runs EXCEPT ![r].pc = pc, ![r].client = c]
  \/ \E p \in Procs \cup {NoProc} : runs' = [runs EXCEPT ![r].pc = pc, ![r].proc = p]

LEMMA NoRunType ==
  /\ NoRun \in RunRecord /\ NoParallel \in ParallelRecord /\ NoStop \in StopRecord
  /\ \A cancelled \in BOOLEAN : [NoRun EXCEPT !.cancelled = cancelled] \in RunRecord
  /\ \A pc \in RunPCs : [NoRun EXCEPT !.pc = pc] \in RunRecord
BY DEF NoRun, NoParallel, NoStop, RunRecord, ParallelRecord, StopRecord, RunPCs, StopPCs

LEMMA RunsKeepType ==
  ASSUME runs \in [Runs -> RunRecord], NEW r \in Runs, NEW pc \in RunPCs,
         RunGoesOn(r, pc) \/ Done(r) \/ UNCHANGED runs
  PROVE  runs' \in [Runs -> RunRecord]
PROOF
  <1>0. runs[r] \in RunRecord /\ runs[r].cancelled \in BOOLEAN
    BY DEF RunRecord
  <1>1. CASE runs' = [runs EXCEPT ![r].pc = pc]
    <2>1. [runs[r] EXCEPT !.pc = pc] \in RunRecord
      BY <1>0 DEF RunRecord
    <2>2. QED BY <1>1, <2>1
  <1>2. ASSUME NEW c \in Clients \cup {None}, runs' = [runs EXCEPT ![r].pc = pc, ![r].client = c]
        PROVE  runs' \in [Runs -> RunRecord]
    <2>1. [runs[r] EXCEPT !.pc = pc, !.client = c] \in RunRecord
      BY <1>0 DEF RunRecord
    <2>2. QED BY <1>2, <2>1
  <1>3. ASSUME NEW p \in Procs \cup {NoProc}, runs' = [runs EXCEPT ![r].pc = pc, ![r].proc = p]
        PROVE  runs' \in [Runs -> RunRecord]
    <2>1. [runs[r] EXCEPT !.pc = pc, !.proc = p] \in RunRecord
      BY <1>0 DEF RunRecord
    <2>2. QED BY <1>3, <2>1
  <1>4. CASE Done(r)
    <2>1. [NoRun EXCEPT !.cancelled = runs[r].cancelled] \in RunRecord
      BY <1>0, NoRunType
    <2>2. QED BY <1>4, <2>1 DEF Done
  <1>5. QED BY <1>1, <1>2, <1>3, <1>4 DEF RunGoesOn

LEMMA StopKeepsType ==
  ASSUME stop \in StopRecord,
         \/ UNCHANGED stop \/ stop' = NoStop
         \/ \E pc \in StopPCs : \/ StopTo(pc)
                                \/ \E p \in Procs \cup {NoProc} : stop' = [stop EXCEPT !.pc = pc, !.proc = p]
                                \/ \E calm \in BOOLEAN : stop' = [stop EXCEPT !.pc = pc, !.calm = calm]
         \/ stop' = [stop EXCEPT !.calm = FALSE]
  PROVE  stop' \in StopRecord
BY NoRunType DEF StopTo, StopRecord

LEMMA ParallelKeepsType ==
  ASSUME parallel \in [Runs -> ParallelRecord], NEW r \in Runs,
         \/ UNCHANGED parallel \/ parallel' = [parallel EXCEPT ![r] = NoParallel]
         \/ parallel' = [parallel EXCEPT ![r].pc = "dial"]
         \/ parallel' = [parallel EXCEPT ![r].pc = "add"] /\ parallel[r].pc = "auth"
         \/ \E c \in Clients : parallel' = [parallel EXCEPT ![r].pc = "auth", ![r].client = c]
  PROVE  parallel' \in [Runs -> ParallelRecord]
PROOF
  <1>0. parallel[r] \in ParallelRecord
    OBVIOUS
  <1>1. ASSUME NEW pc \in {"dial", "add"}, parallel' = [parallel EXCEPT ![r].pc = pc],
               pc = "add" => parallel[r].pc = "auth"
        PROVE  parallel' \in [Runs -> ParallelRecord]
    <2> DEFINE x == [parallel[r] EXCEPT !.pc = pc]
    <2>1. x.pc = pc /\ x.client = parallel[r].client
      BY <1>0 DEF ParallelRecord
    <2>2. x \in [pc : {"free", "head", "dial", "auth", "add"}, client : Clients \cup {None}, pool : {"current", "old"}]
      BY <1>0 DEF ParallelRecord
    <2>3. pc = "add" => parallel[r].client \in Clients
      BY <1>0, <1>1 DEF ParallelRecord
    <2>4. parallel' = [parallel EXCEPT ![r] = x]
      BY <1>1
    <2> HIDE DEF x
    <2>5. x \in ParallelRecord
      BY <2>1, <2>2, <2>3 DEF ParallelRecord
    <2>6. QED BY <2>4, <2>5
  <1>2. ASSUME NEW c \in Clients, parallel' = [parallel EXCEPT ![r].pc = "auth", ![r].client = c]
        PROVE  parallel' \in [Runs -> ParallelRecord]
    <2> DEFINE x == [parallel[r] EXCEPT !.pc = "auth", !.client = c]
    <2>1. /\ x \in [pc : {"free", "head", "dial", "auth", "add"}, client : Clients \cup {None},
                    pool : {"current", "old"}]
          /\ x.client \in Clients
      BY <1>0 DEF ParallelRecord
    <2>2. parallel' = [parallel EXCEPT ![r] = x]
      BY <1>2
    <2> HIDE DEF x
    <2>3. x \in ParallelRecord
      BY <2>1 DEF ParallelRecord
    <2>4. QED BY <2>2, <2>3
  <1>3. QED BY <1>1, <1>2, NoRunType

(***************************************************************************)
(* What the steps of a run do to it.                                       *)
(***************************************************************************)
LEMMA RunMoves ==
  ASSUME Typed, NEW r \in Runs, RunStep(r) \/ AttemptFails(r)
  PROVE  Done(r) \/ \E pc \in RunPCs \ {"free"} : RunGoesOn(r, pc)
PROOF
  <1>0. \A pc \in RunPCs : Goto(r, pc) => RunGoesOn(r, pc)
    BY DEF Goto, RunGoesOn
  <1>1. CASE Head(r) \/ Inject(r) \/ WaitRetry(r) \/ Authenticated(r) \/ ReplacePool(r) \/ StartSocks(r)
             \/ BindFails(r) \/ StartDNS(r) \/ SetSystemProxy(r) \/ ReportConnected(r)
    BY <1>0, <1>1 DEF Head, Inject, WaitRetry, Authenticated, ReplacePool, StartSocks, BindFails, StartDNS,
                      SetSystemProxy, ReportConnected, RunPCs
  <1>2. CASE Connected(r)
    <2>1. Stream \in Clients
      BY <1>2, Chosen DEF Connected, DialPayload, Stream, Unused
    <2>2. QED BY <1>2, <2>1 DEF Connected, RunGoesOn, RunPCs
  <1>3. CASE AttemptFails(r) \/ Install(r)
    BY <1>3 DEF AttemptFails, Install, RunGoesOn, RunPCs
  <1>4. CASE StartVPN(r)
    <2>1. VPNLaunch => NewProc \in Procs
      BY DEF VPNLaunch, NewProc
    <2>2. \/ \E pc \in {"dns", "connect", "prepare", "launch", "activate"} : Goto(r, pc)
          \/ VPNLaunch /\ runs' = [runs EXCEPT ![r].pc = "setcmd", ![r].proc = NewProc]
          \/ runs' = [runs EXCEPT ![r].pc = "route", ![r].proc = NoProc]
      BY <1>4 DEF StartVPN
    <2>3. {"dns", "connect", "prepare", "launch", "activate", "setcmd", "route"} \subseteq RunPCs \ {"free"}
      BY DEF RunPCs
    <2>4. QED BY <1>0, <2>1, <2>2, <2>3 DEF RunGoesOn
  <1>5. QED BY <1>1, <1>2, <1>3, <1>4 DEF RunStep

LEMMA ManagerKeepsType ==
  ASSUME Typed, [Next]_vars
  PROVE  ManagerTyped'
PROOF
  <1> USE DEF Parts, RunKeeps, manager
  <1>0. /\ state \in States /\ mu \in Owners \cup {None} /\ cancelFn \in Runs \cup {None} /\ starts \in Nat
        /\ runs \in [Runs -> RunRecord] /\ parallel \in [Runs -> ParallelRecord] /\ stop \in StopRecord
        /\ server \in Servers \cup {None}
        /\ dns \in [open : BOOLEAN, named : BOOLEAN] /\ proxy \in [set : BOOLEAN, on : BOOLEAN, left : BOOLEAN]
        /\ late \subseteq Clients /\ budget \in 0..Budget
        /\ Runs \subseteq Owners /\ "stop" \in Owners /\ "idle" \in StopPCs /\ "begin" \in StopPCs
        /\ {"CONNECTING", "INJECTING", "SSH_AUTH", "CONNECTED", "ERROR", "DISCONNECTED"} \subseteq States
    BY DEF Typed, ManagerTyped, Owners, StopPCs, States
  <1>01. ASSUME NEW e, Spend(e) PROVE budget' \in 0..Budget
    BY <1>01, <1>0, Parameters DEF Spend
  <1>02. ASSUME NEW x, SetState(x), x \in States PROVE state' \in States
    BY <1>02 DEF SetState
  <1>03. ASSUME UNCHANGED <<state, mu, cancelFn, starts, runs, parallel, stop, server, dns, proxy, late>>,
                budget' \in 0..Budget
         PROVE  ManagerTyped'
    BY <1>03, <1>0 DEF ManagerTyped
  <1>04. UNCHANGED budget => budget' \in 0..Budget
    BY <1>0
  <1>1. CASE Toggle
    <2>1. stop' \in StopRecord
      BY <1>0, <1>1, StopKeepsType DEF Toggle
    <2>2. starts' \in Nat /\ budget' \in 0..Budget
      BY <1>0, <1>01, <1>1 DEF Toggle
    <2>3. QED BY <1>0, <1>1, <2>1, <2>2 DEF Toggle, ManagerTyped
  <1>2. CASE Start
    <2>1. starts' \in Nat
      BY <1>0, <1>2 DEF Start
    <2>2. stop' \in StopRecord
      BY <1>0, <1>2, StopKeepsType DEF Start
    <2>3. runs' \in [Runs -> RunRecord] /\ cancelFn' \in Runs \cup {None}
      <3>1. CASE Busy
        BY <1>0, <1>2, <3>1 DEF Start
      <3>2. CASE ~Busy
        <4>1. Any(Spare) \in Runs
          BY <1>2, <3>2, Chosen DEF Start, Spare
        <4>2. [NoRun EXCEPT !.pc = "head"] \in RunRecord
          BY NoRunType DEF RunPCs
        <4>3. QED BY <1>0, <1>2, <3>2, <4>1, <4>2 DEF Start
      <3>3. QED BY <3>1, <3>2
    <2>4. QED BY <1>0, <1>2, <2>1, <2>2, <2>3 DEF Start, ManagerTyped
  <1>3. CASE StopBegin
    <2>1. stop' \in StopRecord
      BY <1>0, <1>3 DEF StopBegin, Quiet, StopRecord, StopPCs
    <2>2. runs' \in [Runs -> RunRecord]
      <3>1. CASE cancelFn = None
        BY <1>0, <1>3, <3>1 DEF StopBegin
      <3>2. CASE cancelFn # None
        <4>1. [runs[cancelFn] EXCEPT !.cancelled = TRUE] \in RunRecord
          BY <1>0, <3>2 DEF RunRecord
        <4>2. runs' = [runs EXCEPT ![cancelFn] = [runs[cancelFn] EXCEPT !.cancelled = TRUE]]
          BY <1>0, <1>3, <3>2 DEF StopBegin
        <4>3. QED BY <1>0, <4>1, <4>2
      <3>3. QED BY <3>1, <3>2
    <2>3. QED BY <1>0, <1>3, <2>1, <2>2 DEF StopBegin, ManagerTyped
  <1>4. CASE StopVPN \/ StopRoutes
    <2>1. stop' \in StopRecord
      <3>1. cmd \in Procs \cup {NoProc}
        BY DEF Typed, VPNTyped
      <3>2. QED BY <1>0, <1>4, <3>1, StopKeepsType DEF StopVPN, StopRoutes, StopPCs
    <2>2. QED BY <1>0, <1>4, <2>1 DEF StopVPN, StopRoutes, ManagerTyped
  <1>5. CASE StopLock \/ StopPool \/ StopSocks \/ StopConns \/ StopEnd
    <2>1. stop' \in StopRecord
      BY <1>0, <1>5, StopKeepsType DEF StopLock, StopPool, StopSocks, StopConns, StopEnd, StopPCs
    <2>2. dns' \in [open : BOOLEAN, named : BOOLEAN] /\ proxy' \in [set : BOOLEAN, on : BOOLEAN, left : BOOLEAN]
      <3>1. dns' = dns \/ dns' = [open |-> FALSE, named |-> FALSE]
        BY <1>5 DEF StopLock, StopPool, StopSocks, StopConns, StopEnd
      <3>2. proxy' = proxy \/ proxy' = Cleared \/ proxy' = NotCleared
        BY <1>5 DEF StopLock, StopPool, StopSocks, StopConns, StopEnd
      <3>3. /\ [open |-> FALSE, named |-> FALSE] \in [open : BOOLEAN, named : BOOLEAN]
            /\ Cleared \in [set : BOOLEAN, on : BOOLEAN, left : BOOLEAN]
            /\ NotCleared \in [set : BOOLEAN, on : BOOLEAN, left : BOOLEAN]
        BY <1>0 DEF Cleared, NotCleared
      <3>4. dns' \in [open : BOOLEAN, named : BOOLEAN]
        BY <1>0, <3>1, <3>3
      <3>5. proxy' \in [set : BOOLEAN, on : BOOLEAN, left : BOOLEAN]
        BY <1>0, <3>2, <3>3
      <3>6. QED BY <3>4, <3>5
    <2>3. /\ mu' \in Owners \cup {None} /\ state' \in States /\ server' \in Servers \cup {None}
          /\ budget' \in 0..Budget
      BY <1>0, <1>01, <1>04, <1>5 DEF StopLock, StopPool, StopSocks, StopConns, StopEnd, SetState, ServerAfterStop
    <2>4. QED BY <1>0, <1>5, <2>1, <2>2, <2>3
              DEF StopLock, StopPool, StopSocks, StopConns, StopEnd, ManagerTyped
  <1>6. CASE ToggleSystemProxy
    <2>1. stop' \in StopRecord
      BY <1>0, <1>6, StopKeepsType DEF ToggleSystemProxy
    <2>2. proxy' \in [set : BOOLEAN, on : BOOLEAN, left : BOOLEAN] /\ budget' \in 0..Budget
      BY <1>0, <1>01, <1>6 DEF ToggleSystemProxy, Cleared
    <2>3. QED BY <1>0, <1>6, <2>1, <2>2 DEF ToggleSystemProxy, ManagerTyped
  <1>7. ASSUME NEW r \in Runs, RunStep(r) \/ AttemptFails(r) PROVE ManagerTyped'
    <2>1. runs' \in [Runs -> RunRecord]
      <3>1. Done(r) \/ \E pc \in RunPCs : RunGoesOn(r, pc)
        BY <1>7, RunMoves
      <3>2. "head" \in RunPCs
        BY DEF RunPCs
      <3>3. QED BY <1>0, <3>1, <3>2, RunsKeepType
    <2>2. /\ state' \in States /\ budget' \in 0..Budget /\ mu' \in Owners \cup {None}
          /\ server' \in Servers \cup {None}
          /\ dns' \in [open : BOOLEAN, named : BOOLEAN] /\ proxy' \in [set : BOOLEAN, on : BOOLEAN, left : BOOLEAN]
          /\ UNCHANGED <<cancelFn, starts, stop, late>>
      <3>1. CASE Head(r) \/ Inject(r) \/ WaitRetry(r) \/ ReportConnected(r) \/ AttemptFails(r)
        BY <1>0, <1>01, <1>02, <1>04, <3>1 DEF Head, Inject, WaitRetry, ReportConnected, AttemptFails
      <3>2. CASE Connected(r) \/ Authenticated(r) \/ ReplacePool(r) \/ Install(r)
        BY <1>0, <1>01, <1>02, <1>04, <3>2 DEF Connected, Authenticated, ReplacePool, Install, AfterInstall
      <3>3. CASE BindFails(r) \/ StartVPN(r)
        BY <1>0, <1>01, <1>02, <1>04, <3>3 DEF BindFails, StartVPN
      <3>4. CASE StartSocks(r)
        <4>1. NewSocksServer => Any(Fresh) \in Servers
          BY Chosen DEF NewSocksServer, Fresh
        <4>2. QED BY <1>0, <1>04, <3>4, <4>1 DEF StartSocks
      <3>5. CASE StartDNS(r) \/ SetSystemProxy(r)
        BY <1>0, <1>01, <1>04, <3>5 DEF StartDNS, SetSystemProxy
      <3>6. QED BY <1>7, <3>1, <3>2, <3>3, <3>4, <3>5 DEF RunStep
    <2>3. parallel' \in [Runs -> ParallelRecord]
      <3>1. CASE Install(r)
        <4>1. ASSUME NEW x \in ParallelRecord PROVE [x EXCEPT !.pool = "old"] \in ParallelRecord
          <5> DEFINE y == [x EXCEPT !.pool = "old"]
          <5>1. /\ y \in [pc : {"free", "head", "dial", "auth", "add"}, client : Clients \cup {None},
                          pool : {"current", "old"}]
                /\ y.pc = x.pc /\ y.client = x.client /\ (x.pc \in {"auth", "add"} => x.client \in Clients)
            BY DEF ParallelRecord
          <5> HIDE DEF y
          <5>2. y \in ParallelRecord
            BY <5>1 DEF ParallelRecord
          <5>3. QED BY <5>2 DEF y
        <4>2. [NoParallel EXCEPT !.pc = "head"] \in ParallelRecord
          BY DEF NoParallel, ParallelRecord
        <4>3. QED BY <1>0, <3>1, <4>1, <4>2 DEF Install
      <3>2. CASE ~Install(r)
        <4>1. UNCHANGED parallel
          BY <1>7, <3>2 DEF RunStep, Head, Inject, WaitRetry, ReportConnected, AttemptFails, Connected, Authenticated,
                            ReplacePool, BindFails, StartVPN, StartSocks, StartDNS, SetSystemProxy
        <4>2. QED BY <1>0, <4>1
      <3>3. QED BY <3>1, <3>2
    <2>4. QED BY <1>0, <2>1, <2>2, <2>3 DEF ManagerTyped
  <1>8. ASSUME NEW r \in Runs, ParStep(r) PROVE ManagerTyped'
    <2>1. /\ UNCHANGED <<state, mu, cancelFn, starts, runs, stop, server, dns, proxy>>
          /\ budget' \in 0..Budget
      BY <1>8, <1>01, <1>04 DEF ParStep, ParHead, ParConnect, ParAdd
    <2>2. parallel' \in [Runs -> ParallelRecord]
      <3>1. DialPayload => Stream \in Clients
        BY Chosen DEF DialPayload, Stream, Unused
      <3>2. CASE ParHead(r)
        <4>1. \/ parallel' = [parallel EXCEPT ![r] = NoParallel]
              \/ parallel' = [parallel EXCEPT ![r].pc = "dial"]
          BY <1>0, <3>2 DEF ParHead
        <4>2. QED BY <1>0, <4>1, ParallelKeepsType
      <3>3. CASE ParConnect(r)
        BY <1>0, <3>1, <3>3, ParallelKeepsType DEF ParConnect, ParAt
      <3>4. CASE ParAdd(r)
        BY <1>0, <3>4, ParallelKeepsType DEF ParAdd
      <3>5. QED BY <1>8, <3>2, <3>3, <3>4 DEF ParStep
    <2>3. late' \subseteq Clients
      <3>1. CASE ParAdd(r)
        <4>1. parallel[r].client \in Clients
          <5>1. parallel[r] \in ParallelRecord /\ parallel[r].pc = "add"
            BY <1>0, <3>1 DEF ParAdd, ParAt
          <5>2. QED BY <5>1 DEF ParallelRecord
        <4>2. QED BY <1>0, <3>1, <4>1 DEF ParAdd
      <3>2. CASE ~ParAdd(r)
        BY <1>0, <1>8, <3>2 DEF ParStep, ParHead, ParConnect
      <3>3. QED BY <3>1, <3>2
    <2>4. QED BY <1>0, <2>1, <2>2, <2>3 DEF ManagerTyped
  <1>9. ASSUME NEW c \in Clients, CloseClient(c) PROVE ManagerTyped'
    BY <1>9, <1>03, <1>04 DEF CloseClient
  <1>10. ASSUME NEW p \in Procs, Die(p) \/ Monitor(p) PROVE ManagerTyped'
    BY <1>10, <1>01, <1>03, <1>04 DEF Die, Monitor
  <1>11. ASSUME NEW k \in Conns, Connect(k) \/ LocalStep(k) \/ ServerStep(k) PROVE ManagerTyped'
    BY <1>11, <1>01, <1>03, <1>04 DEF Connect, LocalStep, ServerStep
  <1>12. CASE UNCHANGED vars
    BY <1>12, <1>03, <1>04 DEF vars
  <1>13. QED
    BY <1>1, <1>2, <1>3, <1>4, <1>5, <1>6, <1>7, <1>8, <1>9, <1>10, <1>11, <1>12 DEF Next, StopStep

LEMMA TypedAtFirst ==
  ASSUME Init
  PROVE  Typed
PROOF
  <1>1. PoolTyped /\ VPNTyped
    BY DEF Init, PoolInit, VPNInit, PoolTyped, VPNTyped, Owners
  <1>2. SocksTyped
    BY NoConnType DEF Init, SocksInit, SocksTyped, ConnAt
  <1>3. ManagerTyped
    <2>1. budget \in 0..Budget /\ starts \in Nat
      BY Parameters DEF Init
    <2>2. dns \in [open : BOOLEAN, named : BOOLEAN]
      BY DEF Init
    <2>3. proxy \in [set : BOOLEAN, on : BOOLEAN, left : BOOLEAN]
      BY DEF Init, Cleared
    <2>4. QED BY <2>1, <2>2, <2>3, NoRunType DEF Init, ManagerTyped, Owners, States
  <1>4. QED BY <1>1, <1>2, <1>3 DEF Typed

LEMMA TypedNext ==
  ASSUME Typed, [Next]_vars
  PROVE  Typed'
PROOF
  <1>1. PoolTyped /\ SocksTyped /\ VPNTyped
    BY DEF Typed
  <1>2. PoolTyped' /\ SocksTyped' /\ VPNTyped'
    BY <1>1, PartsMove, PoolKeepsType, SocksKeepsType, VPNKeepsType
  <1>3. ManagerTyped'
    BY ManagerKeepsType
  <1>4. QED BY <1>2, <1>3 DEF Typed

LEMMA TypedThroughout == Spec => []Typed
PROOF
  <1>1. Init => Typed
    BY TypedAtFirst
  <1>2. Typed /\ [Next]_vars => Typed'
    BY TypedNext
  <1>3. QED BY <1>1, <1>2, PTL DEF Spec

(***************************************************************************)
(* Every variable of the manager and of its parts keeps its type, and a    *)
(* connection slot whose goroutine has ended is as good as new.            *)
(***************************************************************************)
THEOREM TypeCorrect == Spec => []TypeOK
PROOF
  <1>1. Typed => TypeOK
    <2> SUFFICES ASSUME Typed PROVE TypeOK
      OBVIOUS
    <2>1. stop.pc \in StopPCs /\ stop.proc \in Procs \cup {NoProc} /\ stop.calm \in BOOLEAN
      BY DEF Typed, ManagerTyped, StopRecord
    <2>2. parallel \in [Runs -> [pc : {"free", "head", "dial", "auth", "add"}, client : Clients \cup {None},
                                 pool : {"current", "old"}]]
      BY DEF Typed, ManagerTyped, ParallelRecord
    <2>3. QED BY <2>1, <2>2 DEF Typed, PoolTyped, SocksTyped, VPNTyped, ManagerTyped, TypeOK, ConnRecord, RunRecord, Owners
  <1>2. QED BY <1>1, TypedThroughout, PTL
-----------------------------------------------------------------------------
(* Where a step leaves the goroutines of the runs.                         *)

\* The others stay where they are.
Others(r) == \A q \in Runs \ {r} : runs'[q] = runs[q]

LEMMA RunGoes ==
  ASSUME Typed, NEW r \in Runs, NEW pc, Goto(r, pc)
  PROVE  runs'[r].pc = pc /\ runs'[r].proc = runs[r].proc /\ runs'[r].client = runs[r].client /\ Others(r)
BY DEF Goto, RunRecord, Typed, ManagerTyped, Others

LEMMA RunEnds ==
  ASSUME Typed, NEW r \in Runs, Done(r)
  PROVE  runs'[r].pc = "free" /\ runs'[r].proc = NoProc /\ runs'[r].client = None /\ Others(r)
BY DEF Done, NoRun, RunRecord, Typed, ManagerTyped, Others

LEMMA RunGoesWith ==
  ASSUME Typed, NEW r \in Runs, NEW pc, NEW c, runs' = [runs EXCEPT ![r].pc = pc, ![r].client = c]
  PROVE  runs'[r].pc = pc /\ runs'[r].proc = runs[r].proc /\ runs'[r].client = c /\ Others(r)
BY DEF RunRecord, Typed, ManagerTyped, Others

LEMMA RunGoesProc ==
  ASSUME Typed, NEW r \in Runs, NEW pc, NEW p, runs' = [runs EXCEPT ![r].pc = pc, ![r].proc = p]
  PROVE  runs'[r].pc = pc /\ runs'[r].proc = p /\ runs'[r].client = runs[r].client /\ Others(r)
BY DEF RunRecord, Typed, ManagerTyped, Others

LEMMA Started ==
  ASSUME Typed, Start
  PROVE  /\ Busy => UNCHANGED <<runs, stop>>
         /\ ~Busy => /\ stop' = [stop EXCEPT !.calm = FALSE]
                     /\ \E r \in Runs : /\ At(r, "free") /\ ParAt(r, "free") /\ runs'[r].pc = "head"
                                        /\ runs'[r].proc = NoProc
                                        /\ Others(r)
PROOF
  <1>1. CASE Busy
    BY <1>1 DEF Start
  <1>2. CASE ~Busy
    <2>1. PICK r \in Spare : r = Any(Spare)
      BY <1>2, Chosen DEF Start
    <2>2. r \in Runs /\ At(r, "free") /\ ParAt(r, "free")
      BY DEF Spare
    <2>3. runs' = [runs EXCEPT ![r] = [NoRun EXCEPT !.pc = "head"]] /\ stop' = [stop EXCEPT !.calm = FALSE]
      BY <1>2, <2>1 DEF Start
    <2>4. runs'[r].pc = "head" /\ runs'[r].proc = NoProc /\ Others(r)
      BY <2>2, <2>3 DEF Others, NoRun, Typed, ManagerTyped
    <2>5. QED BY <1>2, <2>2, <2>3, <2>4
  <1>3. QED BY <1>1, <1>2

LEMMA Cancelled ==
  ASSUME Typed, StopBegin
  PROVE  \A r \in Runs : runs'[r].pc = runs[r].pc /\ runs'[r].proc = runs[r].proc /\ runs'[r].client = runs[r].client
PROOF
  <1>1. runs \in [Runs -> RunRecord]
    BY DEF Typed, ManagerTyped
  <1>2. CASE cancelFn = None
    BY <1>2 DEF StopBegin
  <1>3. CASE cancelFn # None
    <2>1. runs' = [runs EXCEPT ![cancelFn].cancelled = TRUE]
      BY <1>3 DEF StopBegin
    <2>2. QED BY <1>1, <2>1 DEF RunRecord
  <1>4. QED BY <1>2, <1>3
(***************************************************************************)
(* The steps that are not the manager's leave all of it alone but the      *)
(* bound on events.                                                        *)
(***************************************************************************)
Outside ==
  \/ \E c \in Clients : CloseClient(c)
  \/ \E p \in Procs : Die(p) \/ Monitor(p)
  \/ \E k \in Conns : Connect(k) \/ LocalStep(k) \/ ServerStep(k)
  \/ UNCHANGED vars

LEMMA OutsideKeeps ==
  ASSUME Outside
  PROVE  UNCHANGED <<cfg, state, mu, cancelFn, starts, runs, parallel, stop, server, dns, proxy, late>>
PROOF
  <1> USE DEF manager
  <1>1. ASSUME NEW c \in Clients, CloseClient(c)
        PROVE  UNCHANGED <<cfg, state, mu, cancelFn, starts, runs, parallel, stop, server, dns, proxy, late>>
    BY <1>1 DEF CloseClient
  <1>2. ASSUME NEW p \in Procs, Die(p) \/ Monitor(p)
        PROVE  UNCHANGED <<cfg, state, mu, cancelFn, starts, runs, parallel, stop, server, dns, proxy, late>>
    BY <1>2 DEF Die, Monitor
  <1>3. ASSUME NEW k \in Conns, Connect(k) \/ LocalStep(k) \/ ServerStep(k)
        PROVE  UNCHANGED <<cfg, state, mu, cancelFn, starts, runs, parallel, stop, server, dns, proxy, late>>
    BY <1>3 DEF Connect, LocalStep, ServerStep
  <1>4. CASE UNCHANGED vars
    BY <1>4 DEF vars
  <1>5. QED BY <1>1, <1>2, <1>3, <1>4 DEF Outside

\* The cases of a step.
LEMMA StepCases ==
  ASSUME [Next]_vars
  PROVE  \/ Toggle \/ Start \/ ToggleSystemProxy \/ StopStep
         \/ \E r \in Runs : RunStep(r) \/ AttemptFails(r)
         \/ \E r \in Runs : ParStep(r)
         \/ Outside
BY DEF Next, Outside

(***************************************************************************)
(* Where each step leaves Stop.                                            *)
(***************************************************************************)
LEMMA StopGoes ==
  ASSUME Typed
  PROVE  /\ Toggle => stop'.calm = stop.calm /\ stop'.proc = stop.proc
                      /\ (stop'.pc = stop.pc \/ (stop.pc = "idle" /\ stop'.pc = "begin"))
         /\ Start \/ ToggleSystemProxy => stop'.pc = stop.pc /\ stop'.proc = stop.proc /\ stop'.calm \in {stop.calm, FALSE}
         /\ StopBegin => stop'.pc = "vpn" /\ stop'.proc = stop.proc /\ stop'.calm = Quiet
         /\ StopVPN => /\ stop'.calm = stop.calm
                       /\ \/ VPNStopped /\ stop'.pc = "lock" /\ stop'.proc = stop.proc
                          \/ VPNTake /\ stop'.pc = "routes" /\ stop'.proc = cmd
         /\ StopRoutes => stop'.pc = "lock" /\ stop'.proc = NoProc /\ stop'.calm = stop.calm
         /\ StopLock => stop'.pc = "pool" /\ stop'.proc = stop.proc /\ stop'.calm = stop.calm
         /\ StopPool => /\ stop'.proc = stop.proc /\ stop'.calm = stop.calm
                        /\ \/ stop.pc = "pool" /\ stop'.pc = "closing"
                           \/ stop.pc = "closing" /\ stop'.pc = "socks"
         /\ StopSocks => stop'.pc = "conns" /\ stop'.proc = stop.proc /\ stop'.calm = stop.calm
         /\ StopConns => stop'.pc = "final" /\ stop'.proc = stop.proc /\ stop'.calm = stop.calm
         /\ StopEnd => stop'.pc = "idle" /\ stop'.proc = NoProc /\ stop'.calm = FALSE
PROOF
  <1>0. stop \in StopRecord
    BY DEF Typed, ManagerTyped
  <1>1. \A pc : StopTo(pc) => stop'.pc = pc /\ stop'.proc = stop.proc /\ stop'.calm = stop.calm
    BY <1>0 DEF StopTo, StopRecord
  <1>2. Toggle => stop'.calm = stop.calm /\ stop'.proc = stop.proc
                  /\ (stop'.pc = stop.pc \/ (stop.pc = "idle" /\ stop'.pc = "begin"))
    BY <1>1 DEF Toggle, StopAt
  <1>3. Start \/ ToggleSystemProxy => stop'.pc = stop.pc /\ stop'.proc = stop.proc /\ stop'.calm \in {stop.calm, FALSE}
    BY <1>0 DEF Start, ToggleSystemProxy, StopRecord
  <1>4. StopBegin => stop'.pc = "vpn" /\ stop'.proc = stop.proc /\ stop'.calm = Quiet
    <2> DEFINE q == Quiet
    <2>1. StopBegin => stop' = [stop EXCEPT !.pc = "vpn", !.calm = q]
      BY DEF StopBegin
    <2> HIDE DEF q
    <2>2. StopBegin => stop'.pc = "vpn" /\ stop'.proc = stop.proc /\ stop'.calm = q
      BY <1>0, <2>1 DEF StopRecord
    <2>3. QED BY <2>2 DEF q
  <1>5. StopVPN => /\ stop'.calm = stop.calm
                   /\ \/ VPNStopped /\ stop'.pc = "lock" /\ stop'.proc = stop.proc
                      \/ VPNTake /\ stop'.pc = "routes" /\ stop'.proc = cmd
    <2>1. CASE VPNStopped
      BY <1>1, <2>1 DEF StopVPN
    <2>2. CASE ~VPNStopped
      <3>1. StopVPN => VPNTake /\ stop' = [stop EXCEPT !.pc = "routes", !.proc = cmd]
        BY <2>2 DEF StopVPN
      <3>2. QED BY <1>0, <3>1 DEF StopRecord
    <2>3. QED BY <2>1, <2>2
  <1>6. StopRoutes => stop'.pc = "lock" /\ stop'.proc = NoProc /\ stop'.calm = stop.calm
    BY <1>0 DEF StopRoutes, StopRecord
  <1>7. StopPool => /\ stop'.proc = stop.proc /\ stop'.calm = stop.calm
                    /\ \/ stop.pc = "pool" /\ stop'.pc = "closing"
                       \/ stop.pc = "closing" /\ stop'.pc = "socks"
    BY <1>1 DEF StopPool, StopAt
  <1>8. StopEnd => stop'.pc = "idle" /\ stop'.proc = NoProc /\ stop'.calm = FALSE
    BY DEF StopEnd, NoStop
  <1>9. StopLock => stop'.pc = "pool" /\ stop'.proc = stop.proc /\ stop'.calm = stop.calm
    BY <1>1 DEF StopLock
  <1>10. StopSocks => stop'.pc = "conns" /\ stop'.proc = stop.proc /\ stop'.calm = stop.calm
    BY <1>1 DEF StopSocks
  <1>11. StopConns => stop'.pc = "final" /\ stop'.proc = stop.proc /\ stop'.calm = stop.calm
    BY <1>1 DEF StopConns
  <1>12. QED
    BY <1>2, <1>3, <1>4, <1>5, <1>6, <1>7, <1>8, <1>9, <1>10, <1>11

(***************************************************************************)
(* What a step of a run, or of its second connection, leaves alone.        *)
(***************************************************************************)
LEMMA RunFrame ==
  ASSUME NEW r \in Runs, RunStep(r) \/ AttemptFails(r)
  PROVE  /\ UNCHANGED <<cfg, cancelFn, starts, stop, late>>
         /\ ~StartSocks(r) => UNCHANGED <<socks, server>>
         /\ ~StartVPN(r) => UNCHANGED vpn
         /\ ~StartDNS(r) => UNCHANGED dns
         /\ ~SetSystemProxy(r) => UNCHANGED proxy
         /\ ~Install(r) => UNCHANGED parallel
PROOF
  <1> USE DEF Parts, RunKeeps
  <1>1. CASE Head(r) \/ Inject(r) \/ WaitRetry(r) \/ ReportConnected(r) \/ AttemptFails(r) \/ Connected(r)
             \/ Authenticated(r)
    BY <1>1 DEF Head, Inject, WaitRetry, ReportConnected, AttemptFails, Connected, Authenticated
  <1>2. CASE ReplacePool(r) \/ Install(r) \/ BindFails(r)
    BY <1>2 DEF ReplacePool, Install, BindFails
  <1>3. CASE StartSocks(r) \/ StartVPN(r)
    BY <1>3 DEF StartSocks, StartVPN
  <1>4. CASE StartDNS(r) \/ SetSystemProxy(r)
    BY <1>4 DEF StartDNS, SetSystemProxy
  <1>5. QED BY <1>1, <1>2, <1>3, <1>4 DEF RunStep

LEMMA ParFrame ==
  ASSUME NEW r \in Runs, ParStep(r)
  PROVE  UNCHANGED <<socks, vpn, cfg, state, mu, cancelFn, starts, runs, stop, server, dns, proxy>>
BY DEF ParStep, ParHead, ParConnect, ParAdd, Parts

\* Only ReplacePool and Install are between the two halves of a replacement.
LEMMA RunLeavesLock ==
  ASSUME Typed, NEW r \in Runs, RunStep(r) \/ AttemptFails(r), ~ReplacePool(r) /\ ~Install(r)
  PROVE  \A q \in Runs : runs'[q].pc = runs[q].pc \/ runs'[q].pc \notin {"closing", "install"}
PROOF
  <1>1. Done(r) \/ \E pc \in RunPCs \ {"free", "closing", "install"} : RunGoesOn(r, pc)
    <2>1. \A pc \in RunPCs : Goto(r, pc) => RunGoesOn(r, pc)
      BY DEF Goto, RunGoesOn
    <2>2. {"dns", "connect", "prepare", "launch", "activate", "setcmd", "route", "auth", "wait"} \subseteq RunPCs
      BY DEF RunPCs
    <2>3. CASE StartVPN(r) \/ AttemptFails(r) \/ Connected(r)
      <3>1. Stream \in Clients \/ ~DialPayload
        BY Chosen DEF DialPayload, Stream, Unused
      <3>2. NewProc \in Procs \/ ~VPNLaunch
        BY DEF VPNLaunch, NewProc
      <3>3. CASE StartVPN(r)
        BY <2>1, <2>2, <3>2, <3>3 DEF StartVPN, RunGoesOn
      <3>4. CASE AttemptFails(r)
        BY <2>2, <3>4 DEF AttemptFails, RunGoesOn
      <3>5. CASE Connected(r)
        BY <2>2, <3>1, <3>5 DEF Connected, RunGoesOn
      <3>6. QED BY <2>3, <3>3, <3>4, <3>5
    <2>4. CASE Head(r) \/ Inject(r) \/ WaitRetry(r) \/ Authenticated(r) \/ StartSocks(r) \/ BindFails(r)
               \/ StartDNS(r) \/ SetSystemProxy(r) \/ ReportConnected(r)
      BY <2>1, <2>4 DEF Head, Inject, WaitRetry, Authenticated, StartSocks, BindFails, StartDNS,
                        SetSystemProxy, ReportConnected, RunPCs
    <2>5. QED BY <2>3, <2>4 DEF RunStep
  <1>2. \A q \in Runs : runs'[q] = runs[q] \/ runs'[q].pc \notin {"closing", "install"}
    <2>1. CASE Done(r)
      BY <2>1, RunEnds DEF Others
    <2>2. ASSUME NEW pc \in RunPCs \ {"free", "closing", "install"}, RunGoesOn(r, pc)
          PROVE  runs'[r].pc = pc /\ \A q \in Runs \ {r} : runs'[q] = runs[q]
      <3>1. CASE runs' = [runs EXCEPT ![r].pc = pc]
        BY <3>1, RunGoes DEF Goto, Others
      <3>2. CASE \E c \in Clients \cup {None} : runs' = [runs EXCEPT ![r].pc = pc, ![r].client = c]
        <4>1. PICK c \in Clients \cup {None} : runs' = [runs EXCEPT ![r].pc = pc, ![r].client = c]
          BY <3>2
        <4>2. QED BY <4>1, RunGoesWith DEF Others
      <3>3. CASE \E x \in Procs \cup {NoProc} : runs' = [runs EXCEPT ![r].pc = pc, ![r].proc = x]
        <4>1. PICK x \in Procs \cup {NoProc} : runs' = [runs EXCEPT ![r].pc = pc, ![r].proc = x]
          BY <3>3
        <4>2. QED BY <4>1, RunGoesProc DEF Others
      <3>4. QED BY <2>2, <3>1, <3>2, <3>3 DEF RunGoesOn
    <2>3. QED BY <1>1, <2>1, <2>2
  <1>3. QED BY <1>2

-----------------------------------------------------------------------------
(* tm.mu. cleanup and the replacement of a pool hold it while they wait,   *)
(* so neither finds the other half done.                                   *)

LockHeld ==
  /\ stop.pc \in {"pool", "closing", "socks", "conns"} => mu = "stop"
  /\ \A r \in Runs : runs[r].pc \in {"closing", "install"} => mu = r

LEMMA LockKept ==
  ASSUME Typed, LockHeld, [Next]_vars
  PROVE  LockHeld'
PROOF
  <1> USE DEF Parts, RunKeeps, manager
  <1>0. stop \in StopRecord /\ runs \in [Runs -> RunRecord] /\ mu \in Owners \cup {None}
    BY DEF Typed, ManagerTyped
  <1>1. ASSUME UNCHANGED <<mu, runs>>, stop'.pc \in {stop.pc, "begin", "vpn", "routes", "lock", "final", "idle"}
        PROVE  LockHeld'
    BY <1>1 DEF LockHeld
  <1>2. CASE Toggle \/ ToggleSystemProxy
    BY <1>0, <1>1, <1>2 DEF Toggle, ToggleSystemProxy, StopTo, StopRecord
  <1>3. CASE Start
    <2>1. UNCHANGED mu /\ mu = None
      BY <1>3 DEF Start, Unlocked
    <2>2. stop'.pc = stop.pc
      BY <1>0, <1>3, Started DEF StopRecord
    <2>3. \A q \in Runs : runs'[q] = runs[q] \/ runs'[q].pc = "head"
      BY <1>0, <1>3, Started DEF Others
    <2>4. QED BY <2>1, <2>2, <2>3 DEF LockHeld
  <1>4. CASE StopBegin
    <2>1. stop'.pc = "vpn" /\ UNCHANGED mu
      BY <1>0, <1>4 DEF StopBegin, StopRecord
    <2>2. QED BY <1>4, <2>1, Cancelled DEF LockHeld
  <1>5. CASE StopVPN \/ StopRoutes \/ StopEnd
    <2>1. UNCHANGED <<mu, runs>>
      BY <1>5 DEF StopVPN, StopRoutes, StopEnd
    <2>2. stop'.pc \in {"routes", "lock", "idle"}
      <3>1. CASE StopVPN
        BY <1>0, <3>1 DEF StopVPN, StopTo, StopRecord
      <3>2. CASE StopRoutes
        BY <1>0, <3>2 DEF StopRoutes, StopRecord
      <3>3. CASE StopEnd
        BY <3>3 DEF StopEnd, NoStop
      <3>4. QED BY <1>5, <3>1, <3>2, <3>3
    <2>3. QED BY <1>1, <2>1, <2>2
  <1>6. CASE StopLock \/ StopPool \/ StopSocks \/ StopConns
    <2>1. UNCHANGED runs /\ mu \in {None, "stop"}
      BY <1>6 DEF StopLock, StopPool, StopSocks, StopConns, LockHeld, StopAt, Unlocked
    <2>2. stop'.pc = "final" \/ mu' = "stop"
      BY <1>0, <1>6 DEF StopLock, StopPool, StopSocks, StopConns, StopTo, StopAt, LockHeld, StopRecord
    <2>3. \A r \in Runs : runs[r].pc \notin {"closing", "install"}
      BY <2>1, Parameters DEF LockHeld
    <2>4. QED BY <2>1, <2>2, <2>3 DEF LockHeld
  <1>7. ASSUME NEW r \in Runs, RunStep(r) \/ AttemptFails(r) PROVE LockHeld'
    <2>1. CASE ReplacePool(r)
      <3>1. UNCHANGED stop /\ mu' = r /\ mu \in {None, r} /\ Others(r)
        BY <1>0, <2>1, RunGoes DEF ReplacePool, LockHeld, At, Unlocked
      <3>2. QED BY <3>1, Parameters DEF LockHeld, Others
    <2>2. CASE Install(r)
      <3>1. UNCHANGED stop /\ mu' = None /\ mu = r /\ Others(r)
        BY <2>2, RunGoesWith DEF Install, AfterInstall, LockHeld, At
      <3>2. runs'[r].pc = "socks"
        BY <2>2, RunGoesWith DEF Install
      <3>3. QED BY <3>1, <3>2, Parameters DEF LockHeld, Others
    <2>3. CASE ~ReplacePool(r) /\ ~Install(r)
      <3>1. UNCHANGED <<stop, mu>>
        BY <1>7, <2>3 DEF RunStep, Head, Inject, Connected, AttemptFails, WaitRetry, Authenticated, StartSocks,
                          BindFails, StartVPN, StartDNS, SetSystemProxy, ReportConnected
      <3>2. \A q \in Runs : runs'[q].pc = runs[q].pc \/ runs'[q].pc \notin {"closing", "install"}
        BY <1>7, <2>3, RunLeavesLock
      <3>3. QED BY <3>1, <3>2 DEF LockHeld
    <2>4. QED BY <2>1, <2>2, <2>3
  <1>8. ASSUME NEW r \in Runs, ParStep(r) PROVE LockHeld'
    BY <1>1, <1>8, ParFrame
  <1>9. CASE Outside
    BY <1>1, <1>9, OutsideKeeps
  <1>10. QED
    BY <1>2, <1>3, <1>4, <1>5, <1>6, <1>7, <1>8, <1>9, StepCases DEF StopStep

LEMMA LockInvariant == Spec => [](Typed /\ LockHeld)
PROOF
  <1>1. Init => LockHeld
    BY DEF Init, LockHeld, NoRun, NoStop
  <1>2. Typed /\ LockHeld /\ [Next]_vars => LockHeld'
    BY LockKept
  <1>3. QED BY <1>1, <1>2, TypedThroughout, PTL DEF Spec
-----------------------------------------------------------------------------
(* The listener. A run that starts one needs tm.mu free, so it finds       *)
(* socksServer as cleanup leaves it, and no listener that cleanup closes.  *)

SoleHeld == SoleListener /\ (stop.pc = "conns" => \A s \in Servers : servers[s] # "open")

LEMMA SoleKept ==
  ASSUME Typed, LockHeld, SoleHeld, [Next]_vars
  PROVE  SoleHeld'
PROOF
  <1>0. servers \in [Servers -> {"unused", "open", "closed", "drained"}] /\ server \in Servers \cup {None}
    BY DEF Typed, SocksTyped, ManagerTyped
  <1>1. ASSUME UNCHANGED server, \A s \in Servers : servers'[s] = "open" => servers[s] = "open",
               stop'.pc = "conns" => stop.pc = "conns"
        PROVE  SoleHeld'
    BY <1>1 DEF SoleHeld, SoleListener
  <1>2. CASE Toggle \/ Start \/ ToggleSystemProxy
    <2>1. UNCHANGED <<server, servers>>
      BY <1>2 DEF Toggle, Start, ToggleSystemProxy, Parts, socks
    <2>2. stop'.pc = "conns" => stop.pc = "conns"
      BY <1>2, StopGoes
    <2>3. QED BY <1>1, <2>1, <2>2
  <1>3. CASE StopStep
    <2>1. CASE StopBegin \/ StopVPN \/ StopRoutes \/ StopLock \/ StopPool \/ StopEnd
      <3>1. UNCHANGED <<server, servers>>
        BY <2>1 DEF StopBegin, StopVPN, StopRoutes, StopLock, StopPool, StopEnd, Parts, socks
      <3>2. stop'.pc # "conns"
        BY <2>1, StopGoes
      <3>3. QED BY <1>1, <3>1, <3>2
    <2>2. CASE StopSocks
      <3>1. UNCHANGED server /\ \A s \in Servers : servers'[s] # "open"
        <4>1. \A s \in Servers : servers[s] = "open" => server = s
          BY DEF SoleHeld, SoleListener
        <4>2. CASE server = None
          BY <2>2, <4>1, <4>2, Parameters DEF StopSocks, ToClose, socks
        <4>3. CASE server # None
          BY <1>0, <2>2, <4>1, <4>3 DEF StopSocks, ToClose, CloseListener
        <4>4. QED BY <4>2, <4>3
      <3>2. QED BY <3>1 DEF SoleHeld, SoleListener
    <2>3. CASE StopConns
      <3>1. \A s \in Servers : servers[s] # "open"
        BY <2>3 DEF StopConns, StopAt, SoleHeld
      <3>2. \A s \in Servers : servers'[s] # "open"
        BY <1>0, <2>3, <3>1 DEF StopConns, CloseConns, socks
      <3>3. QED BY <3>2 DEF SoleHeld, SoleListener
    <2>4. QED BY <1>3, <2>1, <2>2, <2>3 DEF StopStep
  <1>4. ASSUME NEW r \in Runs, RunStep(r) \/ AttemptFails(r) PROVE SoleHeld'
    <2>1. CASE ~StartSocks(r)
      BY <1>1, <1>4, <2>1, RunFrame DEF socks
    <2>2. CASE StartSocks(r) /\ server # None
      BY <1>1, <2>2 DEF StartSocks, socks
    <2>3. CASE StartSocks(r) /\ server = None
      <3>1. UNCHANGED stop /\ stop.pc # "conns"
        BY <2>3, Parameters DEF StartSocks, LockHeld, Unlocked
      <3>2. \A s \in Servers : servers[s] # "open"
        BY <2>3, Parameters DEF SoleHeld, SoleListener
      <3>3. servers' = [servers EXCEPT ![server'] = "open"]
        BY <2>3 DEF StartSocks, NewSocksServer
      <3>4. QED BY <1>0, <3>1, <3>2, <3>3 DEF SoleHeld, SoleListener
    <2>4. QED BY <2>1, <2>2, <2>3
  <1>5. ASSUME NEW r \in Runs, ParStep(r) PROVE SoleHeld'
    BY <1>1, <1>5, ParFrame DEF socks
  <1>6. CASE Outside
    <2>1. \A s \in Servers : servers'[s] = "open" => servers[s] = "open"
      <3>1. ASSUME NEW c \in Clients, CloseClient(c) PROVE UNCHANGED servers
        BY <3>1 DEF CloseClient
      <3>2. ASSUME NEW p \in Procs, Die(p) \/ Monitor(p) PROVE UNCHANGED servers
        BY <3>2 DEF Die, Monitor, socks
      <3>3. ASSUME NEW k \in Conns, Connect(k) \/ LocalStep(k) \/ ServerStep(k) PROVE UNCHANGED servers
        BY <3>3, ConnSteps DEF Connect, LocalStep, ServerStep, Typed, ConnGoesOn, ConnBecomes
      <3>4. CASE UNCHANGED vars
        BY <3>4 DEF vars, socks
      <3>5. QED BY <1>6, <3>1, <3>2, <3>3, <3>4 DEF Outside
    <2>2. QED BY <1>1, <1>6, <2>1, OutsideKeeps
  <1>7. QED BY <1>2, <1>3, <1>4, <1>5, <1>6, StepCases

(***************************************************************************)
(* Whatever Starts, retries and Stops overlap, there is at most one        *)
(* listener, and it is the one the manager knows and cleanup will close.   *)
(***************************************************************************)
THEOREM OneListener == Spec => []SoleListener
PROOF
  <1>1. Init => SoleHeld
    BY DEF Init, SocksInit, SoleHeld, SoleListener, NoStop
  <1>2. Typed /\ LockHeld /\ SoleHeld /\ [Next]_vars => SoleHeld'
    BY SoleKept
  <1>3. SoleHeld => SoleListener
    BY DEF SoleHeld
  <1>4. QED BY <1>1, <1>2, <1>3, LockInvariant, PTL DEF Spec
-----------------------------------------------------------------------------
(* Connections and Close. A socket that is open is in the map from the     *)
(* moment the accept loop has looked at the flag, and a server whose map   *)
(* has been emptied takes no more.                                         *)

ConnHeld(k) ==
  /\ conns[k].local /\ conns[k].pc # "accepted" => conns[k].mapped
  /\ conns[k].mapped => conns[k].server \in Servers /\ servers[conns[k].server] \in {"open", "closed"}
  /\ conns[k].server # None => servers[conns[k].server] # "unused"
  /\ conns[k].local \/ conns[k].pc = "accepted" => conns[k].server # None
ConnsHeld == \A k \in Conns : ConnHeld(k)

LEMMA ConnsKept ==
  ASSUME SocksTyped, ConnsHeld, SocksMoves
  PROVE  ConnsHeld'
PROOF
  <1>0. /\ conns \in [Conns -> ConnRecord] /\ servers \in [Servers -> {"unused", "open", "closed", "drained"}]
        /\ \A k \in Conns : conns[k] \in ConnRecord /\ conns[k].server \in Servers \cup {None}
    BY DEF SocksTyped, ConnRecord
  <1>1. ASSUME UNCHANGED conns,
               \A s \in Servers : /\ servers[s] # "unused" => servers'[s] # "unused"
                                  /\ servers[s] \in {"open", "closed"} => servers'[s] \in {"open", "closed"}
        PROVE  ConnsHeld'
    BY <1>0, <1>1 DEF ConnsHeld, ConnHeld
  <1>2. CASE UNCHANGED socks
    BY <1>2 DEF socks, ConnsHeld, ConnHeld
  <1>3. CASE NewSocksServer
    BY <1>0, <1>1, <1>3 DEF NewSocksServer
  <1>4. ASSUME NEW s \in Servers \cup {None}, CloseListener(s) PROVE ConnsHeld'
    BY <1>0, <1>4 DEF CloseListener, ConnsHeld, ConnHeld
  <1>5. ASSUME NEW s \in Servers \cup {None}, CloseConns(s) PROVE ConnsHeld'
    <2>1. ASSUME NEW k \in Conns PROVE ConnHeld(k)'
      <3>1. ConnHeld(k)
        BY DEF ConnsHeld
      <3>2. \A t \in Servers : servers'[t] = IF t = s THEN "drained" ELSE servers[t]
        BY <1>0, <1>5 DEF CloseConns
      <3>3. CASE Drained(k, s)
        <4>1. /\ conns'[k].local = FALSE /\ conns'[k].mapped = FALSE
              /\ conns'[k].server = conns[k].server /\ conns'[k].pc = conns[k].pc
          BY <1>0, <1>5, <3>3 DEF CloseConns, ConnRecord
        <4>2. QED BY <1>0, <3>1, <3>2, <4>1 DEF ConnHeld
      <3>4. CASE ~Drained(k, s)
        <4>1. conns'[k] = conns[k] /\ (conns[k].mapped => conns[k].server # s)
          BY <1>5, <3>4 DEF CloseConns, Drained
        <4>2. QED BY <1>0, <3>1, <3>2, <4>1 DEF ConnHeld
      <3>5. QED BY <3>3, <3>4
    <2>2. QED BY <2>1 DEF ConnsHeld
  <1>6. ASSUME NEW k \in Conns, NEW x, ConnBecomes(k, x) PROVE ConnsHeld'
    <2>1. /\ UNCHANGED servers /\ conns'[k] = x /\ ConnHeld(k)
          /\ \A j \in Conns \ {k} : conns'[j] = conns[j]
      BY <1>0, <1>6 DEF ConnBecomes, ConnsHeld
    <2>2. ConnHeld(k)'
      <3>1. CASE x = NoConn
        BY <2>1, <3>1 DEF ConnHeld, NoConn
      <3>2. CASE x.pc = "accepted" /\ x.server \in Servers /\ servers[x.server] = "open" /\ x.mapped = FALSE
        BY <2>1, <3>2, Parameters DEF ConnHeld
      <3>3. CASE /\ x.pc \notin {"free", "accepted"}
                 /\ x.server = conns[k].server /\ x.local = conns[k].local
                 /\ \/ x.mapped = conns[k].mapped /\ conns[k].pc \notin {"free", "accepted"}
                    \/ x.mapped = TRUE /\ conns[k].pc = "accepted" /\ servers[conns[k].server] = "open"
        BY <1>0, <2>1, <3>3 DEF ConnHeld
      <3>4. QED BY <1>6, <3>1, <3>2, <3>3 DEF ConnBecomes
    <2>3. QED BY <2>1, <2>2 DEF ConnsHeld, ConnHeld
  <1>7. ASSUME UNCHANGED servers, NEW c \in Clients, conns' = Severed(c) PROVE ConnsHeld'
    <2>1. ASSUME NEW k \in Conns
          PROVE  /\ conns'[k].local = conns[k].local /\ conns'[k].mapped = conns[k].mapped
                 /\ conns'[k].server = conns[k].server /\ conns'[k].pc = conns[k].pc
      BY <1>0, <1>7 DEF Severed, ConnRecord
    <2>2. QED BY <1>7, <2>1 DEF ConnsHeld, ConnHeld
  <1>8. QED BY <1>2, <1>3, <1>4, <1>5, <1>5, <1>6, <1>7 DEF SocksMoves, ConnGoesOn

(***************************************************************************)
(* A connection that is accepted while Close runs is not forgotten: once   *)
(* Close has returned, no socket of that server is open but one its accept *)
(* loop has not looked at yet.                                             *)
(***************************************************************************)
THEOREM CloseLeavesNone == Spec => []NoneSurvivesClose
PROOF
  <1>1. Init => ConnsHeld
    BY DEF Init, SocksInit, ConnsHeld, ConnHeld, NoConn
  <1>2. Typed /\ ConnsHeld /\ [Next]_vars => ConnsHeld'
    BY PartsMove, ConnsKept DEF Typed
  <1>3. ConnsHeld => NoneSurvivesClose
    BY DEF ConnsHeld, ConnHeld, NoneSurvivesClose, ConnAt
  <1>4. QED BY <1>1, <1>2, <1>3, TypedThroughout, PTL DEF Spec
-----------------------------------------------------------------------------
(* The clients of a replaced pool. Close empties it before a new one takes *)
(* its place; what it then holds was added in between.                     *)

PoolHeld ==
  /\ \A c \in Clients : pool[c] = "old" => c \in late
  /\ \A r \in Runs : At(r, "install") => \A c \in Clients : pool[c] = "current" => c \in late

\* No step but Install, ReplacePool and ParAdd puts a client into a pool or a
\* run between the two halves of the replacement.
LEMMA PoolLeft ==
  ASSUME Typed, PoolHeld, late \subseteq late',
         \A c \in Clients : pool'[c] = pool[c] \/ pool'[c] = "none",
         \A r \in Runs : runs'[r].pc = runs[r].pc \/ runs'[r].pc # "install"
  PROVE  PoolHeld'
BY DEF PoolHeld, At

\* The other steps take clients from pools at most.
LEMMA OutsidePool ==
  ASSUME Typed, Outside
  PROVE  \A c \in Clients : pool'[c] = pool[c] \/ pool'[c] = "none"
PROOF
  <1>0. pool \in [Clients -> {"none", "current", "old"}]
    BY DEF Typed, PoolTyped
  <1>1. ASSUME NEW c \in Clients, CloseClient(c) PROVE pool' = pool \/ pool' = [pool EXCEPT ![c] = "none"]
    BY <1>1 DEF CloseClient, MarkClosed, FinishClose
  <1>2. ASSUME NEW x \in Procs, Die(x) \/ Monitor(x) PROVE UNCHANGED pool
    BY <1>2 DEF Die, Monitor, ssh
  <1>3. ASSUME NEW k \in Conns, Connect(k) \/ LocalStep(k) \/ ServerStep(k) PROVE UNCHANGED pool
    BY <1>3 DEF Connect, LocalStep, ServerStep, Accept, ConnStep, Register, HandshakeFails, GetClient, Dial,
                DialReturns, PipeBreaks, PipeEnds, PipesDone, Leave, ssh
  <1>4. CASE UNCHANGED vars
    BY <1>4 DEF vars, ssh
  <1>5. QED BY <1>0, <1>1, <1>2, <1>3, <1>4 DEF Outside

LEMMA PoolKept ==
  ASSUME Typed, LockHeld, PoolHeld, [Next]_vars
  PROVE  PoolHeld'
PROOF
  <1> USE DEF Parts, RunKeeps
  <1>0. pool \in [Clients -> {"none", "current", "old"}]
    BY DEF Typed, PoolTyped
  <1>1. ASSUME UNCHANGED <<pool, late>>, \A r \in Runs : runs'[r].pc = runs[r].pc \/ runs'[r].pc # "install"
        PROVE  PoolHeld'
    BY <1>1, PoolLeft
  <1>2. CASE Toggle \/ ToggleSystemProxy
    BY <1>1, <1>2 DEF Toggle, ToggleSystemProxy, ssh
  <1>3. CASE Start
    <2>1. \A r \in Runs : runs'[r].pc = runs[r].pc \/ runs'[r].pc = "head"
      BY <1>3, Started DEF Others
    <2>2. QED BY <1>1, <1>3, <2>1 DEF Start, ssh
  <1>4. CASE StopStep
    <2>1. CASE StopBegin
      BY <1>1, <2>1, Cancelled DEF StopBegin, ssh
    <2>2. CASE StopVPN \/ StopRoutes \/ StopLock \/ StopPool \/ StopSocks \/ StopConns \/ StopEnd
      BY <1>1, <2>2 DEF StopVPN, StopRoutes, StopLock, StopPool, BeginClose, EndClose, StopSocks, StopConns,
                        StopEnd, ssh
    <2>3. QED BY <1>4, <2>1, <2>2 DEF StopStep
  <1>5. ASSUME NEW r \in Runs, RunStep(r) \/ AttemptFails(r) PROVE PoolHeld'
    <2>1. CASE ReplacePool(r)
      <3>1. UNCHANGED <<pool, late>>
        BY <2>1 DEF ReplacePool, BeginClose, EndClose
      <3>2. Others(r) /\ (runs'[r].pc = "closing" \/ Current = {})
        BY <2>1, RunGoes DEF ReplacePool, EndClose, AllClosed
      <3>3. QED BY <3>1, <3>2 DEF PoolHeld, At, Others, Current
    <2>2. CASE Install(r)
      <3>1. \A c \in Clients : pool[c] = "current" => c \in late
        BY <2>2 DEF Install, PoolHeld
      <3>2. \A c \in Clients : pool'[c] = "old" => pool[c] \in {"current", "old"}
        BY <1>0, <2>2 DEF Install, NewSSHPool, Current
      <3>3. \A q \in Runs : runs'[q].pc # "install"
        <4>1. runs'[r].pc = "socks" /\ Others(r)
          BY <2>2, RunGoesWith DEF Install
        <4>2. \A q \in Runs : runs[q].pc = "install" => q = r
          BY <2>2 DEF LockHeld, Install, At
        <4>3. QED BY <4>1, <4>2 DEF Others
      <3>4. UNCHANGED late
        BY <2>2 DEF Install
      <3>5. QED BY <3>1, <3>2, <3>3, <3>4 DEF PoolHeld, At
    <2>3. CASE ~ReplacePool(r) /\ ~Install(r)
      <3>1. UNCHANGED late /\ UNCHANGED pool
        BY <1>5, <2>3 DEF RunStep, Head, Inject, WaitRetry, ReportConnected, AttemptFails, Connected, Authenticated,
                          StartSocks, BindFails, StartVPN, StartDNS, SetSystemProxy, ssh, DialPayload, ConnectSSH,
                          BeginClose, EndClose
      <3>2. \A q \in Runs : runs'[q].pc = runs[q].pc \/ runs'[q].pc # "install"
        BY <1>5, <2>3, RunLeavesLock
      <3>3. QED BY <1>1, <3>1, <3>2
    <2>4. QED BY <2>1, <2>2, <2>3
  <1>6. ASSUME NEW r \in Runs, ParStep(r) PROVE PoolHeld'
    <2>1. CASE ParAdd(r)
      <3> DEFINE c == parallel[r].client
                 p == parallel[r].pool
      <3>1. pool' = [pool EXCEPT ![c] = p] /\ UNCHANGED runs
        BY <2>1 DEF ParAdd, Add
      <3>2. late \subseteq late' /\ (p = "old" \/ (\E q \in Runs : At(q, "install")) => c \in late')
        BY <2>1 DEF ParAdd
      <3> HIDE DEF c, p
      <3>3. QED BY <1>0, <3>1, <3>2 DEF PoolHeld, At
    <2>2. CASE ParHead(r) \/ ParConnect(r)
      BY <1>1, <2>2 DEF ParHead, ParConnect, ssh, DialPayload, ConnectSSH
    <2>3. QED BY <1>6, <2>1, <2>2 DEF ParStep
  <1>7. CASE Outside
    <2>1. \A c \in Clients : pool'[c] = pool[c] \/ pool'[c] = "none"
      BY <1>7, OutsidePool
    <2>2. UNCHANGED <<runs, late>>
      BY <1>7, OutsideKeeps
    <2>3. QED BY <2>1, <2>2, PoolLeft
  <1>8. QED BY <1>2, <1>3, <1>4, <1>5, <1>6, <1>7, StepCases

(***************************************************************************)
(* Replacing the pool puts no client out of the manager's reach but one    *)
(* that its goroutine adds to a pool replaced meanwhile.                   *)
(***************************************************************************)
THEOREM OrphansCameLate == Spec => []OrphansAreLate
PROOF
  <1>1. Init => PoolHeld
    BY DEF Init, PoolInit, PoolHeld, At, NoRun
  <1>2. Typed /\ LockHeld /\ PoolHeld /\ [Next]_vars => PoolHeld'
    BY PoolKept
  <1>3. PoolHeld => OrphansAreLate
    BY DEF PoolHeld, OrphansAreLate
  <1>4. QED BY <1>1, <1>2, <1>3, LockInvariant, PTL DEF Spec
-----------------------------------------------------------------------------
(* A calm Stop: no run is anywhere while it lasts.                         *)

QuietHeld ==
  /\ stop.pc \in {"idle", "begin"} => ~stop.calm
  /\ stop.calm => \A r \in Runs : At(r, "free") /\ ParAt(r, "free")

VPNPCs == {"prepare", "launch", "setcmd", "route", "activate"}

(***************************************************************************)
(* The places that matter here, and the steps that lead to and from them.  *)
(***************************************************************************)
LEMMA RunPlaces ==
  ASSUME Typed, NEW r \in Runs, RunStep(r) \/ AttemptFails(r)
  PROVE  /\ Others(r) /\ runs[r].pc # "free"
         /\ ~StartVPN(r) => /\ runs[r].pc \notin VPNPCs /\ runs'[r].pc \notin VPNPCs
                            /\ runs'[r].proc \in {runs[r].proc, NoProc}
         /\ ~StartDNS(r) => runs[r].pc # "setdns"
         /\ ~SetSystemProxy(r) => runs[r].pc # "setproxy"
PROOF
  <1>1. CASE Head(r) \/ Inject(r) \/ WaitRetry(r) \/ Authenticated(r) \/ ReplacePool(r) \/ BindFails(r)
             \/ StartDNS(r) \/ SetSystemProxy(r) \/ ReportConnected(r)
    <2>1. \/ Done(r) /\ runs[r].pc \in {"head", "failed", "connect"}
          \/ \E pc \in RunPCs \ VPNPCs : Goto(r, pc) /\ runs[r].pc \notin VPNPCs \cup {"free", "setdns", "setproxy"}
          \/ StartDNS(r) /\ Goto(r, "connect") /\ runs[r].pc = "setdns"
          \/ SetSystemProxy(r) /\ Goto(r, "connect") /\ runs[r].pc = "setproxy"
      <3>1. CASE Head(r) \/ Inject(r) \/ WaitRetry(r) \/ Authenticated(r) \/ ReplacePool(r)
        BY <3>1 DEF Head, Inject, WaitRetry, Authenticated, ReplacePool, At, RunPCs, VPNPCs
      <3>2. CASE BindFails(r) \/ ReportConnected(r)
        BY <3>2 DEF BindFails, ReportConnected, At, RunPCs, VPNPCs
      <3>3. CASE StartDNS(r)
        <4>1. /\ runs[r].pc \in {"dns", "setdns"}
              /\ Goto(r, "connect") \/ (runs[r].pc = "dns" /\ Goto(r, "setdns"))
          BY <3>3 DEF StartDNS, At
        <4>2. QED BY <3>3, <4>1 DEF RunPCs, VPNPCs
      <3>4. CASE SetSystemProxy(r)
        <4>1. /\ runs[r].pc \in {"proxy", "setproxy"}
              /\ Goto(r, "connect") \/ (runs[r].pc = "proxy" /\ Goto(r, "setproxy"))
          BY <3>4 DEF SetSystemProxy, At
        <4>2. QED BY <3>4, <4>1 DEF RunPCs, VPNPCs
      <3>5. QED BY <1>1, <3>1, <3>2, <3>3, <3>4
    <2>2. ASSUME NEW pc, Goto(r, pc) PROVE runs'[r].pc = pc /\ runs'[r].proc = runs[r].proc /\ Others(r)
      BY <2>2, RunGoes
    <2>3. Done(r) => runs'[r].pc = "free" /\ runs'[r].proc = NoProc /\ Others(r)
      BY RunEnds
    <2>4. QED BY <2>1, <2>2, <2>3 DEF VPNPCs
  <1>2. CASE StartSocks(r)
    <2>1. PICK pc \in {"vpn", "proxy", "connect"} : Goto(r, pc)
      BY <1>2 DEF StartSocks
    <2>2. runs[r].pc = "socks"
      BY <1>2 DEF StartSocks, At
    <2>3. QED BY <2>1, <2>2, RunGoes DEF VPNPCs
  <1>3. CASE Connected(r) \/ Install(r)
    <2>1. \/ runs[r].pc = "dial" /\ runs' = [runs EXCEPT ![r].pc = "auth", ![r].client = Stream]
          \/ runs[r].pc = "install" /\ runs' = [runs EXCEPT ![r].pc = "socks", ![r].client = None]
      BY <1>3 DEF Connected, Install, At
    <2>2. QED BY <2>1, RunGoesWith DEF VPNPCs
  <1>4. CASE AttemptFails(r)
    <2>1. runs[r].pc \in {"dial", "auth"}
      BY <1>4 DEF AttemptFails, At
    <2>2. Done(r) \/ runs' = [runs EXCEPT ![r].pc = "wait", ![r].client = None]
      BY <1>4 DEF AttemptFails
    <2>3. /\ Others(r) /\ runs'[r].pc \in {"free", "wait"}
          /\ runs'[r].proc \in {runs[r].proc, NoProc}
      <3>1. CASE Done(r)
        BY <3>1, RunEnds
      <3>2. CASE runs' = [runs EXCEPT ![r].pc = "wait", ![r].client = None]
        BY <3>2, RunGoesWith
      <3>3. QED BY <2>2, <3>1, <3>2
    <2>4. QED BY <2>1, <2>3 DEF VPNPCs
  <1>5. CASE StartVPN(r)
    <2>1. runs[r].pc \in VPNPCs \cup {"vpn"}
      BY <1>5 DEF StartVPN, At, VPNPCs
    <2>2. \/ \E pc \in RunPCs : Goto(r, pc)
          \/ runs' = [runs EXCEPT ![r].pc = "setcmd", ![r].proc = NewProc]
          \/ runs' = [runs EXCEPT ![r].pc = "route", ![r].proc = NoProc]
      BY <1>5 DEF StartVPN, RunPCs
    <2>3. QED BY <1>5, <2>1, <2>2, RunGoes, RunGoesProc DEF VPNPCs
  <1>6. QED BY <1>1, <1>2, <1>3, <1>4, <1>5 DEF RunStep

LEMMA NoneWhileCalm ==
  ASSUME Typed, QuietHeld, NEW r \in Runs, RunStep(r) \/ AttemptFails(r) \/ ParStep(r)
  PROVE  ~stop.calm
PROOF
  <1>1. ParStep(r) => ~ParAt(r, "free")
    BY DEF ParStep, ParHead, ParConnect, ParAdd, ParAt
  <1>2. RunStep(r) \/ AttemptFails(r) => ~At(r, "free")
    BY RunPlaces DEF At
  <1>3. QED BY <1>1, <1>2 DEF QuietHeld

LEMMA QuietKept ==
  ASSUME Typed, QuietHeld, [Next]_vars
  PROVE  QuietHeld'
PROOF
  <1>0. stop.calm \in BOOLEAN
    BY DEF Typed, ManagerTyped, StopRecord
  <1>1. CASE Toggle
    <2>1. UNCHANGED <<runs, parallel>>
      BY <1>1 DEF Toggle
    <2>2. stop'.calm = stop.calm /\ (stop'.pc = stop.pc \/ stop.pc = "idle")
      BY <1>1, StopGoes
    <2>3. QED BY <2>1, <2>2 DEF QuietHeld, At, ParAt
  <1>2. CASE Start
    <2>1. CASE Busy
      BY <1>2, <2>1, Started DEF Start, QuietHeld, At, ParAt
    <2>2. CASE ~Busy
      <3>1. stop'.calm = FALSE
        BY <1>2, <2>2, Started DEF Typed, ManagerTyped, StopRecord
      <3>2. QED BY <3>1 DEF QuietHeld
    <2>3. QED BY <2>1, <2>2
  <1>3. CASE ToggleSystemProxy
    <2>1. stop'.calm = FALSE
      BY <1>3 DEF ToggleSystemProxy, Typed, ManagerTyped, StopRecord
    <2>2. QED BY <2>1 DEF QuietHeld
  <1>4. CASE StopStep
    <2>1. CASE StopBegin
      <3>1. stop'.pc = "vpn" /\ stop'.calm = Quiet /\ UNCHANGED parallel
        BY <2>1, StopGoes DEF StopBegin
      <3>2. \A r \in Runs : runs'[r].pc = runs[r].pc
        BY <2>1, Cancelled
      <3>3. QED BY <3>1, <3>2 DEF QuietHeld, Quiet, At, ParAt
    <2>2. CASE StopVPN \/ StopRoutes \/ StopLock \/ StopPool \/ StopSocks \/ StopConns
      <3>1. stop'.pc \notin {"idle", "begin"} /\ stop'.calm = stop.calm
        BY <2>2, StopGoes
      <3>2. UNCHANGED <<runs, parallel>>
        BY <2>2 DEF StopVPN, StopRoutes, StopLock, StopPool, StopSocks, StopConns
      <3>3. QED BY <3>1, <3>2 DEF QuietHeld, At, ParAt
    <2>3. CASE StopEnd
      BY <2>3, StopGoes DEF QuietHeld
    <2>4. QED BY <1>4, <2>1, <2>2, <2>3 DEF StopStep
  <1>5. ASSUME NEW r \in Runs, RunStep(r) \/ AttemptFails(r) PROVE QuietHeld'
    BY <1>5, NoneWhileCalm, RunFrame DEF QuietHeld
  <1>6. ASSUME NEW r \in Runs, ParStep(r) PROVE QuietHeld'
    BY <1>6, NoneWhileCalm, ParFrame DEF QuietHeld
  <1>7. CASE Outside
    BY <1>7, OutsideKeeps DEF QuietHeld, At, ParAt
  <1>8. QED BY <1>1, <1>2, <1>3, <1>4, <1>5, <1>6, <1>7, StepCases
-----------------------------------------------------------------------------
(* Things done in two steps: what only the first has been done of belongs  *)
(* to a goroutine that is between them.                                    *)

HalvesHeld ==
  /\ \A r \in Runs : runs[r].proc # NoProc => At(r, "setcmd")
  /\ stop.proc # NoProc => stop.pc = "routes"
  /\ dns.open /\ ~dns.named => \E r \in Runs : At(r, "setdns")
  /\ proxy.set /\ ~proxy.on /\ ~proxy.left => \E r \in Runs : At(r, "setproxy")

LEMMA HalvesKept ==
  ASSUME Typed, HalvesHeld, [Next]_vars
  PROVE  HalvesHeld'
PROOF
  <1>0. /\ dns \in [open : BOOLEAN, named : BOOLEAN] /\ proxy \in [set : BOOLEAN, on : BOOLEAN, left : BOOLEAN]
        /\ stop \in StopRecord
    BY DEF Typed, ManagerTyped
  <1>1. ASSUME UNCHANGED <<dns, proxy>>, stop'.proc # NoProc => stop'.pc = "routes",
               \A r \in Runs : runs'[r].pc = runs[r].pc /\ runs'[r].proc = runs[r].proc
        PROVE  HalvesHeld'
    BY <1>1 DEF HalvesHeld, At
  <1>2. CASE Toggle
    <2>1. UNCHANGED <<dns, proxy, runs>>
      BY <1>2 DEF Toggle
    <2>2. stop'.proc = stop.proc /\ (stop'.pc = stop.pc \/ stop.pc = "idle")
      BY <1>2, StopGoes
    <2>3. QED BY <1>1, <2>1, <2>2 DEF HalvesHeld
  <1>3. CASE Start
    <2>1. UNCHANGED <<dns, proxy>>
      BY <1>3 DEF Start
    <2>2. stop'.proc # NoProc => stop'.pc = "routes"
      BY <1>3, StopGoes DEF HalvesHeld
    <2>3. CASE Busy
      BY <1>1, <1>3, <2>1, <2>2, <2>3, Started
    <2>4. CASE ~Busy
      <3>1. PICK r \in Runs : At(r, "free") /\ runs'[r].pc = "head" /\ runs'[r].proc = NoProc /\ Others(r)
        BY <1>3, <2>4, Started
      <3>2. \A q \in Runs : q # r => runs'[q] = runs[q]
        BY <3>1 DEF Others
      <3>3. ASSUME NEW q \in Runs, NEW pc, pc # "free", At(q, pc) PROVE runs'[q].pc = pc
        BY <3>1, <3>2, <3>3 DEF At
      <3>4. \A q \in Runs : runs'[q].proc # NoProc => runs'[q].pc = "setcmd"
        BY <3>1, <3>2 DEF HalvesHeld, At
      <3>5. QED BY <2>1, <2>2, <3>3, <3>4 DEF HalvesHeld, At
    <2>5. QED BY <2>3, <2>4
  <1>4. CASE ToggleSystemProxy
    <2>1. proxy'.set = proxy'.on /\ UNCHANGED <<dns, runs>>
      BY <1>4 DEF ToggleSystemProxy, Cleared
    <2>2. stop'.proc # NoProc => stop'.pc = "routes"
      BY <1>4, StopGoes DEF HalvesHeld
    <2>3. QED BY <2>1, <2>2 DEF HalvesHeld, At
  <1>5. CASE StopStep
    <2>1. stop'.proc # NoProc => stop'.pc = "routes"
      <3>1. CASE StopBegin
        BY <3>1, StopGoes DEF HalvesHeld, StopBegin, StopAt
      <3>2. CASE StopVPN
        BY <3>2, StopGoes DEF HalvesHeld, StopVPN, StopAt
      <3>3. CASE StopRoutes \/ StopEnd
        BY <3>3, StopGoes
      <3>4. CASE StopLock \/ StopPool \/ StopSocks \/ StopConns
        BY <3>4, StopGoes DEF HalvesHeld, StopLock, StopPool, StopSocks, StopConns, StopAt
      <3>5. QED BY <1>5, <3>1, <3>2, <3>3, <3>4 DEF StopStep
    <2>2. \A r \in Runs : runs'[r].pc = runs[r].pc /\ runs'[r].proc = runs[r].proc
      BY <1>5, Cancelled DEF StopStep, StopVPN, StopRoutes, StopLock, StopPool, StopSocks, StopConns, StopEnd
    <2>3. UNCHANGED dns \/ dns' = [open |-> FALSE, named |-> FALSE]
      BY <1>5 DEF StopStep, StopBegin, StopVPN, StopRoutes, StopLock, StopPool, StopSocks, StopConns, StopEnd
    <2>4. UNCHANGED proxy \/ proxy' = Cleared \/ proxy' = NotCleared
      BY <1>5 DEF StopStep, StopBegin, StopVPN, StopRoutes, StopLock, StopPool, StopSocks, StopConns, StopEnd
    <2>5. dns'.open /\ ~dns'.named => \E r \in Runs : runs'[r].pc = "setdns"
      BY <2>2, <2>3 DEF HalvesHeld, At
    <2>6. proxy'.set /\ ~proxy'.on /\ ~proxy'.left => \E r \in Runs : runs'[r].pc = "setproxy"
      <3>1. ~Cleared.set /\ NotCleared.left
        BY <1>0 DEF Cleared, NotCleared
      <3>2. QED BY <2>2, <2>4, <3>1 DEF HalvesHeld, At
    <2>7. QED BY <2>1, <2>2, <2>5, <2>6 DEF HalvesHeld, At
  <1>6. ASSUME NEW r \in Runs, RunStep(r) \/ AttemptFails(r) PROVE HalvesHeld'
    <2>0. Others(r) /\ UNCHANGED stop
      BY <1>6, RunPlaces, RunFrame
    <2>1. \A q \in Runs : runs'[q].proc # NoProc => runs'[q].pc = "setcmd"
      <3>1. CASE StartVPN(r)
        <4>1. \/ \E pc \in RunPCs : Goto(r, pc) /\ runs[r].pc # "setcmd"
              \/ runs' = [runs EXCEPT ![r].pc = "setcmd", ![r].proc = NewProc]
              \/ runs' = [runs EXCEPT ![r].pc = "route", ![r].proc = NoProc]
          BY <3>1 DEF StartVPN, RunPCs, At
        <4>2. ASSUME NEW pc, Goto(r, pc), runs[r].pc # "setcmd" PROVE runs'[r].proc = NoProc
          BY <4>2, RunGoes DEF HalvesHeld, At
        <4>3. runs'[r].proc = NoProc \/ runs'[r].pc = "setcmd"
          BY <4>1, <4>2, RunGoesProc
        <4>4. QED BY <2>0, <4>3 DEF Others, HalvesHeld, At
      <3>2. CASE ~StartVPN(r)
        <4>1. runs'[r].proc = NoProc
          BY <1>6, <3>2, RunPlaces DEF VPNPCs, HalvesHeld, At
        <4>2. QED BY <2>0, <4>1 DEF Others, HalvesHeld, At
      <3>3. QED BY <3>1, <3>2
    <2>2. dns'.open /\ ~dns'.named => \E q \in Runs : runs'[q].pc = "setdns"
      <3>1. CASE StartDNS(r)
        <4>1. CASE At(r, "dns") /\ ~dns.open /\ Goto(r, "setdns")
          BY <4>1, RunGoes
        <4>2. CASE At(r, "dns") /\ dns.open /\ UNCHANGED dns
          BY <2>0, <4>2 DEF HalvesHeld, At, Others
        <4>3. CASE dns' = [dns EXCEPT !.named = TRUE]
          BY <1>0, <4>3
        <4>4. QED BY <3>1, <4>1, <4>2, <4>3 DEF StartDNS
      <3>2. CASE ~StartDNS(r)
        <4>1. UNCHANGED dns /\ runs[r].pc # "setdns"
          BY <1>6, <3>2, RunPlaces, RunFrame
        <4>2. QED BY <2>0, <4>1 DEF HalvesHeld, At, Others
      <3>3. QED BY <3>1, <3>2
    <2>3. proxy'.set /\ ~proxy'.on /\ ~proxy'.left => \E q \in Runs : runs'[q].pc = "setproxy"
      <3>1. CASE SetSystemProxy(r)
        <4>1. CASE Goto(r, "setproxy")
          BY <4>1, RunGoes
        <4>2. CASE proxy' = [proxy EXCEPT !.on = TRUE]
          BY <1>0, <4>2
        <4>3. CASE At(r, "proxy") /\ UNCHANGED proxy
          BY <2>0, <4>3 DEF HalvesHeld, At, Others
        <4>4. QED BY <3>1, <4>1, <4>2, <4>3 DEF SetSystemProxy
      <3>2. CASE ~SetSystemProxy(r)
        <4>1. UNCHANGED proxy /\ runs[r].pc # "setproxy"
          BY <1>6, <3>2, RunPlaces, RunFrame
        <4>2. QED BY <2>0, <4>1 DEF HalvesHeld, At, Others
      <3>3. QED BY <3>1, <3>2
    <2>4. QED BY <2>0, <2>1, <2>2, <2>3 DEF HalvesHeld, At
  <1>7. ASSUME NEW r \in Runs, ParStep(r) PROVE HalvesHeld'
    BY <1>1, <1>7, ParFrame DEF HalvesHeld
  <1>8. CASE Outside
    BY <1>1, <1>8, OutsideKeeps DEF HalvesHeld
  <1>9. QED BY <1>2, <1>3, <1>4, <1>5, <1>6, <1>7, <1>8, StepCases

(***************************************************************************)
(* What cleanup has undone by each of its steps, if Stop is calm.          *)
(***************************************************************************)
CleanHeld ==
  stop.calm =>
    /\ stop.pc \in {"pool", "closing", "socks", "conns", "final"} => ~dns.open
    /\ stop.pc \in {"socks", "conns", "final"} => Current = {}
    /\ stop.pc = "final" => server = None /\ (proxy.set => proxy.left)

LEMMA CleanKept ==
  ASSUME Typed, QuietHeld, HalvesHeld, CleanHeld, [Next]_vars
  PROVE  CleanHeld'
PROOF
  <1>0. pool \in [Clients -> {"none", "current", "old"}] /\ dns.open \in BOOLEAN
        /\ proxy \in [set : BOOLEAN, on : BOOLEAN, left : BOOLEAN]
    BY DEF Typed, PoolTyped, ManagerTyped
  <1>1. CASE Toggle
    <2>1. UNCHANGED <<pool, server, dns, proxy>>
      BY <1>1 DEF Toggle, Parts, ssh
    <2>2. stop'.calm = stop.calm /\ (stop'.pc = stop.pc \/ stop'.pc = "begin")
      BY <1>1, StopGoes
    <2>3. QED BY <2>1, <2>2 DEF CleanHeld, Current
  <1>2. CASE Start \/ ToggleSystemProxy
    <2>1. stop'.calm => stop.calm /\ stop'.pc = stop.pc /\ UNCHANGED proxy
      <3>1. CASE Start
        BY <3>1, StopGoes DEF Start
      <3>2. CASE ToggleSystemProxy
        BY <3>2 DEF ToggleSystemProxy, Typed, ManagerTyped, StopRecord
      <3>3. QED BY <1>2, <3>1, <3>2
    <2>2. UNCHANGED <<pool, server, dns>>
      BY <1>2 DEF Start, ToggleSystemProxy, Parts, ssh
    <2>3. QED BY <2>1, <2>2 DEF CleanHeld, Current
  <1>3. CASE StopStep
    <2>1. CASE StopBegin \/ StopVPN \/ StopRoutes \/ StopEnd
      <3>1. stop'.pc \notin {"pool", "closing", "socks", "conns", "final"}
        BY <2>1, StopGoes
      <3>2. QED BY <3>1 DEF CleanHeld
    <2>2. CASE StopLock
      <3>1. stop'.calm = stop.calm /\ stop'.pc = "pool"
        BY <2>2, StopGoes
      <3>2. stop.calm => ~dns'.open
        BY <2>2 DEF StopLock, QuietHeld, HalvesHeld, At
      <3>3. QED BY <3>1, <3>2 DEF CleanHeld
    <2>3. CASE StopPool
      <3>1. stop'.calm = stop.calm /\ UNCHANGED <<dns, pool>>
        BY <2>3, StopGoes DEF StopPool, BeginClose, EndClose
      <3>2. stop.pc \in {"pool", "closing"} /\ stop'.pc \in {"closing", "socks"} /\ (stop'.pc = "socks" => Current = {})
        BY <2>3, StopGoes DEF StopPool, StopAt, EndClose, AllClosed
      <3>3. QED BY <3>1, <3>2 DEF CleanHeld, Current
    <2>4. CASE StopSocks
      <3>1. stop'.calm = stop.calm /\ stop.pc = "socks" /\ stop'.pc = "conns"
        BY <2>4, StopGoes DEF StopSocks, StopAt
      <3>2. UNCHANGED <<dns, pool>>
        BY <2>4 DEF StopSocks, ssh
      <3>3. QED BY <3>1, <3>2 DEF CleanHeld, Current
    <2>5. CASE StopConns
      <3>1. stop'.calm = stop.calm /\ stop.pc = "conns" /\ stop'.pc = "final" /\ server' = None
        BY <2>5, StopGoes DEF StopConns, StopAt, ServerAfterStop
      <3>2. UNCHANGED <<dns, pool>>
        BY <2>5 DEF StopConns, ssh
      <3>3. stop.calm => (proxy'.set => proxy'.left)
        <4>1. proxy' = NotCleared \/ proxy' = Cleared \/ (proxy' = proxy /\ ~proxy.on)
          BY <2>5 DEF StopConns
        <4>2. stop.calm /\ ~proxy.on => (proxy.set => proxy.left)
          BY <2>5 DEF StopConns, QuietHeld, HalvesHeld, At, StopAt
        <4>3. ~Cleared.set /\ NotCleared.left
          BY <1>0 DEF Cleared, NotCleared
        <4>4. QED BY <4>1, <4>2, <4>3
      <3>4. QED BY <3>1, <3>2, <3>3 DEF CleanHeld, Current
    <2>6. QED BY <1>3, <2>1, <2>2, <2>3, <2>4, <2>5 DEF StopStep
  <1>4. ASSUME NEW r \in Runs, RunStep(r) \/ AttemptFails(r) PROVE CleanHeld'
    BY <1>4, NoneWhileCalm, RunFrame DEF CleanHeld
  <1>5. ASSUME NEW r \in Runs, ParStep(r) PROVE CleanHeld'
    BY <1>5, NoneWhileCalm, ParFrame DEF CleanHeld
  <1>6. CASE Outside
    <2>1. UNCHANGED <<stop, server, dns, proxy>>
      BY <1>6, OutsideKeeps
    <2>2. \A c \in Clients : pool'[c] = pool[c] \/ pool'[c] = "none"
      BY <1>6, OutsidePool
    <2>3. QED BY <2>1, <2>2 DEF CleanHeld, Current
  <1>7. QED BY <1>1, <1>2, <1>3, <1>4, <1>5, <1>6, StepCases
-----------------------------------------------------------------------------
(* The VPN controller in the manager. Its starting flag keeps all runs but *)
(* one out of Start, so a process is launched when none runs, and whatever *)
(* runs later is named by cmd, by the run about to set it, by the Stop     *)
(* about to kill it, or by nobody since a monitor cleared cmd.             *)

StartsAlone ==
  \A r \in Runs : runs[r].pc \in VPNPCs => vpnStarting /\ \A q \in Runs : runs[q].pc \in VPNPCs => q = r
ProcsNamed ==
  /\ \A r \in Runs : At(r, "launch") => \A p \in Procs : procs[p] # "running"
  /\ \A r \in Runs : At(r, "setcmd") => runs[r].proc # NoProc /\ \A p \in Procs : procs[p] = "running" => runs[r].proc = p
  /\ \A p \in Procs : procs[p] = "running" =>
       cmd = p \/ (\E r \in Runs : runs[r].proc = p) \/ stop.proc = p \/ "process" \in stray
RoutesOwned ==
  routes => vpnActive \/ cmd # NoProc \/ (\E r \in Runs : At(r, "activate")) \/ stop.pc = "routes" \/ "routes" \in stray
VPNDown == stop.calm /\ stop.pc # "vpn" => ~vpnActive /\ cmd = NoProc
VPNHeld == StartsAlone /\ ProcsNamed /\ RoutesOwned /\ VPNDown

\* Steps that leave the controller alone, and its runs where they are.
LEMMA VPNLeft ==
  ASSUME Typed, VPNHeld, HalvesHeld, UNCHANGED vpn,
         \A q \in Runs : \/ runs'[q].pc = runs[q].pc /\ runs'[q].proc = runs[q].proc
                         \/ runs[q].pc \notin VPNPCs /\ runs'[q].pc \notin VPNPCs,
         stop.proc # NoProc => stop'.proc = stop.proc,
         stop.pc = "routes" => stop'.pc = "routes",
         stop'.calm /\ stop'.pc # "vpn" => (stop.calm /\ stop.pc # "vpn") \/ VPNStopped
  PROVE  VPNHeld'
PROOF
  <1>1. UNCHANGED <<vpnActive, vpnStarting, cmd, procs, routes, stray>>
    BY DEF vpn
  <1>2. StartsAlone'
    BY <1>1 DEF VPNHeld, StartsAlone
  <1>3. ASSUME NEW q \in Runs, runs[q].proc # NoProc PROVE runs'[q].proc = runs[q].proc
    BY <1>3 DEF HalvesHeld, At, VPNPCs
  <1>4. ProcsNamed'
    BY <1>1, <1>3, Parameters DEF VPNHeld, ProcsNamed, At, VPNPCs
  <1>5. RoutesOwned'
    BY <1>1 DEF VPNHeld, RoutesOwned, At, VPNPCs
  <1>6. VPNDown'
    BY <1>1 DEF VPNHeld, VPNDown, VPNStopped
  <1>7. QED BY <1>2, <1>4, <1>5, <1>6 DEF VPNHeld

\* Steps of the controller by which no process starts.
LEMMA FewerRun ==
  ASSUME Typed, ProcsNamed, UNCHANGED <<cmd, runs>>, "process" \in stray => "process" \in stray',
         \A p \in Procs : procs'[p] = "running" => procs[p] = "running" /\ (stop.proc = p => stop'.proc = p)
  PROVE  ProcsNamed'
BY DEF ProcsNamed, At

LEMMA MonitorKeeps ==
  ASSUME Typed, VPNHeld, NEW p \in Procs, ProcDies(p) \/ Reap(p) \/ ClearCmd(p), UNCHANGED <<runs, stop>>
  PROVE  VPNHeld'
PROOF
  <1>0. procs \in [Procs -> {"none", "running", "dead", "reaped"}] /\ vpnActive \in BOOLEAN
    BY DEF Typed, VPNTyped
  <1>1. StartsAlone'
    BY DEF VPNHeld, StartsAlone, ProcDies, Reap, ClearCmd
  <1>2. CASE ProcDies(p)
    <2>1. ProcsNamed'
      BY <1>0, <1>2, FewerRun DEF VPNHeld, ProcDies
    <2>2. RoutesOwned' /\ VPNDown'
      BY <1>2 DEF VPNHeld, ProcDies, RoutesOwned, VPNDown, At
    <2>3. QED BY <1>1, <2>1, <2>2 DEF VPNHeld
  <1>3. CASE Reap(p)
    <2>1. ProcsNamed'
      BY <1>0, <1>3, FewerRun DEF VPNHeld, Reap
    <2>2. RoutesOwned'
      BY <1>3 DEF VPNHeld, Reap, RoutesOwned, At
    <2>3. VPNDown'
      BY <1>3 DEF VPNHeld, Reap, VPNDown
    <2>4. QED BY <1>1, <2>1, <2>2, <2>3 DEF VPNHeld
  <1>4. CASE ClearCmd(p)
    <2>1. /\ cmd' = NoProc /\ procs' = [procs EXCEPT ![p] = "none"] /\ procs[p] = "reaped"
          /\ UNCHANGED <<vpnActive, vpnStarting, routes>> /\ stray \subseteq stray'
          /\ cmd # NoProc /\ ~vpnActive => "routes" \in stray'
          /\ cmd # NoProc /\ cmd # p => "process" \in stray'
      BY <1>4 DEF ClearCmd
    <2>2. ProcsNamed'
      <3>1. ASSUME NEW q \in Procs, procs'[q] = "running"
            PROVE  procs[q] = "running" /\ q # p
        BY <1>0, <2>1, <3>1
      <3>2. ASSUME NEW q \in Procs, procs'[q] = "running"
            PROVE  (\E r \in Runs : runs[r].proc = q) \/ stop.proc = q \/ "process" \in stray'
        <4>1. procs[q] = "running" /\ q # p /\ q # NoProc
          BY <3>1, <3>2, Parameters
        <4>2. CASE cmd = q
          BY <2>1, <4>1, <4>2
        <4>3. CASE cmd # q
          BY <2>1, <4>1, <4>3 DEF VPNHeld, ProcsNamed
        <4>4. QED BY <4>2, <4>3
      <3>3. QED BY <3>1, <3>2 DEF VPNHeld, ProcsNamed, At
    <2>3. RoutesOwned'
      BY <2>1 DEF VPNHeld, RoutesOwned, At
    <2>4. VPNDown'
      BY <2>1 DEF VPNHeld, VPNDown
    <2>5. QED BY <1>1, <2>2, <2>3, <2>4 DEF VPNHeld
  <1>5. QED BY <1>2, <1>3, <1>4

LEMMA StartVPNKeeps ==
  ASSUME Typed, QuietHeld, HalvesHeld, VPNHeld, NEW r \in Runs, StartVPN(r)
  PROVE  VPNHeld'
PROOF
  <1>0. /\ procs \in [Procs -> {"none", "running", "dead", "reaped"}]
        /\ UNCHANGED stop /\ ~stop.calm /\ Others(r)
        /\ \A q \in Runs : runs[q].proc # NoProc => runs[q].pc = "setcmd"
    BY NoneWhileCalm, RunFrame, RunPlaces DEF Typed, VPNTyped, RunStep, HalvesHeld, At
  <1>1. VPNDown'
    BY <1>0 DEF VPNDown
  <1>2. \A q \in Runs : q # r => runs'[q] = runs[q]
    BY <1>0 DEF Others
  <1>3. ASSUME runs[r].pc \in VPNPCs
        PROVE  vpnStarting /\ \A q \in Runs : q # r => runs[q].pc \notin VPNPCs /\ runs[q].proc = NoProc
    BY <1>0, <1>3 DEF VPNHeld, StartsAlone, VPNPCs
  <1>4. CASE UNCHANGED vpn /\ At(r, "vpn") /\ \E pc \in {"dns", "connect"} : Goto(r, pc)
    <2>1. PICK pc \in {"dns", "connect"} : Goto(r, pc)
      BY <1>4
    <2>2. runs'[r].pc \notin VPNPCs /\ runs[r].pc \notin VPNPCs
      BY <1>4, <2>1, RunGoes DEF At, VPNPCs
    <2>3. QED BY <1>0, <1>2, <1>4, <2>2, VPNLeft
  <1>5. CASE At(r, "vpn") /\ VPNEnter /\ Goto(r, "prepare")
    <2>1. runs'[r].pc = "prepare" /\ runs'[r].proc = NoProc /\ runs[r].pc = "vpn"
      BY <1>0, <1>5, RunGoes DEF At
    <2>2. \A q \in Runs : runs[q].pc \notin VPNPCs
      BY <1>5 DEF VPNEnter, VPNHeld, StartsAlone
    <2>3. StartsAlone'
      BY <1>2, <1>5, <2>2 DEF VPNEnter, StartsAlone
    <2>4. UNCHANGED <<vpnActive, cmd, procs, routes, stray>>
      BY <1>5 DEF VPNEnter
    <2>5. ProcsNamed'
      BY <1>0, <1>2, <2>1, <2>2, <2>4, Parameters DEF VPNHeld, ProcsNamed, At, VPNPCs
    <2>6. RoutesOwned'
      BY <1>0, <1>2, <2>1, <2>4 DEF VPNHeld, RoutesOwned, At
    <2>7. QED BY <1>1, <2>3, <2>5, <2>6 DEF VPNHeld
  <1>6. CASE At(r, "prepare") /\ VPNPrepare /\ Goto(r, "launch")
    <2>1. runs'[r].pc = "launch" /\ runs'[r].proc = NoProc /\ runs[r].pc = "prepare"
      BY <1>0, <1>6, RunGoes DEF At
    <2>2. vpnStarting /\ \A q \in Runs : q # r => runs[q].pc \notin VPNPCs
      BY <1>3, <2>1 DEF VPNPCs
    <2>3. StartsAlone'
      BY <1>2, <1>6, <2>2 DEF VPNPrepare, StartsAlone
    <2>4. \A p \in Procs : procs'[p] # "running"
      BY <1>6 DEF VPNPrepare, Killed
    <2>5. ProcsNamed'
      BY <1>2, <2>1, <2>2, <2>4 DEF ProcsNamed, At, VPNPCs
    <2>6. UNCHANGED <<vpnActive, cmd, routes>> /\ ("routes" \in stray => "routes" \in stray')
      BY <1>6 DEF VPNPrepare
    <2>7. RoutesOwned'
      BY <1>0, <1>2, <2>1, <2>6 DEF VPNHeld, RoutesOwned, At
    <2>8. QED BY <1>1, <2>3, <2>5, <2>7 DEF VPNHeld
  <1>7. CASE At(r, "launch") /\ VPNFail /\ Goto(r, "connect")
    <2>1. runs'[r].pc = "connect" /\ runs'[r].proc = NoProc /\ runs[r].pc = "launch"
      BY <1>0, <1>7, RunGoes DEF At
    <2>2. \A q \in Runs : q # r => runs[q].pc \notin VPNPCs
      BY <1>3, <2>1 DEF VPNPCs
    <2>3. \A q \in Runs : runs'[q].pc \notin VPNPCs
      BY <1>2, <2>1, <2>2 DEF VPNPCs
    <2>4. UNCHANGED <<vpnActive, cmd, procs, routes, stray>>
      BY <1>7 DEF VPNFail
    <2>5. \A p \in Procs : procs'[p] # "running"
      BY <1>7, <2>4 DEF VPNHeld, ProcsNamed
    <2>6. StartsAlone' /\ ProcsNamed'
      BY <2>3, <2>5 DEF StartsAlone, ProcsNamed, At, VPNPCs
    <2>7. RoutesOwned'
      BY <1>0, <1>2, <2>1, <2>4 DEF VPNHeld, RoutesOwned, At
    <2>8. QED BY <1>1, <2>6, <2>7 DEF VPNHeld
  <1>8. CASE At(r, "launch") /\ VPNLaunch /\ runs' = [runs EXCEPT ![r].pc = "setcmd", ![r].proc = NewProc]
    <2>0. NewProc \in Procs /\ NewProc # NoProc
      BY <1>8, Parameters DEF VPNLaunch, NewProc
    <2>1. runs'[r].pc = "setcmd" /\ runs'[r].proc = NewProc /\ runs[r].pc = "launch"
      <3>1. runs' = [runs EXCEPT ![r].pc = "setcmd", ![r].proc = NewProc]
        BY <1>8
      <3>2. runs'[r].pc = "setcmd" /\ runs'[r].proc = NewProc
        BY <3>1 DEF RunRecord, Typed, ManagerTyped
      <3>3. QED BY <1>8, <3>2 DEF At
    <2>2. vpnStarting /\ \A q \in Runs : q # r => runs[q].pc \notin VPNPCs
      BY <1>3, <2>1 DEF VPNPCs
    <2>3. UNCHANGED <<vpnActive, vpnStarting, cmd, routes, stray>>
      BY <1>8 DEF VPNLaunch
    <2>4. StartsAlone'
      BY <1>2, <2>2, <2>3 DEF StartsAlone
    <2>5. \A p \in Procs : procs'[p] = "running" => p = NewProc
      BY <1>0, <1>8 DEF VPNLaunch, VPNHeld, ProcsNamed
    <2>6. ProcsNamed'
      <3>1. ASSUME NEW q \in Runs, runs'[q].pc \in VPNPCs PROVE q = r
        BY <1>2, <2>2, <3>1
      <3>2. \A q \in Runs : runs'[q].pc # "launch" /\ (runs'[q].pc = "setcmd" => q = r)
        BY <2>1, <3>1 DEF VPNPCs
      <3>3. QED BY <2>0, <2>1, <2>5, <3>2 DEF ProcsNamed, At
    <2>7. RoutesOwned'
      BY <1>0, <1>2, <2>1, <2>3 DEF VPNHeld, RoutesOwned, At
    <2>8. QED BY <1>1, <2>4, <2>6, <2>7 DEF VPNHeld
  <1>9. CASE At(r, "setcmd") /\ VPNSetCmd(runs[r].proc) /\ runs' = [runs EXCEPT ![r].pc = "route", ![r].proc = NoProc]
    <2>1. runs'[r].pc = "route" /\ runs'[r].proc = NoProc /\ runs[r].pc = "setcmd"
      <3>1. runs' = [runs EXCEPT ![r].pc = "route", ![r].proc = NoProc]
        BY <1>9
      <3>2. runs'[r].pc = "route" /\ runs'[r].proc = NoProc
        BY <3>1 DEF RunRecord, Typed, ManagerTyped
      <3>3. QED BY <1>9, <3>2 DEF At
    <2>2. vpnStarting /\ \A q \in Runs : q # r => runs[q].pc \notin VPNPCs
      BY <1>3, <2>1 DEF VPNPCs
    <2>3. UNCHANGED <<vpnActive, vpnStarting, procs, routes, stray>> /\ cmd' = runs[r].proc
      BY <1>9 DEF VPNSetCmd
    <2>4. StartsAlone'
      BY <1>2, <2>2, <2>3 DEF StartsAlone
    <2>5. cmd' # NoProc /\ \A p \in Procs : procs'[p] = "running" => cmd' = p
      BY <1>9, <2>3 DEF VPNHeld, ProcsNamed
    <2>6. ProcsNamed'
      <3>1. \A q \in Runs : runs'[q].pc \notin {"launch", "setcmd"}
        BY <1>2, <2>1, <2>2 DEF VPNPCs
      <3>2. QED BY <2>5, <3>1 DEF ProcsNamed, At
    <2>7. RoutesOwned'
      BY <2>5 DEF RoutesOwned
    <2>8. QED BY <1>1, <2>4, <2>6, <2>7 DEF VPNHeld
  <1>10. CASE At(r, "route") /\ VPNRoute /\ Goto(r, "activate")
    <2>1. runs'[r].pc = "activate" /\ runs'[r].proc = NoProc /\ runs[r].pc = "route"
      BY <1>0, <1>10, RunGoes DEF At
    <2>2. vpnStarting /\ \A q \in Runs : q # r => runs[q].pc \notin VPNPCs
      BY <1>3, <2>1 DEF VPNPCs
    <2>3. UNCHANGED <<vpnActive, vpnStarting, cmd, procs, stray>>
      BY <1>10 DEF VPNRoute
    <2>4. StartsAlone'
      BY <1>2, <2>2, <2>3 DEF StartsAlone
    <2>5. ProcsNamed'
      BY <1>0, <1>2, <2>1, <2>3, Parameters DEF VPNHeld, ProcsNamed, At
    <2>6. RoutesOwned'
      BY <2>1 DEF RoutesOwned, At
    <2>7. QED BY <1>1, <2>4, <2>5, <2>6 DEF VPNHeld
  <1>11. CASE At(r, "activate") /\ VPNActivate /\ Goto(r, "dns")
    <2>1. runs'[r].pc = "dns" /\ runs'[r].proc = NoProc /\ runs[r].pc = "activate"
      BY <1>0, <1>11, RunGoes DEF At
    <2>2. \A q \in Runs : q # r => runs[q].pc \notin VPNPCs
      BY <1>3, <2>1 DEF VPNPCs
    <2>3. UNCHANGED <<cmd, procs, routes, stray>> /\ vpnActive'
      BY <1>11 DEF VPNActivate
    <2>4. \A q \in Runs : runs'[q].pc \notin VPNPCs
      BY <1>2, <2>1, <2>2 DEF VPNPCs
    <2>5. ProcsNamed'
      BY <1>0, <1>2, <2>1, <2>3, Parameters DEF VPNHeld, ProcsNamed, At
    <2>6. StartsAlone' /\ RoutesOwned'
      BY <2>3, <2>4 DEF StartsAlone, RoutesOwned
    <2>7. QED BY <1>1, <2>5, <2>6 DEF VPNHeld
  <1>12. QED BY <1>4, <1>5, <1>6, <1>7, <1>8, <1>9, <1>10, <1>11 DEF StartVPN

LEMMA VPNKept ==
  ASSUME Typed, QuietHeld, HalvesHeld, VPNHeld, [Next]_vars
  PROVE  VPNHeld'
PROOF
  <1>0. stop.calm \in BOOLEAN /\ stop \in StopRecord /\ procs \in [Procs -> {"none", "running", "dead", "reaped"}]
    BY DEF Typed, ManagerTyped, StopRecord, VPNTyped
  <1>1. CASE Toggle
    <2>1. UNCHANGED <<vpn, runs>>
      BY <1>1 DEF Toggle, Parts
    <2>2. stop'.proc = stop.proc /\ stop'.calm = stop.calm
          /\ (stop'.pc = stop.pc \/ (stop.pc = "idle" /\ stop'.pc = "begin"))
      BY <1>1, StopGoes
    <2>3. QED BY <2>1, <2>2, VPNLeft
  <1>2. CASE Start
    <2>1. UNCHANGED vpn
      BY <1>2 DEF Start, Parts
    <2>2. stop'.pc = stop.pc /\ stop'.proc = stop.proc /\ stop'.calm \in {stop.calm, FALSE}
      BY <1>2, StopGoes
    <2>3. \A q \in Runs : \/ runs'[q] = runs[q] \/ (runs[q].pc = "free" /\ runs'[q].pc = "head")
      BY <1>2, Started DEF Others, At
    <2>4. \A q \in Runs : \/ runs'[q].pc = runs[q].pc /\ runs'[q].proc = runs[q].proc
                          \/ runs[q].pc \notin VPNPCs /\ runs'[q].pc \notin VPNPCs
      BY <2>3 DEF VPNPCs
    <2>5. QED BY <2>1, <2>2, <2>4, VPNLeft
  <1>3. CASE ToggleSystemProxy
    <2>1. UNCHANGED <<vpn, runs>>
      BY <1>3 DEF ToggleSystemProxy, Parts
    <2>2. stop'.pc = stop.pc /\ stop'.proc = stop.proc /\ stop'.calm \in {stop.calm, FALSE}
      BY <1>3, StopGoes
    <2>3. QED BY <2>1, <2>2, VPNLeft
  <1>4. CASE StopStep
    <2>1. CASE StopBegin
      <3>1. UNCHANGED vpn /\ stop.pc = "begin"
        BY <2>1 DEF StopBegin, Parts, StopAt
      <3>2. stop'.pc = "vpn" /\ stop'.proc = stop.proc
        BY <2>1, StopGoes
      <3>3. QED BY <2>1, <3>1, <3>2, Cancelled, VPNLeft
    <2>2. CASE StopVPN
      <3>1. stop.pc = "vpn" /\ stop.proc = NoProc /\ UNCHANGED runs
        BY <2>2 DEF StopVPN, StopAt, HalvesHeld
      <3>2. CASE VPNStopped
        <4>1. UNCHANGED vpn
          BY <2>2, <3>2 DEF StopVPN
        <4>2. QED BY <3>1, <3>2, <4>1, VPNLeft
      <3>3. CASE ~VPNStopped
        <4>1. VPNTake /\ stop'.pc = "routes" /\ stop'.proc = cmd
          BY <2>2, <3>3, StopGoes
        <4>2. vpnActive' = FALSE /\ cmd' = NoProc /\ UNCHANGED <<vpnStarting, procs, routes, stray>>
          BY <4>1 DEF VPNTake
        <4>3. StartsAlone' /\ RoutesOwned' /\ VPNDown'
          BY <3>1, <4>1, <4>2 DEF VPNHeld, StartsAlone, RoutesOwned, VPNDown
        <4>4. ProcsNamed'
          BY <3>1, <4>1, <4>2, Parameters DEF VPNHeld, ProcsNamed, At
        <4>5. QED BY <4>3, <4>4 DEF VPNHeld
      <3>4. QED BY <3>2, <3>3
    <2>3. CASE StopRoutes
      <3>1. stop.pc = "routes" /\ stop'.proc = NoProc /\ stop'.pc = "lock" /\ stop'.calm = stop.calm /\ UNCHANGED runs
        BY <2>3, StopGoes DEF StopRoutes, StopAt
      <3>2. /\ routes' = FALSE /\ stray' = stray \ {"routes"} /\ UNCHANGED <<vpnActive, vpnStarting, cmd>>
            /\ procs' = IF stop.proc # NoProc /\ procs[stop.proc] = "running"
                        THEN [procs EXCEPT ![stop.proc] = "dead"] ELSE procs
        BY <2>3 DEF StopRoutes, VPNRestore, RoutesAfterStop
      <3>3. StartsAlone' /\ RoutesOwned' /\ VPNDown'
        BY <3>1, <3>2 DEF VPNHeld, StartsAlone, RoutesOwned, VPNDown
      <3>4. \A p \in Procs : procs'[p] = "running" => procs[p] = "running" /\ stop.proc # p
        BY <1>0, <3>2, Parameters
      <3>5. ProcsNamed'
        BY <3>1, <3>2, <3>4, FewerRun DEF VPNHeld
      <3>6. QED BY <3>3, <3>5 DEF VPNHeld
    <2>4. CASE StopLock \/ StopPool \/ StopSocks \/ StopConns
      <3>1. UNCHANGED <<vpn, runs>> /\ stop.pc \in {"lock", "pool", "closing", "socks", "conns"}
        BY <2>4 DEF StopLock, StopPool, StopSocks, StopConns, Parts, StopAt
      <3>2. stop'.proc = stop.proc /\ stop'.calm = stop.calm
        BY <2>4, StopGoes
      <3>3. QED BY <3>1, <3>2, VPNLeft
    <2>5. CASE StopEnd
      <3>1. UNCHANGED <<vpn, runs>> /\ stop.pc = "final" /\ stop.proc = NoProc
        BY <2>5 DEF StopEnd, Parts, StopAt, HalvesHeld
      <3>2. stop'.calm = FALSE
        BY <2>5, StopGoes
      <3>3. QED BY <3>1, <3>2, VPNLeft
    <2>6. QED BY <1>4, <2>1, <2>2, <2>3, <2>4, <2>5 DEF StopStep
  <1>5. ASSUME NEW r \in Runs, RunStep(r) \/ AttemptFails(r) PROVE VPNHeld'
    <2>1. CASE StartVPN(r)
      BY <2>1, StartVPNKeeps
    <2>2. CASE ~StartVPN(r)
      <3>1. UNCHANGED <<vpn, stop>>
        BY <1>5, <2>2, RunFrame
      <3>2. Others(r) /\ runs[r].pc \notin VPNPCs /\ runs'[r].pc \notin VPNPCs
        BY <1>5, <2>2, RunPlaces
      <3>3. QED BY <3>1, <3>2, VPNLeft DEF Others
    <2>3. QED BY <2>1, <2>2
  <1>6. ASSUME NEW r \in Runs, ParStep(r) PROVE VPNHeld'
    BY <1>6, ParFrame, VPNLeft
  <1>7. CASE Outside
    <2>1. UNCHANGED <<runs, stop>>
      BY <1>7, OutsideKeeps
    <2>2. ASSUME NEW p \in Procs, Die(p) \/ Monitor(p) PROVE VPNHeld'
      BY <2>1, <2>2, MonitorKeeps DEF Die, Monitor
    <2>3. CASE ~\E p \in Procs : Die(p) \/ Monitor(p)
      <3>1. UNCHANGED vpn
        BY <1>7, <2>3 DEF Outside, CloseClient, Connect, LocalStep, ServerStep, vars
      <3>2. QED BY <2>1, <3>1, VPNLeft
    <2>4. QED BY <2>2, <2>3
  <1>8. QED BY <1>1, <1>2, <1>3, <1>4, <1>5, <1>6, <1>7, StepCases

(***************************************************************************)
(* A Stop that nothing overlaps leaves no listener, no client, no          *)
(* forwarder, no proxy but one the registry refused to clear, and no       *)
(* routes and no process but those that a monitor goroutine put out of its *)
(* reach before, whatever races, failures and Stops came earlier.          *)
(***************************************************************************)
THEOREM CalmStopUndoesAll == Spec => []CalmStopCleans
PROOF
  <1> DEFINE Held == Typed /\ LockHeld /\ SoleHeld /\ QuietHeld /\ HalvesHeld /\ CleanHeld /\ VPNHeld
  <1>1. Init => Held
    <2> SUFFICES ASSUME Init PROVE QuietHeld /\ HalvesHeld /\ CleanHeld /\ VPNHeld /\ LockHeld /\ SoleHeld /\ Typed
      OBVIOUS
    <2>1. QuietHeld /\ HalvesHeld /\ CleanHeld
      BY DEF Init, QuietHeld, HalvesHeld, CleanHeld, NoStop, NoRun, Cleared
    <2>2. VPNHeld
      BY DEF Init, VPNInit, VPNHeld, StartsAlone, ProcsNamed, RoutesOwned, VPNDown, At, NoRun, NoStop, VPNPCs
    <2>3. LockHeld
      BY DEF Init, LockHeld, NoRun, NoStop
    <2>4. SoleHeld
      BY DEF Init, SocksInit, SoleHeld, SoleListener, NoStop
    <2>5. Typed
      BY TypedAtFirst
    <2>6. QED BY <2>1, <2>2, <2>3, <2>4, <2>5
  <1>2. Held /\ [Next]_vars => Held'
    BY TypedNext, LockKept, SoleKept, QuietKept, HalvesKept, CleanKept, VPNKept
  <1>3. Held => CalmStopCleans
    <2> SUFFICES ASSUME Held, stop.pc = "final", stop.calm
                 PROVE  /\ server = None /\ \A s \in Servers : servers[s] # "open"
                        /\ Current = {} /\ ~dns.open /\ (proxy.set => proxy.left)
                        /\ routes => "routes" \in stray
                        /\ \A p \in Procs : procs[p] = "running" => "process" \in stray
      BY DEF CalmStopCleans, StopAt
    <2>1. \A r \in Runs : At(r, "free") /\ runs[r].proc = NoProc
      BY DEF QuietHeld, HalvesHeld, At
    <2>2. stop.proc = NoProc /\ ~vpnActive /\ cmd = NoProc
      BY DEF HalvesHeld, VPNHeld, VPNDown
    <2>3. server = None /\ Current = {} /\ ~dns.open /\ (proxy.set => proxy.left)
      BY DEF CleanHeld
    <2>4. \A s \in Servers : servers[s] # "open"
      BY <2>3, Parameters DEF SoleHeld, SoleListener
    <2>5. routes => "routes" \in stray
      BY <2>1, <2>2 DEF VPNHeld, RoutesOwned, At
    <2>6. \A p \in Procs : procs[p] = "running" => "process" \in stray
      BY <2>1, <2>2, Parameters DEF VPNHeld, ProcsNamed
    <2>7. QED BY <2>3, <2>4, <2>5, <2>6
  <1>4. QED BY <1>1, <1>2, <1>3, PTL DEF Spec
=============================================================================
