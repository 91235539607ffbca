---------------------------- MODULE SocksServer ----------------------------
(***************************************************************************)
(* pkg/tunnel/socks5.go: the accept loop, one goroutine per connection     *)
(* with its two pipes, and Close. connsMu protects the closed flag's check *)
(* and the map of connections together.                                    *)
(***************************************************************************)
EXTENDS SSHPool

CONSTANTS
  Servers,  \* ids of servers
  Conns     \* ids of local connections

ASSUME ServersAssumption == None \notin Servers

VARIABLES
  servers,  \* "unused", "open", "closed" (flag and listener), "drained" (connections too)
  conns     \* the connections

socks == <<servers, conns>>
-----------------------------------------------------------------------------
\* A connection: where its goroutine is, its server, whether its local socket
\* is open, whether the map holds it, its client, and its two pipes.
NoConn == [pc |-> "free", server |-> None, local |-> FALSE, mapped |-> FALSE,
           client |-> None, up |-> FALSE, down |-> FALSE]
ConnAt(k, pc) == conns[k].pc = pc
ConnPCs == {"free", "accepted", "handshake", "got", "dialling", "piping", "ending"}

Dialling == {conns[k].client : k \in {j \in Conns : ConnAt(j, "dialling")}}

\* Ids for a new server: nobody refers to them any more.
Unheard(s) == \A k \in Conns : conns[k].server # s
Fresh == {s \in Servers : servers[s] = "unused" \/ (servers[s] = "drained" /\ Unheard(s))}

NewSocksServer ==
  /\ Fresh # {}
  /\ servers' = [servers EXCEPT ![Any(Fresh)] = "open"]
  /\ UNCHANGED conns

\* Close, first half: the flag, and the listener.
CloseListener(s) ==
  /\ servers' = [servers EXCEPT ![s] = "closed"]
  /\ UNCHANGED conns

\* Close, second half: under connsMu every connection in the map is closed.
Drained_BUG(k, s) == conns[k].server = s /\ conns[k].client # None
Drained(k, s) == conns[k].server = s /\ conns[k].mapped

CloseConns(s) ==
  /\ servers' = [servers EXCEPT ![s] = "drained"]
  /\ conns' = [k \in Conns |-> IF Drained(k, s) THEN [conns[k] EXCEPT !.local = FALSE, !.mapped = FALSE]
                               ELSE conns[k]]

-----------------------------------------------------------------------------
Accept(k, s) ==
  /\ servers[s] = "open" /\ ConnAt(k, "free")
  /\ conns' = [conns EXCEPT ![k] = [NoConn EXCEPT !.pc = "accepted", !.server = s, !.local = TRUE]]
  /\ UNCHANGED <<servers, ssh>>

\* The accept loop looks at the flag again with connsMu held.
Refused_BUG(k) == FALSE
Refused(k) == servers[conns[k].server] # "open"

Register(k) ==
  /\ ConnAt(k, "accepted")
  /\ conns' = [conns EXCEPT ![k] = IF Refused(k) THEN NoConn
                                   ELSE [conns[k] EXCEPT !.pc = "handshake", !.mapped = TRUE]]
  /\ UNCHANGED <<servers, ssh>>

\* handleConnection returns.
Fails(k) == conns' = [conns EXCEPT ![k].pc = "ending", ![k].client = None]

\* A malformed or unsupported request, the ten second deadline, or a local
\* socket that is gone.
HandshakeFails(k) ==
  /\ ConnAt(k, "handshake")
  /\ Fails(k)
  /\ UNCHANGED <<servers, ssh>>

\* The request is understood and a client is asked for.
GetClient(k) ==
  /\ ConnAt(k, "handshake") /\ conns[k].local /\ PoolFree
  /\ IF Got = {} THEN Fails(k)
     ELSE \E c \in Got : conns' = [conns EXCEPT ![k].pc = "got", ![k].client = c]
  /\ UNCHANGED <<servers, ssh>>

\* SSHClient.Dial: a closed client refuses.
Dial(k) ==
  /\ ConnAt(k, "got")
  /\ IF conns[k].client # None /\ clients[conns[k].client] = "open"
     THEN conns' = [conns EXCEPT ![k].pc = "dialling"] ELSE Fails(k)
  /\ UNCHANGED <<servers, ssh>>

\* The answer, and the reply to the local side, which fails if it is gone.
DialReturns(k, ok) ==
  /\ ConnAt(k, "dialling")
  /\ IF ok /\ conns[k].local
     THEN conns' = [conns EXCEPT ![k].pc = "piping", ![k].up = TRUE, ![k].down = TRUE]
     ELSE Fails(k)
  /\ UNCHANGED <<servers, ssh>>

\* A pipe ends when its source does, and half-closes its target.
PipeEnds(k, pipe) ==
  /\ ConnAt(k, "piping") /\ conns[k][pipe]
  /\ conns' = [conns EXCEPT ![k][pipe] = FALSE]
  /\ UNCHANGED <<servers, ssh>>

\* It must end when its source is closed: the local socket for the pipe up, the
\* SSH client under the remote one for the pipe down.
PipeBreaks(k) ==
  \/ ~conns[k].local /\ PipeEnds(k, "up")
  \/ conns[k].client = None /\ PipeEnds(k, "down")

PipesDone(k) ==
  /\ ConnAt(k, "piping") /\ ~conns[k].up /\ ~conns[k].down
  /\ Fails(k)
  /\ UNCHANGED <<servers, ssh>>

\* The deferred calls close the socket and take it from the map.
Left_BUG(k) == [NoConn EXCEPT !.mapped = TRUE]
Left(k) == NoConn

Leave(k) ==
  /\ ConnAt(k, "ending")
  /\ conns' = [conns EXCEPT ![k] = Left(k)]
  /\ UNCHANGED <<servers, ssh>>

\* The connections that ran over a client lose it.
Severed(c) == [k \in Conns |-> IF conns[k].client = c THEN [conns[k] EXCEPT !.client = None] ELSE conns[k]]

ConnStep(k) == Register(k) \/ HandshakeFails(k) \/ GetClient(k) \/ Dial(k) \/ DialReturns(k, FALSE) \/ PipeBreaks(k)
               \/ PipesDone(k) \/ Leave(k)

SocksInit == servers = [s \in Servers |-> "unused"] /\ conns = [k \in Conns |-> NoConn]
=============================================================================
