------------------------------ MODULE SSHPool ------------------------------
(***************************************************************************)
(* pkg/tunnel/ssh.go: SSH clients and the pool that hands them out. Dial   *)
(* holds a client's mutex for reading until the server has answered, and   *)
(* Close needs it for writing; the pool holds its own mutex while it       *)
(* closes its clients one after the other. There are two kinds of pool:    *)
(* the manager's current one, and those it has replaced.                   *)
(***************************************************************************)
EXTENDS Integers, FiniteSets

CONSTANTS
  Clients,  \* ids of SSH clients and of the streams they are made from
  None      \* no client, server, run or owner

ASSUME ClientsAssumption == None \notin Clients

VARIABLES
  clients,    \* "unused", a "stream" before its handshake, "open", "closing"
  pool,       \* the pool a client is in: "none", "current", "old"
  poolOwner   \* who is in Close of the current pool

ssh == <<clients, pool, poolOwner>>
-----------------------------------------------------------------------------
Current == {c \in Clients : pool[c] = "current"}
Unused == {c \in Clients : clients[c] = "unused"}
Any(ids) == CHOOSE id \in ids : TRUE
Stream == Any(Unused)
PoolFree == poolOwner = None

\* DialPayload has connected and the answer is one it expects. On an error it
\* has closed the connection itself.
DialPayload ==
  /\ Unused # {}
  /\ clients' = [clients EXCEPT ![Stream] = "stream"]
  /\ UNCHANGED <<pool, poolOwner>>

\* ConnectSSH: the handshake succeeds, or the stream is closed.
ConnectSSH(c, ok) ==
  /\ clients' = [clients EXCEPT ![c] = IF ok THEN "open" ELSE "unused"]
  /\ UNCHANGED <<pool, poolOwner>>

\* Add does not ask whether the pool has been closed.
Add(c, p) ==
  /\ p = "current" => PoolFree
  /\ pool' = [pool EXCEPT ![c] = p]
  /\ UNCHANGED <<clients, poolOwner>>

\* Get picks among the clients that are not closed. (In turn; any will do.)
Got == {c \in Current : clients[c] = "open"}

\* SSHPool.Close takes the mutex; a client at a time is marked closed, loses
\* its connection once nobody dials through it, and leaves the pool.
BeginClose(owner) ==
  /\ PoolFree
  /\ poolOwner' = owner
  /\ UNCHANGED <<clients, pool>>

MarkClosed(c) ==
  /\ c \in Current /\ clients[c] = "open"
  /\ \A d \in Current : clients[d] # "closing"
  /\ clients' = [clients EXCEPT ![c] = "closing"]
  /\ UNCHANGED <<pool, poolOwner>>

\* Dial holds the client's mutex for reading.
Idle(c, dialling) == c \notin dialling

FinishClose(c, dialling) ==
  /\ clients[c] = "closing" /\ Idle(c, dialling)
  /\ clients' = [clients EXCEPT ![c] = "unused"]
  /\ pool' = [pool EXCEPT ![c] = "none"]
  /\ UNCHANGED poolOwner

\* What EndClose requires: the loop has been through all clients.
AllClosed_BUG == TRUE
AllClosed == Current = {}

EndClose(owner) ==
  /\ poolOwner = owner /\ AllClosed
  /\ poolOwner' = None
  /\ UNCHANGED <<clients, pool>>

\* tm.sshPool = NewSSHPool(), with its first client.
NewSSHPool(c) ==
  /\ pool' = [d \in Clients |-> IF d = c THEN "current"
                                ELSE IF d \in Current THEN "old" ELSE pool[d]]
  /\ UNCHANGED <<clients, poolOwner>>

PoolInit ==
  /\ clients = [c \in Clients |-> "unused"] /\ pool = [c \in Clients |-> "none"]
  /\ poolOwner = None
=============================================================================
