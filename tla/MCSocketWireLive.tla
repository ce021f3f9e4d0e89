-------------------------- MODULE MCSocketWireLive --------------------------
(***************************************************************************)
(* Instance of SocketWire for TLC's liveness checking.  The sockets buffer *)
(* one frame each way, so that two packages block their sender.  What the  *)
(* users do decides how many states there are, so that it is one of three: *)
(* those of the client put up to two packages whenever they like and one   *)
(* connection breaks; those of the client put one before there is a        *)
(* connection and either lifetime, or both, may be terminated; or those of *)
(* both ends put two before there is a connection, one connection breaks,  *)
(* and one lifetime may be terminated when the connection is clogged.      *)
(***************************************************************************)
EXTENDS SocketWire

VARIABLE users

MCEnds == {Client, Server}
MCPuts == [e \in MCEnds |-> 2]

UsersInit == WireInit /\ users \in {"late", "closing", "both"}

\* Users put what they have to put before there is a connection.
PutFirst(client, server) ==
  /\ puts'[Client] <= client /\ puts'[Server] <= server
  /\ puts' # puts => \A e \in MCEnds : conn[e] = "closed"
  /\ socket'[Client] > 0 => puts'[Client] = client /\ puts'[Server] = server

NoBreak == \A k \in Connections : ~Break(k)
AllAlive == \A e \in MCEnds : lifetime[e] = "alive"

\* One lifetime is terminated, from where all is clogged on the first connection, or on the
\* next by two ends that are both resending.
OneWhenClogged ==
  /\ \E e \in MCEnds : lifetime'[e] = "alive"
  /\ ~AllAlive => NoBreak
  /\ AllAlive => Clogged /\ (socket[Client] = 1 \/ \A e \in MCEnds : ~LockIsFree(e))

UsersNext ==
  /\ WireNext /\ UNCHANGED users
  /\ users = "late" => puts'[Server] = 0 /\ AllAlive'
  /\ users = "closing" => PutFirst(1, 0) /\ NoBreak
  /\ users = "both" => PutFirst(2, 2) /\ (AllAlive' \/ OneWhenClogged)

UsersSpec == UsersInit /\ [][UsersNext]_<<vars, users>> /\ WireFairness
=============================================================================
