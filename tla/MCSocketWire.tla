---------------------------- MODULE MCSocketWire ----------------------------
(***************************************************************************)
(* Instance of SocketWire for TLC, for three sorts of users: those of the  *)
(* client put up to three packages and one connection breaks, or two       *)
(* packages and, while none of them is early, two connections; those of    *)
(* the client put two, one connection breaks, and the lifetime of the      *)
(* client may be terminated; or the users of both ends put a package, and  *)
(* one connection breaks.                                                  *)
(***************************************************************************)
EXTENDS SocketWire

VARIABLE users

MCEnds == {Client, Server}
MCPuts == [e \in MCEnds |-> IF e = Client THEN 3 ELSE 1]

UsersInit == WireInit /\ users \in {"client", "closing", "both"}

Few == puts[Client] <= 2 /\ puts[Server] = 0
OneBreak == dead \subseteq {1}
NoEnd == lifetime[Client] = "alive"

UsersNext ==
  /\ WireNext /\ UNCHANGED users
  /\ users = "client" =>
       NoEnd' /\ puts'[Server] = 0 /\ (OneBreak' \/ (Few' /\ ~early'[Client]))
  /\ users = "closing" => Few' /\ OneBreak'
  /\ users = "both" => NoEnd' /\ puts'[Client] <= 1 /\ OneBreak'

UsersSpec == UsersInit /\ [][UsersNext]_<<vars, users>>
=============================================================================
