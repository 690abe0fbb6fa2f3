------------------------------ MODULE Sockets ------------------------------
(***************************************************************************)
(* The names the registry and the boatyard of the venue share: the sockets *)
(* that come and go, and the boats they ask for.  A socket's admission, its *)
(* connection and its passenger carry the same name here, the socket's;    *)
(* the code numbers each and never reuses a number.                        *)
(***************************************************************************)
EXTENDS Integers, FiniteSets

CONSTANTS
  Conn,       \* sockets, each of which dials once
  NoConn,     \* "no admission pending", "no placement", "no boat"
  Key,        \* boat keys: a river, a speed and a placement
  River(_)    \* the river of a boat key

ASSUME SocketsAssumption == NoConn \notin Conn
============================================================================
