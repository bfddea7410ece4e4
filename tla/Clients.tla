------------------------------- MODULE Clients -------------------------------
(* The clients of the modules that look into a command handler, Lookup,    *)
(* JoinRace and MainLoop.  A client also stands for its reader goroutine,  *)
(* which runs the handlers of its commands.                                *)
CONSTANTS
  Client,     \* clients
  NoClient    \* a nil *Client

ASSUME ClientsAssumption == NoClient \notin Client
=============================================================================
