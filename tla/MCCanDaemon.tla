------------------------------ MODULE MCCanDaemon ------------------------------
(* Small instances of CanDaemon for TLC. *)
EXTENDS CanDaemon, TLC

CONSTANTS controller, dashboard

MCClients == {controller, dashboard}
MCReconnecting == {dashboard}
===============================================================================
