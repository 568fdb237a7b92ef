------------------------------- MODULE MC_DbGateway -------------------------------
(***************************************************************************)
(* An instance of DbGateway for TLC: two threads of the daemon and one of  *)
(* the audit engine.                                                       *)
(***************************************************************************)
EXTENDS DbGateway, TLC

CONSTANTS d1, d2, e1

MCThreads == {d1, d2, e1}
MCHome    == (d1 :> "daemon") @@ (d2 :> "daemon") @@ (e1 :> "engine")
===============================================================================
