------------------------------ MODULE MCStartup ------------------------------
(* Startup with two forwarded signals, the first of them ignored by the    *)
(* caller as under nohup, and the exit codes 0, 1 and 3.                   *)
EXTENDS Startup

MCIgnored == {1}
MCExitCodes == {0, 1, 3}
===============================================================================
