------------------------------ MODULE MCDaemon ------------------------------
EXTENDS Daemon
CONSTANT n1
MCByHand == <<n1>>
=============================================================================
