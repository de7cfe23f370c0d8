------------------------------- MODULE Daemon -------------------------------
(***************************************************************************)
(* Daemons starting, running and dying, with the rate control of the one   *)
(* that runs: dht_init fills its bucket anew in every process.             *)
(***************************************************************************)
EXTENDS DaemonStart, RateLimit

daemonVars == <<startVars, rateVars>>

Runs == \E d \in Daemon : pc[d] = "run"
Comes == \E d \in Daemon : pc[d] # "run" /\ pc'[d] = "run"

NewBucket ==
    /\ tokens' = MAX_TOKENS /\ filledAt' = clock
    /\ since' = clock /\ served' = 0
    /\ UNCHANGED clock

DaemonInit == StartInit /\ RateInit
DaemonNext ==
    \/ StartNext /\ IF Comes THEN NewBucket ELSE UNCHANGED rateVars
    \/ Runs /\ (Request \/ WindowOpens) /\ UNCHANGED startVars
    \/ Second /\ UNCHANGED startVars

DaemonSpec == DaemonInit /\ [][DaemonNext]_daemonVars
FairDaemonSpec ==
    /\ DaemonSpec
    /\ \A d \in Daemon : WF_daemonVars((Pass(d) \/ Dump(d)) /\ UNCHANGED rateVars)
=============================================================================
