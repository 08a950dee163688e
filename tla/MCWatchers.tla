----------------------------- MODULE MCWatchers -----------------------------
(***************************************************************************)
(* The programs that watch: alarms and their way to a telephone, the       *)
(* watchers on each host, and the checks somebody runs.  They share        *)
(* nothing: a behaviour exercises one of them, and the variables of the    *)
(* others stay as they are.                                                *)
(***************************************************************************)
EXTENDS Watchers

VARIABLE machine   \* the one this behaviour exercises

TwoHosts == <<"h1", "h2">>
OneCheck == <<"c1">>

\* The second release's bip94 is exempt.
SecondIsExempt == [t \in {2} |-> {"bip94"}]
RuleValues == [rule |-> {0, 1}, bip94 |-> {9, 0, 1}, minwork |-> {9, 1}]

TwoMachines == <<"fr", "sg">>
OneAudit == <<"audit">>

TwoPorts == <<3333, 3334>>

-----------------------------------------------------------------------------
\* Those with variables of their own start as they do, whichever is exercised.
MCInit ==
  /\ machine \in {"Reorg", "Peer", "Release", "Unit", "Ops", "Floor", "Morning", "Alarm",
                 "Host", "Monitor"}
  /\ ReorgInit /\ PeerInit /\ ReleaseInit /\ UnitInit /\ OpsInit /\ FloorInit /\ ReportInit
  /\ AlarmInit /\ HostInit /\ MonitorInit
  /\ (machine # "Reorg" => branchAt = [h \in {0} |-> 0])
  /\ (machine # "Host" => samples = [h \in CheckedHosts |-> <<>>])

\* The variables of the others stay as they are.
Still(m) ==
  /\ UNCHANGED machine
  /\ (m # "Reorg" => UNCHANGED reorgVars)
  /\ (m # "Peer" => UNCHANGED peerVars)
  /\ (m # "Release" => UNCHANGED releaseVars)
  /\ (m # "Unit" => UNCHANGED unitVars)
  /\ (m # "Ops" => UNCHANGED opsVars)
  /\ (m # "Floor" => UNCHANGED floorVars)
  /\ (m # "Morning" => UNCHANGED reportVars)
  /\ (m # "Alarm" => UNCHANGED alarmVars)
  /\ (m # "Host" => UNCHANGED hostVars)
  /\ (m # "Monitor" => UNCHANGED monitorVars)

ReorgStep == machine = "Reorg" /\ ReorgNext /\ Still("Reorg")
PeerStep == machine = "Peer" /\ PeerNext /\ Still("Peer")
ReleaseStep == machine = "Release" /\ ReleaseNext /\ Still("Release")
UnitStep == machine = "Unit" /\ UnitNext /\ Still("Unit")
OpsStep == machine = "Ops" /\ OpsNext /\ Still("Ops")
FloorStep == machine = "Floor" /\ FloorNext /\ Still("Floor")
MorningStep == machine = "Morning" /\ ReportNext /\ Still("Morning")
AlarmStep == machine = "Alarm" /\ AlarmNext /\ Still("Alarm")
HostStep == machine = "Host" /\ HostNext /\ Still("Host")
MonitorStep == machine = "Monitor" /\ MonitorNext /\ Still("Monitor")

MCNext == \/ ReorgStep \/ PeerStep \/ ReleaseStep \/ UnitStep \/ OpsStep \/ FloorStep
          \/ MorningStep \/ AlarmStep \/ HostStep \/ MonitorStep

MCSpec == MCInit /\ [][MCNext]_<<machine, reorgVars, peerVars, releaseVars, unitVars,
                              opsVars, floorVars, reportVars, alarmVars, hostVars,
                              monitorVars>>
=============================================================================
