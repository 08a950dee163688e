------------------------------ MODULE Watchers ------------------------------
(***************************************************************************)
(* The programs that watch, side by side: scripts/peer_watch.py,           *)
(* release_watch.py, unit_alert.py and reorg_watch.py on every host, the   *)
(* panel of ops/ops.py, the way of an alarm to a telephone, wamnotify.py   *)
(* and login_watch.py, and what somebody runs, check_consensus_floor.py,   *)
(* check_backups.py, check_headroom.py, check_concentration.py,            *)
(* check_pool.py and daily_report.py.  They share no state: each keeps its *)
(* own files and asks its own questions, and none waits for another.       *)
(***************************************************************************)
EXTENDS ReorgWatch, PeerWatch, ReleaseWatch, UnitAlert, OpsPanel, FloorWatch,
        MorningReport, Alarms, HostChecks, PoolMonitor

\* All of them, each started by its own timer and at its own pace.
WatchersSpec ==
  /\ PeerSpec /\ ReleaseSpec /\ UnitSpec /\ ReorgSpec
  /\ OpsSpec /\ FloorSpec /\ ReportSpec /\ AlarmSpec /\ HostSpec /\ MonitorSpec

-----------------------------------------------------------------------------
\* peer_watch.py, release_watch.py and unit_alert.py: what is told is of something that
\* lasted, what is withheld was told before, and a failure is only counted where its
\* unit was to be heard of within the hour.
AlarmsAreEarned == AlarmIsEarned /\ SilenceIsInformed /\ QuietIsBounded

\* ops.py, check_consensus_floor.py and daily_report.py: what is shown is of an answer
\* that was given, those who follow the floor follow the newest release, and what lasted
\* is in the report or is said not to have been read.
VerdictsAreEarned == PanelIsHonest /\ FollowersAgree /\ MorningIsHonest

\* wamnotify.py and login_watch.py: nobody is told of one thing again but after what was
\* sent was not remembered.
\* check_backups.py, check_headroom.py, check_concentration.py and check_pool.py: green
\* is of something that was looked at and was well, and red of something that was
\* wrong, while what is looked at goes on changing.
ChecksAreFair == RepeatsAreLapses /\ VerdictIsEarned /\ MonitorIsFair
=============================================================================
