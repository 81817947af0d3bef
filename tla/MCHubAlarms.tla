---------------------------- MODULE MCHubAlarms ----------------------------
\* MCHubAlarms.cfg: three alarms in a store of two, a hold time of two frames, a
\* status report with every frame, and a page whose queue holds one event: the
\* third alarm evicts the first, and notifications and results are dropped.
\* MCHubAlarmsSettle.cfg, for the liveness: two alarms in a store of one, and a
\* report with every second frame.
EXTENDS HubAlarms
=============================================================================
