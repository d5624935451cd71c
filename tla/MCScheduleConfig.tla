-------------------------- MODULE MCScheduleConfig --------------------------
(* Two of the five jobs: one seeded with an interval, one with a cron hour. *)
EXTENDS ScheduleConfig

CONSTANTS esi, everef

MCSeed == [j \in ScheduledJobs |->
    IF j = esi
    THEN [trigger |-> "interval", minutes |-> 10, hour |-> Unset, enabled |-> TRUE, stamp |-> 0]
    ELSE [trigger |-> "cron", minutes |-> Unset, hour |-> 8, enabled |-> TRUE, stamp |-> 0]]

MCFallback == [j \in ScheduledJobs |-> IF j = esi THEN [kind |-> "interval", at |-> 10]
                                       ELSE [kind |-> "cron", at |-> 8]]

\* Complete requests of the schedule panel, and single fields as the API takes them.
PanelUpdates ==
    {[trigger |-> "interval", minutes |-> 30, hour |-> Unset, enabled |-> TRUE],
     [trigger |-> "cron", minutes |-> Unset, hour |-> 9, enabled |-> TRUE],
     [trigger |-> Unset, minutes |-> Unset, hour |-> Unset, enabled |-> FALSE],
     [trigger |-> Unset, minutes |-> 30, hour |-> Unset, enabled |-> Unset]}
=============================================================================
