----------------------------- MODULE MCSchedule -----------------------------
(* Schedule for TLC. *)
EXTENDS ScheduleInv

CONSTANTS m0, m30, h0, h4, s300, s600

midnight == [minute |-> m0, hour |-> h0]
halfPast == [minute |-> m30, hour |-> h0]
fourAM == [minute |-> m0, hour |-> h4]

put(flag_, cron_) == [via |-> "PUT", flag |-> flag_, cron |-> cron_]
patch(flag_, cron_) == [via |-> "PATCH", flag |-> flag_, cron |-> cron_]

environments ==
    {[enabled |-> TRUE, cron |-> midnight, timeout |-> s300],
     [enabled |-> FALSE, cron |-> fourAM, timeout |-> s300],
     [enabled |-> FALSE, cron |-> fourAM, timeout |-> s600]}

asks ==
    {put(TRUE, Absent), put(FALSE, Absent), put(Absent, halfPast), put(Absent, Unparsable),
     patch(Null, Absent), patch(FALSE, fourAM), patch(Absent, fourAM), patch(TRUE, Empty)}
=============================================================================
