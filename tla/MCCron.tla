------------------------------ MODULE MCCron --------------------------------
(* TLC instances of Cron: jobs of every minute and of every other minute.    *)
EXTENDS Cron, TLC

CONSTANTS main, spare,   \* daemons
          sweep, digest  \* jobs

OneDaemon  == {main}
TwoDaemons == {main, spare}
TwoJobs    == {sweep, digest}
OneJob     == {sweep}

ThreeMinutes == 3

EveryMinute   == sweep :> 1 .. ThreeMinutes
EveryAndOther == EveryMinute @@ digest :> {1, 3}
=============================================================================
