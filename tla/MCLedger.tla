------------------------------ MODULE MCLedger ------------------------------
(* TLC instances of Ledger: two holders of one path.                         *)
EXTENDS Ledger, TLC

CONSTANTS cli, daemon, cron,  \* processes
          ana, bob,           \* holders
          readme              \* a path

ThreeProcs == {cli, daemon, cron}
TwoHolders == {ana, bob}
OnePath    == {readme}
=============================================================================
