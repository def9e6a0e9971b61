---------------------------- MODULE MCLedgerLog ----------------------------
(* Small instances of LedgerLog for TLC.                                   *)
EXTENDS LedgerLog

\* Every place an I/O call may fail but the sync after a compaction's switch.
OtherFaults == FaultPoints \ {"switched"}
HealthyOnly == {"healthy"}
=============================================================================
