----------------------------- MODULE DurableLog -----------------------------
(***************************************************************************)
(* What the accounting ledger promises its callers, whatever happens to    *)
(* the files underneath: a sequence of records that only grows while the   *)
(* process runs, and of which a crash may take back only what no caller    *)
(* was told is durable.  Rolling, sealing and compressing generations, and *)
(* repairing an interrupted roll, must be invisible here.                  *)
(***************************************************************************)
EXTENDS Naturals, Sequences

CONSTANT Record \* the records a caller may append

VARIABLES
    log,   \* the records a replay would visit
    acked  \* how many of them a caller, or a finished open, relies on

vars == <<log, acked>>

TypeOK ==
    /\ log \in Seq(Record)
    /\ acked \in 0..Len(log)

Init ==
    /\ log = <<>>
    /\ acked = 0

\* The log goes on with further records.
Grows ==
    /\ log' \in Seq(Record)
    /\ Len(log') >= Len(log)
    /\ SubSeq(log', 1, Len(log)) = log

\* A batch passes the fsync barrier and its callers are told so.
Commit ==
    /\ acked = Len(log)
    /\ Grows
    /\ acked' = Len(log')

\* A batch fails with some of its records in the file: nobody is told.
Strand ==
    /\ Grows
    /\ UNCHANGED acked

\* A crash takes back a suffix that nobody relies on.
Lose(n) ==
    /\ n \in acked..Len(log)
    /\ log' = SubSeq(log, 1, n)
    /\ UNCHANGED acked

\* An open keeps what it found: it is history from now on.
Keep ==
    /\ acked' = Len(log)
    /\ UNCHANGED log

Next ==
    \/ Commit
    \/ Strand
    \/ \E n \in acked..Len(log) : Lose(n)
    \/ Keep

Spec == Init /\ [][Next]_vars
=============================================================================
