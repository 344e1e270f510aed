----------------------------- MODULE BoundedLog -----------------------------
(***************************************************************************)
(* What DecisionLog promises (cli/internal/proxy/decision.go): the newest  *)
(* Size decisions of this process, newest first.                           *)
(***************************************************************************)
EXTENDS Naturals, Sequences

CONSTANTS
  Entry,   \* the entries that can be recorded
  Size     \* capacity

VARIABLE log

BoundedTypeOK == log \in Seq(Entry) /\ Len(log) <= Size

LogInit == log = << >>

\* The new entry comes first; the oldest is dropped when the log is full.
Push(e) ==
  log' = [i \in 1 .. IF Len(log) < Size THEN Len(log) + 1 ELSE Size |->
            IF i = 1 THEN e ELSE log[i - 1]]

\* A new process starts with an empty log.
Clear == log' = << >>

LogNext == Clear \/ \E e \in Entry : Push(e)

LogSpec == LogInit /\ [][LogNext]_log
=============================================================================
