------------------------------ MODULE LineLog ------------------------------
(***************************************************************************)
(* What a thread that logs may rely on.  Lines are begun one at a time,    *)
(* and each goes one of two ways: its thread writes it at once, or it is   *)
(* handed over and written later.  Lines handed over keep their order and  *)
(* are never more than Capacity + 1.  No line goes both ways.  Lines are   *)
(* given up once, when the log is closed, and then all but the oldest of   *)
(* those handed over may be.  Nothing is promised once lines were mixed.   *)
(***************************************************************************)
EXTENDS Naturals, Sequences

CONSTANT Capacity

VARIABLES begun,    \* number of lines begun
          current,  \* the line that is being logged, if any
          behind,   \* handed over and not yet written
          written,  \* the file
          closed,   \* the log was closed
          mixed     \* two lines were logged at the same time

Init ==
  /\ begun = 0 /\ current = <<>> /\ behind = <<>> /\ written = <<>>
  /\ closed = FALSE /\ mixed = FALSE

Begin ==
  /\ current = <<>>
  /\ begun' = begun + 1
  /\ current' = <<begun'>>
  /\ UNCHANGED <<behind, written, closed, mixed>>

HandOver ==
  /\ current # <<>>
  /\ Len(behind) <= Capacity
  /\ behind' = behind \o current
  /\ current' = <<>>
  /\ UNCHANGED <<begun, written, closed, mixed>>

WriteOwn ==
  /\ current # <<>>
  /\ written' = written \o current
  /\ current' = <<>>
  /\ UNCHANGED <<begun, behind, closed, mixed>>

WriteOldest ==
  /\ behind # <<>>
  /\ written' = Append(written, Head(behind))
  /\ behind' = Tail(behind)
  /\ UNCHANGED <<begun, current, closed, mixed>>

Close ==
  /\ ~closed /\ closed' = TRUE
  /\ \E n \in 0 .. 1 : n <= Len(behind) /\ behind' = SubSeq(behind, 1, n)
  /\ UNCHANGED <<begun, current, written, mixed>>

Mix == mixed' = TRUE

Next == Begin \/ HandOver \/ WriteOwn \/ WriteOldest \/ Close \/ Mix

Spec == Init /\ [][Next]_<<begun, current, behind, written, closed, mixed>>
=============================================================================
