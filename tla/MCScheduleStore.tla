-------------------------- MODULE MCScheduleStore --------------------------
(* Small instances of ScheduleStore for TLC.                               *)
EXTENDS ScheduleStore, TLC

Field(t, from, to) == [title |-> t, startAt |-> from, endAt |-> to]

\* One schedule with a reminder and no end.
MCSingle == {[fields |-> Field("a", 1, NoEnd), minutes |-> {10}, count |-> 0]}

\* A series of two occurrences.
MCSeries == {[fields |-> Field("a", 1, 2), minutes |-> {}, count |-> 2]}

MCCreates == MCSingle \cup MCSeries

\* The series, or one schedule without reminders.
MCBare == MCSeries \cup {[fields |-> Field("a", 1, NoEnd), minutes |-> {}, count |-> 0]}

\* A new title.
MCTitle == {[title |-> "b", startAt |-> Keep, endAt |-> Keep]}

\* A new title, a new start (which the end may forbid), and no end.
MCPatches == MCTitle \cup
    {[title |-> Keep, startAt |-> 2, endAt |-> Keep],
     [title |-> Keep, startAt |-> Keep, endAt |-> NoEnd]}

\* One key is as good as the other.
MCSymmetry == Permutations(Keys)

=============================================================================
