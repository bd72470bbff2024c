---------------------------- MODULE MCAttendance ----------------------------
(* Instances of Attendance for TLC. *)
EXTENDS Attendance, TLC

\* Employees, shifts and job slots are interchangeable.
AttendanceSymmetry ==
    Permutations(Employee) \cup Permutations(Shift) \cup Permutations(Job)
=============================================================================
