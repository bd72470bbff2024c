----------------------------- MODULE Attendance -----------------------------
(***************************************************************************)
(* Employees and their shifts (apps/api/src/modules/employees): clocking   *)
(* in and out by the manager or by PIN, while employees are edited and     *)
(* removed.                                                                *)
(*                                                                         *)
(* A clock-in looks for an open shift, awaits, and inserts one; no key of  *)
(* the table and no lock stands between the two.  A clock-out writes the   *)
(* row it has read.  Shifts read together are told apart by the time they  *)
(* began, which requests that overlap may write in either order: "the      *)
(* latest open shift" is any open one.                                     *)
(*                                                                         *)
(* Stores, hours worked, notes and the creation of employees are left out, *)
(* and PINs: a request by PIN has found its employee.                      *)
(***************************************************************************)
EXTENDS Integers, FiniteSets

CONSTANTS
    Employee,
    NoEmployee,
    Shift,         \* rows of table employee_attendance
    NoShift,
    Job            \* slots for concurrently running handlers

ASSUME AttendanceAssumption ==
    /\ NoEmployee \notin Employee
    /\ NoShift \notin Shift
    /\ IsFiniteSet(Shift)
    /\ IsFiniteSet(Job)

VARIABLES
    employees,     \* table employees
    shifts,        \* table employee_attendance
    job,           \* where each running handler is and what it has read
    overlapped     \* history: employees two clock-ins of whom overlapped

vars == <<employees, shifts, job, overlapped>>

----------------------------------------------------------------------------
EmployeeRow == [active: BOOLEAN, deleted: BOOLEAN]

NewEmployee == [active |-> TRUE, deleted |-> FALSE]

ShiftRow == [employee: Employee \cup {NoEmployee},
             status: {"none", "open", "closed"}]

NoShiftRow == [employee |-> NoEmployee, status |-> "none"]

PC == {"idle", "inCheck", "outFind", "enter", "leave", "editSave"}

JobRow == [pc: PC, employee: Employee \cup {NoEmployee},
           shift: Shift \cup {NoShift},   \* the open shift it has read
           active: BOOLEAN]               \* flag of the request

IdleJob == [pc |-> "idle", employee |-> NoEmployee, shift |-> NoShift,
            active |-> TRUE]

TypeOK ==
    /\ employees \in [Employee -> EmployeeRow]
    /\ shifts \in [Shift -> ShiftRow]
    /\ job \in [Job -> JobRow]
    /\ overlapped \in SUBSET Employee

Init ==
    /\ employees = [e \in Employee |-> NewEmployee]
    /\ shifts = [s \in Shift |-> NoShiftRow]
    /\ job = [j \in Job |-> IdleJob]
    /\ overlapped = {}

----------------------------------------------------------------------------
Open(e) == {s \in Shift : shifts[s] = [employee |-> e, status |-> "open"]}

(* Clock-ins that have passed the check and not yet inserted.              *)
Entering(e) == {j \in Job : job[j].pc = "enter" /\ job[j].employee = e}

Free(j) == job[j].pc = "idle"

Listed(e) == ~ employees[e].deleted

Goto(j, pc, e, s, active) ==
    job' = [job EXCEPT ![j] = [pc |-> pc, employee |-> e, shift |-> s,
                               active |-> active]]

Done(j) == job' = [job EXCEPT ![j] = IdleJob]

(* An insert: the row is new.                                              *)
Begin(e) == \E s \in Shift :
    /\ shifts[s].status = "none"
    /\ shifts' = [shifts EXCEPT ![s] = [employee |-> e, status |-> "open"]]

----------------------------------------------------------------------------
(* Clocking in and out *)

ClockInRead(j, e) ==
    /\ Free(j)
    /\ Listed(e) /\ employees[e].active
    /\ Goto(j, "inCheck", e, NoShift, TRUE)
    /\ UNCHANGED <<employees, shifts, overlapped>>

Overlap(e) == overlapped' = IF Entering(e) = {} THEN overlapped
                            ELSE overlapped \cup {e}

(* Mutant of ClockInCheck: the clock-in goes on whatever shift is open.    *)
ClockInCheckNothing(j) ==
    LET e == job[j].employee
    IN /\ job[j].pc = "inCheck"
       /\ Goto(j, "enter", e, NoShift, TRUE)
       /\ Overlap(e)
       /\ UNCHANGED <<employees, shifts>>

ClockInCheck(j) ==
    LET e == job[j].employee
    IN /\ job[j].pc = "inCheck"
       /\ Open(e) = {}
       /\ Goto(j, "enter", e, NoShift, TRUE)
       /\ Overlap(e)
       /\ UNCHANGED <<employees, shifts>>

ClockInSave(j) ==
    /\ job[j].pc = "enter"
    /\ Begin(job[j].employee)
    /\ Done(j)
    /\ UNCHANGED <<employees, overlapped>>

(* An employee who is no longer active may still clock out.                *)
ClockOutRead(j, e) ==
    /\ Free(j)
    /\ Listed(e)
    /\ Goto(j, "outFind", e, NoShift, TRUE)
    /\ UNCHANGED <<employees, shifts, overlapped>>

ClockOutFind(j) ==
    LET e == job[j].employee
    IN /\ job[j].pc = "outFind"
       /\ \E s \in Open(e) : Goto(j, "leave", e, s, TRUE)
       /\ UNCHANGED <<employees, shifts, overlapped>>

(* A shift that was closed in between is closed once more.                 *)
ClockOutSave(j) ==
    /\ job[j].pc = "leave"
    /\ shifts' = [shifts EXCEPT ![job[j].shift].status = "closed"]
    /\ Done(j)
    /\ UNCHANGED <<employees, overlapped>>

(* A request by PIN takes the employee, active whichever way it goes, and  *)
(* then does what the shift it finds, or the action asked for, calls for.  *)
SelfClockRead(j, e) ==
    /\ Listed(e) /\ employees[e].active
    /\ ClockInRead(j, e) \/ ClockOutRead(j, e)

(* Refused by a check, or stopped by an error of the database.             *)
Abort(j) ==
    /\ ~ Free(j)
    /\ Done(j)
    /\ UNCHANGED <<employees, shifts, overlapped>>

----------------------------------------------------------------------------
(* Editing and removing *)

EditRead(j, e, active) ==
    /\ Free(j)
    /\ Listed(e)
    /\ Goto(j, "editSave", e, NoShift, active)
    /\ UNCHANGED <<employees, shifts, overlapped>>

(* The whole row is saved: an employee removed in between is back.         *)
EditSave(j) ==
    /\ job[j].pc = "editSave"
    /\ employees' = [employees EXCEPT ![job[j].employee] =
                        [active |-> job[j].active, deleted |-> FALSE]]
    /\ Done(j)
    /\ UNCHANGED <<shifts, overlapped>>

Remove(e) ==
    /\ Listed(e)
    /\ employees' = [employees EXCEPT ![e].deleted = TRUE]
    /\ UNCHANGED <<shifts, job, overlapped>>

----------------------------------------------------------------------------
Request ==
    \/ \E j \in Job, e \in Employee :
          \/ ClockInRead(j, e)
          \/ ClockOutRead(j, e)
          \/ SelfClockRead(j, e)
          \/ \E active \in BOOLEAN : EditRead(j, e, active)
    \/ \E e \in Employee : Remove(e)

Step(j) ==
    \/ ClockInCheck(j)
    \/ ClockInSave(j)
    \/ ClockOutFind(j)
    \/ ClockOutSave(j)
    \/ EditSave(j)
    \/ Abort(j)

Next == Request \/ \E j \in Job : Step(j)

Spec == Init /\ [][Next]_vars

----------------------------------------------------------------------------
(* The check before a clock-in is worth this much: an employee has two     *)
(* shifts open only if two clock-ins of theirs have been between check and *)
(* insert at once, and never more than there are requests at a time,       *)
(* however clock-outs, edits and removals come in between.                 *)
Most(e) == IF e \in overlapped THEN Cardinality(Job) ELSE 1

OpenBounded == \A e \in Employee : Cardinality(Open(e)) <= Most(e)

(* What makes it inductive: a clock-in that has passed the check counts as *)
(* a shift already.                                                        *)
EnteringBounded == \A e \in Employee :
    Cardinality(Open(e)) + Cardinality(Entering(e)) <= Most(e)

Held == \A j \in Job :
    LET h == job[j]
    IN /\ ~ Free(j) => h.employee \in Employee
       /\ h.pc = "leave" => h.shift \in Shift

AttendanceInv == TypeOK /\ Held /\ EnteringBounded /\ OpenBounded
=============================================================================
