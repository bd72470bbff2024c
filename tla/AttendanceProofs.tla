-------------------------- MODULE AttendanceProofs --------------------------
(***************************************************************************)
(* Theorems about Attendance for every value of its constants.  The count  *)
(* of open shifts is bounded together with the clock-ins under way: a      *)
(* request joins them only when no shift is open, and then it is the only  *)
(* one, or they overlap and are as many as the requests at most; the       *)
(* insert turns one of them into a shift; every other step only takes      *)
(* away.                                                                   *)
(***************************************************************************)
EXTENDS Attendance, FiniteSetTheorems, TLAPS

\* Clock-ins under way are jobs, open shifts are shifts: both are finite.
LEMMA Counts ==
  ASSUME NEW e \in Employee
  PROVE  /\ IsFiniteSet(Open(e))
         /\ IsFiniteSet(Entering(e))
         /\ Cardinality(Open(e)) \in Nat
         /\ Cardinality(Entering(e)) \in Nat
         /\ Cardinality(Job) \in Nat
         /\ Cardinality(Entering(e)) <= Cardinality(Job)
<1>1. Open(e) \subseteq Shift /\ Entering(e) \subseteq Job
  BY DEF Open, Entering
<1>2. IsFiniteSet(Open(e)) /\ IsFiniteSet(Entering(e))
  BY <1>1, FS_Subset, AttendanceAssumption
<1>3. Cardinality(Entering(e)) <= Cardinality(Job)
  BY <1>1, FS_Subset, AttendanceAssumption
<1> QED
  BY <1>2, <1>3, FS_CardinalityType, AttendanceAssumption

\* The bound is a number, and when a request is there at least one.
LEMMA MostType ==
  ASSUME NEW e \in Employee
  PROVE  Most(e) \in Nat /\ Most(e) <= Cardinality(Job) + 1
  BY Counts DEF Most

LEMMA SomeJob ==
  ASSUME NEW j \in Job
  PROVE  1 <= Cardinality(Job)
<1>1. IsFiniteSet({j}) /\ Cardinality({j}) = 1
  BY FS_Singleton
<1>2. {j} \subseteq Job
  OBVIOUS
<1>3. Cardinality({j}) <= Cardinality(Job)
  BY <1>2, FS_Subset, AttendanceAssumption
<1> QED
  BY <1>1, <1>3

\* Fewer shifts open and fewer clock-ins under way keep the bound.
LEMMA FewerKeeps ==
  ASSUME TypeOK, TypeOK', EnteringBounded, UNCHANGED overlapped,
         \A e \in Employee : /\ Open(e)' \subseteq Open(e)
                             /\ Entering(e)' \subseteq Entering(e)
  PROVE  EnteringBounded'
<1> SUFFICES ASSUME NEW e \in Employee
             PROVE  Cardinality(Open(e)') + Cardinality(Entering(e)')
                      <= Most(e)
  BY DEF EnteringBounded, Most
<1>1. /\ Cardinality(Open(e)') <= Cardinality(Open(e))
      /\ Cardinality(Entering(e)') <= Cardinality(Entering(e))
      /\ IsFiniteSet(Open(e)')
      /\ IsFiniteSet(Entering(e)')
  BY FS_Subset, Counts
<1>2. Cardinality(Open(e)') \in Nat /\ Cardinality(Entering(e)') \in Nat
  BY <1>1, FS_CardinalityType
<1>3. Cardinality(Open(e)) + Cardinality(Entering(e)) <= Most(e)
  BY DEF EnteringBounded
<1> QED
  BY <1>1, <1>2, <1>3, Counts, MostType

\* The bound on both bounds the open shifts.
LEMMA BoundsOpen == EnteringBounded => OpenBounded
<1> SUFFICES ASSUME EnteringBounded, NEW e \in Employee
             PROVE  Cardinality(Open(e)) <= Most(e)
  BY DEF OpenBounded
<1>1. Cardinality(Open(e)) + Cardinality(Entering(e)) <= Most(e)
  BY DEF EnteringBounded
<1> QED
  BY <1>1, Counts, MostType

\* At first nothing is open and nobody is clocking in.
LEMMA InvInit == Init => AttendanceInv
<1> SUFFICES ASSUME Init PROVE AttendanceInv
  OBVIOUS
<1>1. TypeOK
  BY DEF Init, TypeOK, NewEmployee, EmployeeRow, NoShiftRow, ShiftRow,
         IdleJob, JobRow, PC
<1>2. Held
  BY DEF Init, Held, Free, IdleJob
<1>3. ASSUME NEW e \in Employee
      PROVE  Open(e) = {} /\ Entering(e) = {}
  BY DEF Init, Open, Entering, NoShiftRow, IdleJob
<1>4. EnteringBounded
  <2> SUFFICES ASSUME NEW e \in Employee
               PROVE  Cardinality(Open(e)) + Cardinality(Entering(e))
                        <= Most(e)
    BY DEF EnteringBounded
  <2>1. Cardinality(Open(e)) = 0 /\ Cardinality(Entering(e)) = 0
    BY <1>3, FS_EmptySet
  <2> QED
    BY <2>1, MostType
<1> QED
  BY <1>1, <1>2, <1>4, BoundsOpen DEF AttendanceInv

----------------------------------------------------------------------------
\* A step that moves one job, to a place other than "enter", and opens no
\* shift keeps the invariant.
LEMMA MoveKeeps ==
  ASSUME AttendanceInv, NEW j \in Job, NEW h \in JobRow,
         h.pc # "enter",
         h.pc # "idle" => h.employee \in Employee,
         h.pc = "leave" => h.shift \in Shift,
         job' = [job EXCEPT ![j] = h],
         employees' \in [Employee -> EmployeeRow],
         shifts' \in [Shift -> ShiftRow], UNCHANGED overlapped,
         \A e \in Employee : Open(e)' \subseteq Open(e)
  PROVE  AttendanceInv'
<1>1. TypeOK'
  BY DEF AttendanceInv, TypeOK
<1>2. Held'
  BY DEF AttendanceInv, Held, TypeOK, Free
<1>3. ASSUME NEW e \in Employee
      PROVE  Entering(e)' \subseteq Entering(e)
  BY DEF AttendanceInv, TypeOK, Entering
<1>4. EnteringBounded'
  BY <1>1, <1>3, FewerKeeps DEF AttendanceInv
<1>5. OpenBounded'
  <2> SUFFICES ASSUME NEW e \in Employee
               PROVE  Cardinality(Open(e)') <= Most(e)
    BY DEF OpenBounded, Most
  <2>1. Cardinality(Open(e)') <= Cardinality(Open(e))
    BY FS_Subset, Counts
  <2>2. Cardinality(Open(e)) <= Most(e)
    BY DEF AttendanceInv, OpenBounded
  <2>3. IsFiniteSet(Open(e)')
    BY FS_Subset, Counts
  <2>4. Cardinality(Open(e)') \in Nat
    BY <2>3, FS_CardinalityType
  <2> QED
    BY <2>1, <2>2, <2>4, Counts, MostType
<1> QED
  BY <1>1, <1>2, <1>4, <1>5 DEF AttendanceInv

\* A request that begins to read.
LEMMA GotoKeeps ==
  ASSUME AttendanceInv, NEW j \in Job, NEW e \in Employee,
         NEW pc \in PC \ {"enter", "leave"}, NEW active \in BOOLEAN,
         Goto(j, pc, e, NoShift, active), UNCHANGED <<employees, shifts, overlapped>>
  PROVE  AttendanceInv'
<1> DEFINE h == [pc |-> pc, employee |-> e, shift |-> NoShift,
                 active |-> active]
<1>1. h \in JobRow
  BY DEF JobRow
<1>2. \A d \in Employee : Open(d)' = Open(d)
  BY DEF Open
<1>3. job' = [job EXCEPT ![j] = h]
  BY DEF Goto
<1>4. employees' \in [Employee -> EmployeeRow]
      /\ shifts' \in [Shift -> ShiftRow]
  BY DEF AttendanceInv, TypeOK
<1> HIDE DEF h
<1>5. h.pc # "enter" /\ h.pc # "leave" /\ h.employee \in Employee
  BY DEF h
<1> QED
  BY <1>1, <1>2, <1>3, <1>4, <1>5, MoveKeeps

\* A request that ends, having opened no shift.
LEMMA DoneKeeps ==
  ASSUME AttendanceInv, NEW j \in Job, Done(j),
         employees' \in [Employee -> EmployeeRow],
         shifts' \in [Shift -> ShiftRow], UNCHANGED overlapped,
         \A e \in Employee : Open(e)' \subseteq Open(e)
  PROVE  AttendanceInv'
<1>1. IdleJob \in JobRow /\ IdleJob.pc = "idle"
  BY DEF IdleJob, JobRow, PC
<1>2. job' = [job EXCEPT ![j] = IdleJob]
  BY DEF Done
<1> QED
  BY <1>1, <1>2, MoveKeeps

----------------------------------------------------------------------------
\* A clock-in passes the check only when no shift of the employee is open:
\* it is the only one under way, or they overlap.
LEMMA ClockInCheckKeeps ==
  ASSUME AttendanceInv, NEW j \in Job, ClockInCheck(j)
  PROVE  AttendanceInv'
<1> DEFINE d == job[j].employee
<1>1. d \in Employee /\ Open(d) = {}
  BY DEF AttendanceInv, Held, ClockInCheck, Free
<1>2. /\ job' = [job EXCEPT ![j] = [pc |-> "enter", employee |-> d,
                                   shift |-> NoShift, active |-> TRUE]]
      /\ UNCHANGED <<employees, shifts>>
      /\ overlapped' = IF Entering(d) = {} THEN overlapped
                       ELSE overlapped \cup {d}
      /\ job[j].pc = "inCheck"
  BY DEF ClockInCheck, Goto, Overlap
<1> HIDE DEF d
<1>3. TypeOK'
  BY <1>1, <1>2 DEF AttendanceInv, TypeOK, JobRow, PC
<1>4. Held'
  BY <1>1, <1>2 DEF AttendanceInv, TypeOK, Held, Free
<1>5. \A e \in Employee : Open(e)' = Open(e)
  BY <1>2 DEF Open
<1>6. EnteringBounded'
  <2> SUFFICES ASSUME NEW e \in Employee
               PROVE  Cardinality(Open(e)') + Cardinality(Entering(e)')
                        <= Most(e)'
    BY DEF EnteringBounded
  <2>1. CASE e = d
    <3>1. Cardinality(Open(e)') = 0
      BY <2>1, <1>1, <1>5, FS_EmptySet
    <3>2. Entering(e)' \subseteq Job
      BY DEF Entering
    <3>3. /\ Cardinality(Entering(e)') <= Cardinality(Job)
          /\ IsFiniteSet(Entering(e)')
      BY <3>2, FS_Subset, AttendanceAssumption
    <3>4. Cardinality(Entering(e)') \in Nat
      BY <3>3, FS_CardinalityType
    <3>5. CASE Entering(e) = {}
      <4>1. Entering(e)' = {j}
        BY <1>2, <2>1, <3>5 DEF AttendanceInv, TypeOK, Entering
      <4>2. Cardinality(Entering(e)') = 1
        BY <4>1, FS_Singleton
      <4>3. 1 <= Most(e)'
        BY SomeJob, Counts DEF Most
      <4> QED
        BY <3>1, <4>2, <4>3
    <3>6. CASE Entering(e) # {}
      <4>1. Most(e)' = Cardinality(Job)
        BY <1>2, <2>1, <3>6 DEF Most
      <4> QED
        BY <3>1, <3>3, <3>4, <4>1
    <3> QED
      BY <3>5, <3>6
  <2>2. CASE e # d
    <3>1. Entering(e)' = Entering(e)
      BY <2>2, <1>2 DEF AttendanceInv, TypeOK, Entering
    <3>2. Most(e)' = Most(e)
      BY <2>2, <1>2 DEF Most
    <3> QED
      BY <3>1, <3>2, <1>5 DEF AttendanceInv, EnteringBounded
  <2> QED
    BY <2>1, <2>2
<1>7. OpenBounded'
  <2> SUFFICES ASSUME NEW e \in Employee
               PROVE  Cardinality(Open(e)') <= Most(e)'
    BY DEF OpenBounded
  <2>1. CASE e = d
    <3>1. Cardinality(Open(e)') = 0
      BY <2>1, <1>1, <1>5, FS_EmptySet
    <3>2. 1 <= Most(e)'
      BY SomeJob, Counts DEF Most
    <3>3. Most(e)' \in Nat
      BY Counts DEF Most
    <3> QED
      BY <3>1, <3>2, <3>3
  <2>2. CASE e # d
    <3>1. Most(e)' = Most(e)
      BY <2>2, <1>2 DEF Most
    <3> QED
      BY <3>1, <1>5 DEF AttendanceInv, OpenBounded
  <2> QED
    BY <2>1, <2>2
<1> QED
  BY <1>3, <1>4, <1>6, <1>7 DEF AttendanceInv

\* The insert turns a clock-in under way into a shift.
LEMMA ClockInSaveKeeps ==
  ASSUME AttendanceInv, NEW j \in Job, ClockInSave(j)
  PROVE  AttendanceInv'
<1> DEFINE d == job[j].employee
<1>1. d \in Employee /\ job[j].pc = "enter"
  BY DEF AttendanceInv, Held, ClockInSave, Free
<1>2. PICK s \in Shift :
        /\ shifts[s].status = "none"
        /\ shifts' = [shifts EXCEPT ![s] =
                         [employee |-> d, status |-> "open"]]
  BY DEF ClockInSave, Begin
<1>3. /\ job' = [job EXCEPT ![j] = IdleJob] /\ employees' = employees
      /\ overlapped' = overlapped
  BY DEF ClockInSave, Done
<1> HIDE DEF d
<1>4. IdleJob \in JobRow /\ IdleJob.pc = "idle"
  BY DEF IdleJob, JobRow, PC
<1>5. TypeOK'
  BY <1>1, <1>2, <1>3, <1>4 DEF AttendanceInv, TypeOK, ShiftRow
<1>6. Held'
  BY <1>3, <1>4 DEF AttendanceInv, TypeOK, Held, Free
<1>7. EnteringBounded'
  <2> SUFFICES ASSUME NEW e \in Employee
               PROVE  Cardinality(Open(e)') + Cardinality(Entering(e)')
                        <= Most(e)
    BY <1>3 DEF EnteringBounded, Most
  <2>1. CASE e = d
    <3>1. s \notin Open(e) /\ Open(e)' = Open(e) \cup {s}
      BY <2>1, <1>2 DEF AttendanceInv, TypeOK, ShiftRow, Open
    <3>2. j \in Entering(e) /\ Entering(e)' = Entering(e) \ {j}
      BY <2>1, <1>1, <1>3, <1>4
         DEF AttendanceInv, TypeOK, Entering, d
    <3>3. Cardinality(Open(e)') = Cardinality(Open(e)) + 1
      BY <3>1, FS_AddElement, Counts
    <3>4. Cardinality(Entering(e)') = Cardinality(Entering(e)) - 1
      BY <3>2, FS_RemoveElement, Counts
    <3>5. Cardinality(Open(e)) + Cardinality(Entering(e)) <= Most(e)
      BY DEF AttendanceInv, EnteringBounded
    <3> QED
      BY <3>3, <3>4, <3>5, Counts, MostType
  <2>2. CASE e # d
    <3>1. Open(e)' = Open(e)
      BY <2>2, <1>2 DEF AttendanceInv, TypeOK, ShiftRow, Open
    <3>2. Entering(e)' = Entering(e)
      BY <2>2, <1>3, <1>4 DEF AttendanceInv, TypeOK, Entering, d
    <3> QED
      BY <3>1, <3>2 DEF AttendanceInv, EnteringBounded
  <2> QED
    BY <2>1, <2>2
<1>8. OpenBounded'
  <2>1. ASSUME NEW e \in Employee
        PROVE  Cardinality(Open(e)') <= Most(e)'
    <3>1. Entering(e)' \subseteq Job /\ Open(e)' \subseteq Shift
      BY DEF Entering, Open
    <3>2. IsFiniteSet(Entering(e)') /\ IsFiniteSet(Open(e)')
      BY <3>1, FS_Subset, AttendanceAssumption
    <3>3. Cardinality(Entering(e)') \in Nat /\ Cardinality(Open(e)') \in Nat
      BY <3>2, FS_CardinalityType
    <3>4. Cardinality(Open(e)') + Cardinality(Entering(e)') <= Most(e)'
      BY <1>7 DEF EnteringBounded
    <3>5. Most(e)' \in Nat
      BY Counts DEF Most
    <3> QED
      BY <3>3, <3>4, <3>5
  <2> QED
    BY <2>1 DEF OpenBounded
<1> QED
  BY <1>5, <1>6, <1>7, <1>8 DEF AttendanceInv

\* A clock-out that has found an open shift.
LEMMA ClockOutFindKeeps ==
  ASSUME AttendanceInv, NEW j \in Job, ClockOutFind(j)
  PROVE  AttendanceInv'
<1> DEFINE d == job[j].employee
<1>1. d \in Employee
  BY DEF AttendanceInv, Held, ClockOutFind, Free
<1>2. PICK s \in Open(d) : Goto(j, "leave", d, s, TRUE)
  BY DEF ClockOutFind
<1> DEFINE h == [pc |-> "leave", employee |-> d, shift |-> s,
                 active |-> TRUE]
<1>3. s \in Shift
  BY DEF Open
<1> HIDE DEF d
<1>4. h \in JobRow
  BY <1>1, <1>3 DEF JobRow, PC
<1>5. job' = [job EXCEPT ![j] = h]
  BY <1>2 DEF Goto
<1>6. UNCHANGED <<employees, shifts, overlapped>>
  BY DEF ClockOutFind
<1>7. \A e \in Employee : Open(e)' = Open(e)
  BY <1>6 DEF Open
<1>8. employees' \in [Employee -> EmployeeRow]
      /\ shifts' \in [Shift -> ShiftRow]
  BY <1>6 DEF AttendanceInv, TypeOK
<1>9. h.pc = "leave" /\ h.shift \in Shift /\ h.employee \in Employee
  BY <1>1, <1>3
<1> HIDE DEF h
<1> QED
  BY <1>4, <1>5, <1>6, <1>7, <1>8, <1>9, MoveKeeps

\* A clock-out only closes.
LEMMA ClockOutSaveKeeps ==
  ASSUME AttendanceInv, NEW j \in Job, ClockOutSave(j)
  PROVE  AttendanceInv'
<1>1. job[j].shift \in Shift
  BY DEF AttendanceInv, Held, ClockOutSave
<1>2. /\ shifts' = [shifts EXCEPT ![job[j].shift].status = "closed"]
      /\ UNCHANGED <<employees, overlapped>>
      /\ Done(j)
  BY DEF ClockOutSave
<1>3. shifts' \in [Shift -> ShiftRow]
  BY <1>1, <1>2 DEF AttendanceInv, TypeOK, ShiftRow
<1>4. \A e \in Employee : Open(e)' \subseteq Open(e)
  BY <1>1, <1>2 DEF AttendanceInv, TypeOK, ShiftRow, Open
<1>5. employees' \in [Employee -> EmployeeRow]
  BY <1>2 DEF AttendanceInv, TypeOK
<1> QED
  BY <1>2, <1>3, <1>4, <1>5, DoneKeeps

\* Edits and refusals touch no shift.
LEMMA EditSaveKeeps ==
  ASSUME AttendanceInv, NEW j \in Job, EditSave(j)
  PROVE  AttendanceInv'
<1>1. /\ employees' \in [Employee -> EmployeeRow] /\ Done(j)
      /\ UNCHANGED <<shifts, overlapped>>
  BY DEF EditSave, AttendanceInv, TypeOK, EmployeeRow, JobRow
<1>2. \A e \in Employee : Open(e)' \subseteq Open(e)
  BY <1>1 DEF Open
<1>3. shifts' \in [Shift -> ShiftRow]
  BY <1>1 DEF AttendanceInv, TypeOK
<1> QED
  BY <1>1, <1>2, <1>3, DoneKeeps

LEMMA AbortKeeps ==
  ASSUME AttendanceInv, NEW j \in Job, Abort(j)
  PROVE  AttendanceInv'
<1>1. UNCHANGED <<employees, shifts, overlapped>> /\ Done(j)
  BY DEF Abort
<1>2. \A e \in Employee : Open(e)' \subseteq Open(e)
  BY <1>1 DEF Open
<1>3. /\ employees' \in [Employee -> EmployeeRow]
      /\ shifts' \in [Shift -> ShiftRow]
  BY <1>1 DEF AttendanceInv, TypeOK
<1> QED
  BY <1>1, <1>2, <1>3, DoneKeeps

\* A removal changes neither shifts nor jobs.
LEMMA RemoveKeeps ==
  ASSUME AttendanceInv, NEW e \in Employee, Remove(e)
  PROVE  AttendanceInv'
<1>1. /\ employees' \in [Employee -> EmployeeRow]
      /\ UNCHANGED <<shifts, job, overlapped>>
  BY DEF Remove, AttendanceInv, TypeOK, EmployeeRow
<1>2. \A d \in Employee : Open(d)' = Open(d) /\ Entering(d)' = Entering(d)
  BY <1>1 DEF Open, Entering
<1> QED
  BY <1>1, <1>2 DEF AttendanceInv, TypeOK, Held, Free, EnteringBounded,
                    OpenBounded, Most

\* Every request begins by reading.
LEMMA RequestKeeps ==
  ASSUME AttendanceInv, Request
  PROVE  AttendanceInv'
<1>1. ASSUME NEW j \in Job, NEW e \in Employee, ClockInRead(j, e)
      PROVE  AttendanceInv'
  BY <1>1, GotoKeeps DEF ClockInRead, PC
<1>2. ASSUME NEW j \in Job, NEW e \in Employee, ClockOutRead(j, e)
      PROVE  AttendanceInv'
  BY <1>2, GotoKeeps DEF ClockOutRead, PC
<1>3. ASSUME NEW j \in Job, NEW e \in Employee, SelfClockRead(j, e)
      PROVE  AttendanceInv'
  BY <1>1, <1>2, <1>3 DEF SelfClockRead
<1>4. ASSUME NEW j \in Job, NEW e \in Employee, NEW active \in BOOLEAN,
             EditRead(j, e, active)
      PROVE  AttendanceInv'
  BY <1>4, GotoKeeps DEF EditRead, PC
<1> QED
  BY <1>1, <1>2, <1>3, <1>4, RemoveKeeps DEF Request

----------------------------------------------------------------------------
(* However clock-ins, clock-outs, edits and removals interleave, an        *)
(* employee has two shifts open only if two clock-ins of theirs overlapped *)
(* (employees.service.ts:496), and no more than there are requests.        *)
THEOREM AttendanceInvariance == Spec => []AttendanceInv
<1>1. Init => AttendanceInv
  BY InvInit
<1>2. AttendanceInv /\ [Next]_vars => AttendanceInv'
  <2> SUFFICES ASSUME AttendanceInv, [Next]_vars PROVE AttendanceInv'
    OBVIOUS
  <2>1. CASE Request
    BY <2>1, RequestKeeps
  <2>2. ASSUME NEW j \in Job, Step(j) PROVE AttendanceInv'
    BY <2>2, ClockInCheckKeeps, ClockInSaveKeeps, ClockOutFindKeeps,
       ClockOutSaveKeeps, EditSaveKeeps, AbortKeeps DEF Step
  <2>3. CASE UNCHANGED vars
    BY <2>3 DEF vars, AttendanceInv, TypeOK, Held, Free, EnteringBounded,
                OpenBounded, Open, Entering, Most
  <2> QED
    BY <2>1, <2>2, <2>3 DEF Next
<1> QED
  BY <1>1, <1>2, PTL DEF Spec
=============================================================================
