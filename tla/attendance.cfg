CONSTANTS
  Employee = {e1,e2}
  NoEmployee = noEmployee
  Shift = {s1,s2,s3,s4}
  NoShift = noShift
  Job = {j1,j2,j3}
SPECIFICATION Spec
CHECK_DEADLOCK FALSE
INVARIANTS AttendanceInv
SYMMETRY AttendanceSymmetry
