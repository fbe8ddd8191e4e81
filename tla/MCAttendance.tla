---------------------------- MODULE MCAttendance ----------------------------
\* An instance of Attendance for TLC.  Nothing is symmetric: a liveness
\* property is checked.
EXTENDS Attendance, TLC
=============================================================================
