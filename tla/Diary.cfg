\* One backup, two failed writes: crashes, resumes and kills in any order.
SPECIFICATION DiarySpec
CONSTANTS
    MaxWrites = 6
    MaxFaults = 2
    MaxBackups = 1
INVARIANTS Recoverable DeadStayDead
CHECK_DEADLOCK FALSE
