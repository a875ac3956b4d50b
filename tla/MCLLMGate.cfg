SPECIFICATION FairSpec
CONSTANTS
    live = live
    job = job
    late_job = late_job
    Call = {live, job, late_job}
    Priority <- Classes
    Capacity = 1
    Ttl = 3
    Patient = {job}
    Faults <- AllFaults
    MaxFaults = 1
INVARIANTS SlotsBounded HealthyKeepSlot
PROPERTIES ServedInOrder PatientServed
CHECK_DEADLOCK FALSE
