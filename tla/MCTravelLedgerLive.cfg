\* One caller at a time (the workflow's travel_lock), the code's six reads a
\* window, a retry after a refusal, one further window; every step can be lost.
SPECIFICATION FairSpec
CONSTANTS
    Callers = {c1}
    MaxReads = 6
    MaxFences = 2
    MaxDispatches = 2
    MaxResumes = 1
PROPERTIES
    ReconciliationEnds
