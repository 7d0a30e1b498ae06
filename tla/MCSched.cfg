CONSTANTS
    NCPU = 2
    NPROC = 3
    MAX_PRIO = 1
    PROM_TIME = 3
    Machine <- Machines
    Booted = {"rr", "mlfq"}
SPECIFICATION FairSpec
INVARIANT CpusApart
PROPERTIES NoStarvation SchedsetReachesCpu
