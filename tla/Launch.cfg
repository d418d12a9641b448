\* Two CPUs, whose launches overlap in every way.
CONSTANTS
  Cpus = {c1, c2}
  Programs = {"compress", "decompress"}
  DPUS_PER_RANK = 2
  NR_TASKLETS = 1
  WRAM_PAGES = 3
SPECIFICATION FairLaunchSpec
INVARIANTS
  RunsOnce
  InsideWram
PROPERTY
  LaunchReturns
