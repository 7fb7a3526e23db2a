---------------------------- MODULE MCSchedules -----------------------------
EXTENDS Schedules, TLC

CONSTANTS r1, r2, r3, k1

Policy(misfire, overlap, limit, every) ==
  [misfire |-> misfire, overlap |-> overlap, maxCatchUp |-> limit, every |-> every]

MCCatchUp == Policy("catch-up", "skip", 2, 1)
MCLatest == Policy("latest", "skip", 3, 1)
MCSkip == Policy("skip", "allow", 2, 2)

MCAllCatchUp == [r \in Runtimes |-> MCCatchUp]
\* A rolling deployment: r3 has dropped the schedule.
MCRolling == [r \in Runtimes |-> IF r = r3 THEN None ELSE MCLatest]

MCToSkip == {MCSkip}
MCSame == {MCCatchUp}
=============================================================================
