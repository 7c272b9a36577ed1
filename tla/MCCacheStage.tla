----------------------------- MODULE MCCacheStage -----------------------------
(* An instance of CacheStage for TLC: a record, one made on top of it, and  *)
(* an internal one, whose content images can share.                         *)
EXTENDS CacheStage, FiniteSetsExt
CONSTANTS base, step, source

MCDependents == [r \in RecordIds |-> IF r = base THEN {step} ELSE {}]
MCSize(r) == IF r = step THEN 2 ELSE 1
MCTotalSize == [S \in SUBSET RecordIds |-> MapThenSumSet(MCSize, S)]
MCOldTimes == {-5, -4}
MCScenarios == {{"use", "build"}, {"gc", "share"}, {}}
===============================================================================
