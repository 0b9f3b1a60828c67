--------------------------- MODULE MCControlLoops ---------------------------
(* Instances of ControlLoops: a definition edited once while it runs. *)
EXTENDS ControlLoops

SpecRecord(misfire, concurrency, suspend) ==
  [misfire |-> misfire, concurrency |-> concurrency, suspend |-> suspend,
   keepSuccessful |-> 1, keepFailed |-> 1]

\* Edited from one misfire policy to another.
EditedSpecs == <<SpecRecord("FireOnce", "Forbid", FALSE), SpecRecord("CatchUpBounded", "Forbid", FALSE)>>

FirstOnly == {0}

=============================================================================
