----------------------------- MODULE MCBenchBatch -----------------------------
(* Two candidates, two batches; each is over ssh or not, restarts production  *)
(* or not.                                                                    *)
EXTENDS BenchBatch
==============================================================================
