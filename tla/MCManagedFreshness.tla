------------------------- MODULE MCManagedFreshness -------------------------
(* Instances of ManagedFreshness for TLC.                                  *)
EXTENDS ManagedFreshness, TLC

\* Bound: requests and passes under way at the same time.
TwoAtOnce == Cardinality({w \in Workers : pc[w] # "idle"}) <= 2

\* The forced sync takes the same steps and waits for no lock.
PollerRests == pc[Poller] = "idle"
AllBounds == TwoAtOnce /\ PollerRests

\* No guard and no property of that run looks at the rest of the index.
IndexAt == <<remote, clone, fetched, index.at, registry, work, ghosts>>

CommitSymmetry == Permutations(Commits)
=============================================================================
