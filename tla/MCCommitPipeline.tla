-------------------------- MODULE MCCommitPipeline --------------------------
(* Small instances of CommitPipeline, several scenarios in one run.        *)
EXTENDS CommitPipeline

CONSTANTS p1, p2, p3,
          Scenarios   \* the kinds of the operations that are started, in order, their counts, and whether calls fail

VARIABLE scenario
MCvars == <<vars, scenario>>

Scenario(ops, counts, fails) == [ops |-> ops, counts |-> counts, fails |-> fails]

\* Three goroutines compete for two tokens of each semaphore, one of them an
\* ingestion that holds the lock; the ring laps; two operations of any kinds with
\* failures; empty batches.
AllScenarios ==
    {Scenario(<<{"noSyncWait"}, {"noSyncWait"}, {"alloc"}>>, {1}, FALSE),
     Scenario([i \in 1 .. 4 |-> {"plain"}], {1}, FALSE),
     Scenario(<<Kinds, Kinds \ {"plain"}>>, {1}, TRUE),
     Scenario(<<{"sync"}, {"plain"}>>, {0, 1}, FALSE)}

\* The operation that is started is the next one of the scenario.
Within ==
    issued' # issued =>
        /\ issued' <= Len(scenario.ops)
        /\ \A p \in Procs : pc[p] # pc'[p] => kind'[p] \in scenario.ops[issued'] /\ count'[p] \in scenario.counts

Ended ==
    /\ fatal \/ (issued = Len(scenario.ops) /\ \A p \in Procs : pc[p] = "idle")
    /\ UNCHANGED vars

Continue ==
    \/ ~fatal /\ \E p \in Procs : Step(p) \/ (scenario.fails /\ Fails(p))
    \/ ~fatal /\ \E err \in BOOLEAN : (err => scenario.fails) /\ SyncDone(err)
    \/ Ended

MCInit == Init /\ scenario \in Scenarios
\* Goroutines are interchangeable (and symmetry reduction is not for liveness): the
\* first operation of p2 comes after that of p1, the first of p3 after both.
Order == <<p1, p2, p3>>
MCNext == UNCHANGED scenario /\ (Continue \/ (~fatal /\ \E i \in 1 .. 3 : issued >= i - 1 /\ Start(Order[i]))) /\ Within
MCSpec == MCInit /\ [][MCNext]_MCvars /\ Fairness
=============================================================================
