----------------------------- MODULE MCFailover -----------------------------
EXTENDS Failover

\* The steps whose failure is rolled back and ends the handler
ToRolledBack == ToFaults \ {"ipadd", "setIP"}

Trial(faults, rounds) == [faults |-> faults, rounds |-> rounds]

Failures == ToRolledBack \cup FromFaults

\* All failures, there and back, with what nobody tests, or with half pairs
\* and an operator; crashes in one switchover; and in two with some failures,
\* after which a pair that is out of order is confirmed
MCFaultTrials ==
    {Trial(Failures \cup {"silent"}, 2),
     Trial(Failures \cup {"insert", "lift"}, 2),
     Trial(Failures \cup {"silent", "crash"}, 1),
     Trial(Failures \cup {"insert", "crash", "lift"}, 1),
     Trial({"ipdel", "vzName", "setSource", "crash", "lift"}, 2)}

\* Every tested failure, also the two that fall through
MCTestedTrials == {Trial(ToFaults \cup FromFaults, 1)}

MCCrashTrials == {Trial({"crash"}, 1)}
=============================================================================
