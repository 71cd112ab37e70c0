\* No bounds: each program is finite as it stands. They end, or wait for a datagram or a
\* signal that nothing makes come.
SPECIFICATION Spec
INVARIANTS NoAddressTaken FaultsContained
PROPERTIES SignalShowsStatus ArrivalEnds FaultingThreadsEnd
CHECK_DEADLOCK FALSE
