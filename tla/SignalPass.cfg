\* Two user signals and the passed one are enough for every race of two signals with
\* the handler; a third user signal shows that nothing new comes of more.
CONSTANT MaxSignals = 3
SPECIFICATION Spec
INVARIANTS HandlerRunsOnce PassedSignalKills NoPassSurvives PromptedNeverFaults
PROPERTIES PassedSignalEnds EpollEnds
CHECK_DEADLOCK FALSE
