SPECIFICATION WSpec
CONSTANTS
    Jobs = {j1}
    Posters = {p1}
    Parent = parent
INVARIANTS NoUseAfterFree NothingLeftBehind SleeperHasNotifier CompletionsRun PollerHasWaker
PROPERTIES StoppedRunsNoHandlers TerminationJoins PostedIsHandled
