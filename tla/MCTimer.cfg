SPECIFICATION Spec
CONSTANTS
    Tasks = {task1, task2, task3}
    Boot = boot
    NULL = NULL
    TOTAL_TASKS = 2
    MaxDepth = 2
    Intervals = {0, 100000, 300000}
    Actions <- MCActions
    Handlers = {k_timer_handler, on_alarm}
    k_timer_handler = k_timer_handler
    on_alarm = on_alarm
    TickLimit = 4
CHECK_DEADLOCK FALSE
INVARIANTS
    TypeOK
    ResumedOnOwnStack
    AlarmIsCurrent
    StopsInCallOrFirstTurn
PROPERTIES
    EveryTaskRuns
    AlarmsKeepComing
