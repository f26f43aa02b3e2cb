\* Two changes of table, two sessions, three Statuses, a game and the times in their order.
SPECIFICATION Spec
CONSTANTS
    Statuses <- MCStatuses
    Kinds = {TRUE, FALSE}
    Settings <- OutsideGame
    NO_SESSION_AFTER = 1
    NOTICE_LIFETIME = 1
    NO_GAME_DEFERRED = 1
    ROM_GAME_LOST_AFTER = 2
    REFRESH_EVERY = 2
    MaxTime = 3
    MaxStatuses = 3
    MaxSessions = 2
    MaxTables = 2
    MaxGames = 1
    MaxEvents = 7
CONSTRAINT Bounded
INVARIANTS TypeOK GameFollowed
PROPERTIES QuietInGame TroubleTold ToldTruly
CHECK_DEADLOCK FALSE
