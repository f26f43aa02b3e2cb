---------------------------- MODULE StatusNotice ----------------------------
(***************************************************************************)
(* What the player is told of the daemon's Status: the worker's history of *)
(* the ROM game and of the [!] states (SocketWorker::FollowGame), the      *)
(* latch that hands only the latest record to the API thread, the notifier *)
(* that decides on every rendered frame whether a notification is posted   *)
(* or taken down (StatusNotifier), and the status light's glyph            *)
(* (LightFor).  The daemon and the pinball machine it reads are the        *)
(* environment: a restarted daemon says "no game" until it has read the    *)
(* machine.                                                                *)
(*                                                                         *)
(* Time is discrete: one Tick per step, stamps are absolute.  A text is a  *)
(* tuple whose head is its marker; two texts are equal exactly when the    *)
(* described states are.  The wording is left out.                         *)
(***************************************************************************)
EXTENDS Naturals, Sequences

CONSTANTS
    Statuses,         \* the Status payloads the daemon may send
    Kinds,            \* the kinds of table: authored (TRUE) or ROM (FALSE)
    Settings,         \* the values of [ShowStatus, StatusNotices] a player uses
    NO_SESSION_AFTER, REFRESH_EVERY, NOTICE_LIFETIME,
    ROM_GAME_LOST_AFTER, NO_GAME_DEFERRED,
    MaxTime, MaxStatuses, MaxSessions, MaxTables, MaxGames

NONE      == 0    \* a time_point { }, and no table
NOTICES_NEVER == 0
NOTICES_OUTSIDE_GAME == 1
NOTICES_ALWAYS == 2

ASSUME TimesAssumption ==
    /\ {NO_SESSION_AFTER, REFRESH_EVERY, NOTICE_LIFETIME, ROM_GAME_LOST_AFTER,
        NO_GAME_DEFERRED} \subseteq Nat \ {0}
    /\ {MaxStatuses, MaxSessions, MaxTables, MaxGames} \subseteq Nat /\ MaxTime \in Nat \ {0}

SessionStates == {"none", "tracking", "no data", "hidden", "unknown"}
SystemStates  == {"ok", "unpaired", "offline", "degraded", "unknown"}
AuthStates    == {"absent", "not authenticated", "authenticated", "failed", "unpaired"}
StatusType == [session: SessionStates, system: SystemStates, auth: AuthStates]

ASSUME StatusesAssumption == Statuses \subseteq StatusType /\ Kinds \subseteq BOOLEAN

ASSUME SettingsAssumption == Settings \subseteq [show: BOOLEAN, notices: NOTICES_NEVER .. NOTICES_ALWAYS]

VARIABLES
    now,        \* steady_clock
    \* the worker
    record,     \* m_statusRecord without its history
    history,    \* m_history
    sessionStart,
    declared,   \* the table of the last Declare of this session, or NONE
    historyTable,
    posted,     \* the last record given to the StatusLatch
    \* the API thread
    table,      \* m_epoch and the identity it declares
    running,    \* m_playerRunning
    authored,   \* AuthoredReady()
    setting,    \* ShowStatus and StatusNotices
    unseen,     \* no frame has had it: it is in the latch, or a script call or the light's timer
                \* took it (m_scriptStatus) and it is pending for the next frame
    nf,         \* the StatusNotifier
    \* the environment: the machine and the daemon's knowledge of it
    playing,    \* a ROM game is being played on the machine, and the daemon has reported it
    aware,      \* the daemon has read the machine since it started
    counts,     \* how many statuses, sessions and authored games there were
    \* history variables
    word,       \* its last word on the game in this session
    excused,    \* this game may count as over: see Excuse
    trouble,    \* a [!] came up in a game and no notice has told it
    gameFrom,   \* by kind of table: how many [!] there had been when the last game started
    screen      \* the notice VPX shows: its text, when it was posted, whether it is up, and
                \* whether the notifier has remembered a text ever since

workerVars == <<record, history, sessionStart, declared, historyTable>>
latchVars == <<posted, unseen>>
tableVars == <<table, running, authored>>
apiVars == <<setting, nf>>
envVars == <<playing, aware, counts>>
ghostVars == <<word, excused, trouble, gameFrom, screen>>
vars == <<now, workerVars, latchVars, tableVars, apiVars, envVars, ghostVars>>

-----------------------------------------------------------------------------
\* The texts

NoText == <<>>

AuthProblem(s) ==
    \/ s.auth \in {"not authenticated", "failed"}
    \/ s.auth = "unpaired" /\ s.system = "ok"

Marker(s) ==
    IF s.session = "unknown" \/ s.system = "unknown" THEN "[?]"
    ELSE IF s.session = "no data" \/ s.system # "ok" \/ AuthProblem(s) THEN "[!]"
    ELSE "[OK]"

Describe(s) ==
    IF s.session = "hidden" THEN <<"hidden">>
    ELSE <<Marker(s), s.session, IF AuthProblem(s) THEN s.auth ELSE s.system>>

DescribeNoSession == <<"[!]", "no connection">>

DescribeEarlier(text) == <<Head(text), "during the game">> \o Tail(text)

IsProblem(text) == text # NoText /\ Head(text) = "[!]"

IsFine(text) == text # NoText /\ Head(text) = "[OK]"

-----------------------------------------------------------------------------
\* The records

NoStatus == [session |-> "none", system |-> "ok", auth |-> "absent"]

NoHistory == [romGame |-> FALSE, romGames |-> 0, romGameEndsAt |-> NONE, warnings |-> 0,
              lastWarning |-> NoText, warningsAtGameStart |-> 0]

HistoryType == [romGame: BOOLEAN, romGames: 0 .. MaxStatuses, romGameEndsAt: 0 .. MaxTime + NO_GAME_DEFERRED,
                warnings: 0 .. MaxStatuses, lastWarning: {NoText} \cup {Describe(s) : s \in Statuses},
                warningsAtGameStart: 0 .. MaxStatuses]

OutOfSession(since) == [inSession |-> FALSE, haveStatus |-> FALSE, status |-> NoStatus, since |-> since]

RecordType == [inSession: BOOLEAN, haveStatus: BOOLEAN, status: Statuses \cup {NoStatus}, since: 0 .. MaxTime]

\* StatusRecord: the record with the history copied into it, as PostStatus sends it.
Whole(r, h) == [rec |-> r, hist |-> h]

Notifier(start) == [current |-> Whole(OutOfSession(start), NoHistory), posted |-> NoText, postedAt |-> 0,
                    inGame |-> FALSE, authoredGame |-> FALSE, authoredGames |-> 0,
                    authoredStartWarnings |-> 0, authoredLast |-> FALSE, seenStarts |-> 0,
                    warningsAtStart |-> 0, lostInGame |-> FALSE, lostText |-> NoText, afterGame |-> FALSE]

DarkLight == [visible |-> FALSE, glyph |-> "none", ring |-> "off"]

Init ==
    /\ now = 1
    /\ record = OutOfSession(1) /\ history = NoHistory
    /\ sessionStart = NONE /\ declared = NONE /\ historyTable = NONE
    /\ posted = Whole(OutOfSession(1), NoHistory) /\ unseen = FALSE
    /\ table = 1 /\ running = TRUE /\ authored \in Kinds
    /\ setting \in Settings
    /\ nf = Notifier(1)
    /\ playing = FALSE /\ aware = TRUE
    /\ counts = [statuses |-> 0, sessions |-> 0, games |-> 0]
    /\ word = "silent" /\ excused = FALSE
    /\ trouble = FALSE /\ gameFrom = [k \in BOOLEAN |-> 0]
    /\ screen = [text |-> NoText, at |-> 0, up |-> FALSE, kept |-> FALSE]

-----------------------------------------------------------------------------
\* The ROM game, followed by the worker

\* Mutant: a "no game" ends the game at once, restarted daemon or not.
AfterStatusAtOnce(h, s, before, t, start) ==
    CASE s.session = "tracking" ->
           [h EXCEPT !.romGameEndsAt = NONE, !.romGame = TRUE, !.romGames = IF h.romGame THEN @ ELSE @ + 1]
      [] s.session = "none" -> [h EXCEPT !.romGame = FALSE]
      [] OTHER -> h

\* FollowGame's treatment of the Status itself, once a deferral that ran out has ended the game.
AfterStatus(h, s, before, t, start) ==
    CASE s.session = "tracking" ->
           [h EXCEPT !.romGameEndsAt = NONE, !.romGame = TRUE,
                     !.romGames = IF h.romGame THEN @ ELSE @ + 1,
                     !.warningsAtGameStart = IF h.romGame THEN @ ELSE before]
      [] s.session = "no data" -> [h EXCEPT !.romGameEndsAt = NONE]
      [] s.session = "none" /\ h.romGame ->
           IF t < start + NO_GAME_DEFERRED
             THEN [h EXCEPT !.romGameEndsAt = IF @ = NONE THEN start + NO_GAME_DEFERRED ELSE @]
             ELSE [h EXCEPT !.romGame = FALSE]
      [] OTHER -> h

\* Mutant: a warning is counted twice.
WarnedTwice(h, s) ==
    IF s.session # "hidden" /\ Marker(s) = "[!]"
      THEN [h EXCEPT !.warnings = @ + 2, !.lastWarning = Describe(s)] ELSE h

Warned(h, s) ==
    IF s.session # "hidden" /\ Marker(s) = "[!]"
      THEN [h EXCEPT !.warnings = @ + 1, !.lastWarning = Describe(s)]
      ELSE h

Settled(h, t) ==
    IF h.romGameEndsAt # NONE /\ t >= h.romGameEndsAt
      THEN [h EXCEPT !.romGame = FALSE, !.romGameEndsAt = NONE]
      ELSE h

FollowGame(h, s, t, start) == AfterStatus(Settled(Warned(h, s), t), s, h.warnings, t, start)

\* The same rule as the notifier applies it, to the record it holds.
RomGameInProgress(r, h, t) ==
    /\ h.romGame
    /\ h.romGameEndsAt = NONE \/ t < h.romGameEndsAt
    /\ r.inSession \/ t - r.since < ROM_GAME_LOST_AFTER

\* Mutant: every session starts outside a game.
HistoryForgotten(h, r, t) == [h EXCEPT !.romGameEndsAt = NONE, !.romGame = FALSE]

\* Handshake ends a game lost for too long, or whose deferral ran out meanwhile.
HistoryAtHandshake(h, r, t) ==
    [h EXCEPT !.romGameEndsAt = NONE,
              !.romGame = /\ @
                          /\ r.inSession \/ t - r.since < ROM_GAME_LOST_AFTER
                          /\ h.romGameEndsAt = NONE \/ t < h.romGameEndsAt]

-----------------------------------------------------------------------------
\* The worker.  PostStatus overwrites what the latch held.

PostStatus(r, h) == posted' = Whole(r, h) /\ unseen' = TRUE

\* A game may count as over when the daemon kept saying "no game" past the deferral, or was gone too long.
Excuse(w, r, t) ==
    \/ w = "none" /\ t >= sessionStart + NO_GAME_DEFERRED
    \/ ~r.inSession /\ t - r.since >= ROM_GAME_LOST_AFTER

Handshake ==
    /\ ~record.inSession /\ counts.sessions < MaxSessions
    /\ counts' = [counts EXCEPT !.sessions = @ + 1]
    /\ sessionStart' = now
    /\ history' = HistoryAtHandshake(history, record, now)
    /\ record' = [OutOfSession(NONE) EXCEPT !.inSession = TRUE]
    /\ declared' = NONE
    /\ PostStatus(record', history')
    /\ word' = "silent"
    /\ UNCHANGED <<now, historyTable, tableVars, apiVars, playing, aware, excused, trouble, gameFrom, screen>>

\* A Hello refused for another reason than the last, or no daemon any more: posted again, from the
\* same loss.  The reason is wording.
NoSession ==
    /\ ~record.inSession
    /\ PostStatus(record, history)
    /\ UNCHANGED <<now, workerVars, tableVars, apiVars, envVars, ghostVars>>

Disconnect ==
    /\ record.inSession
    /\ record' = OutOfSession(now)
    /\ PostStatus(record', history)
    /\ declared' = NONE
    /\ aware' \in {aware, ~playing}
    /\ UNCHANGED <<now, history, sessionStart, historyTable, tableVars, apiVars, playing, counts, ghostVars>>

MaybeDeclare ==
    /\ record.inSession /\ declared # table
    /\ declared' = table /\ historyTable' = table
    /\ IF historyTable \notin {NONE, table} /\ history.romGame
         THEN /\ history' = [history EXCEPT !.romGame = FALSE, !.romGameEndsAt = NONE]
              /\ PostStatus(record, history')
         ELSE UNCHANGED <<history, latchVars>>
    /\ UNCHANGED <<now, record, sessionStart, tableVars, apiVars, envVars, ghostVars>>

\* The daemon says "no game" only if there is none, or it has not read the machine yet.
Truthful(s) == s.session = "none" => ~(aware /\ playing)

AnswerStatus(s) ==
    /\ record.inSession /\ declared # NONE /\ counts.statuses < MaxStatuses
    /\ Truthful(s)
    /\ counts' = [counts EXCEPT !.statuses = @ + 1]
    /\ history' = FollowGame(history, s, now, sessionStart)
    /\ record' = [record EXCEPT !.haveStatus = TRUE, !.status = s]
    /\ PostStatus(record', history')
    /\ word' = IF s.session \in {"none", "tracking", "no data"} THEN s.session ELSE word
    /\ aware' = (aware \/ s.session = "tracking")
    /\ playing' = (playing \/ (s.session = "tracking" /\ running /\ ~authored /\ declared = table))
    /\ excused' = IF playing THEN excused \/ Excuse(word', record', now) ELSE FALSE
    /\ LET newGame == history'.romGames # history.romGames
           inGame == IF authored THEN nf.authoredGame
                                 ELSE declared = table /\ RomGameInProgress(record', history', now)
       IN /\ gameFrom' = IF newGame /\ ~nf.inGame THEN [gameFrom EXCEPT ![FALSE] = history.warnings] ELSE gameFrom
          \* a game that starts before any frame saw the last one takes its place
          /\ trouble' = \/ trouble /\ (newGame /\ ~authored => nf.inGame)
                        \/ inGame /\ history'.warnings # history.warnings
    /\ UNCHANGED <<now, sessionStart, declared, historyTable, tableVars, apiVars, screen>>

-----------------------------------------------------------------------------
\* The notifier: StatusNotifier's methods on its own state n

TableEnded(n) == [n EXCEPT !.inGame = FALSE, !.authoredGame = FALSE, !.lostInGame = FALSE, !.afterGame = FALSE,
                           !.current.hist.romGame = FALSE, !.current.hist.romGameEndsAt = NONE]

NewTable(n) == TableEnded([n EXCEPT !.posted = NoText])

\* Mutant: the count is the last frame's, not the latest record's.
GameStartedLate(n, warningsNow) == [n EXCEPT !.authoredGame = TRUE, !.authoredGames = @ + 1,
                                             !.authoredStartWarnings = n.current.hist.warnings]

GameStarted(n, warningsNow) == [n EXCEPT !.authoredGame = TRUE, !.authoredGames = @ + 1,
                                         !.authoredStartWarnings = warningsNow]

GameEnded(n) == [n EXCEPT !.authoredGame = FALSE]

Want(c, t) ==
    IF c.rec.inSession THEN IF c.rec.haveStatus THEN Describe(c.rec.status) ELSE NoText
    ELSE IF t - c.rec.since >= NO_SESSION_AFTER THEN DescribeNoSession
    ELSE NoText

\* Frame's first part: which game this frame is in, and what began or ended since the last one.
Follow(n, notices, auth, t) ==
    LET h == n.current.hist
        quiet == notices = NOTICES_OUTSIDE_GAME
        starts == IF auth THEN n.authoredGames ELSE h.romGames
        startedSince == quiet /\ auth = n.authoredLast /\ starts # n.seenStarts
        inGame == quiet /\ IF auth THEN n.authoredGame ELSE RomGameInProgress(n.current.rec, h, t)
        started == ~n.inGame /\ (inGame \/ startedSince)
        next == [n EXCEPT !.authoredLast = auth, !.seenStarts = starts, !.inGame = inGame]
    IN  [started |-> started,
         ended |-> (n.inGame \/ startedSince) /\ ~inGame,
         n |-> IF started
                 THEN [next EXCEPT !.lostInGame = FALSE, !.afterGame = FALSE,
                         !.warningsAtStart = IF auth THEN n.authoredStartWarnings ELSE h.warningsAtGameStart]
                 ELSE next]

Hidden(c) == c.rec.inSession /\ c.rec.haveStatus /\ c.rec.status.session = "hidden"

Nothing(n) == [n |-> n, kind |-> "None", text |-> NoText]

Post(n, text) == [n |-> n, kind |-> "Post", text |-> text]

\* In a game: take down what is on screen at its start, remember a loss of the daemon.
FrameInGame(f, t) ==
    LET n == f.n
        want == Want(n.current, t)
        lost == ~n.current.rec.inSession /\ IsProblem(want)
        next == IF lost THEN [n EXCEPT !.lostInGame = TRUE, !.lostText = want] ELSE n
    IN  IF f.started /\ n.posted # NoText /\ t - n.postedAt < NOTICE_LIFETIME
          THEN [n |-> next, kind |-> "Expire", text |-> n.posted]
          ELSE Nothing(next)

\* What went wrong in the game that just ended, or NoText.
Summary(n, want) ==
    LET h == n.current.hist
    IN  IF IsProblem(want) THEN want
        ELSE IF h.warnings # n.warningsAtStart /\ h.lastWarning # NoText THEN DescribeEarlier(h.lastWarning)
        ELSE IF n.lostInGame THEN DescribeEarlier(n.lostText)
        ELSE NoText

FrameAtEnd(f, auth, t) ==
    LET want == Want(f.n.current, t)
        summary == Summary(f.n, want)
        next == [f.n EXCEPT !.posted = IF want = NoText THEN summary ELSE want,
                            !.postedAt = IF summary = NoText THEN @ ELSE t,
                            !.lostInGame = FALSE, !.afterGame = auth]
    IN  IF summary = NoText THEN Nothing(next) ELSE Post(next, summary)

\* Mutant: a [!] is posted once, and nobody notes when.
FrameOutsideOnce(n, t) ==
    LET want == Want(n.current, t)
    IN  IF want = NoText \/ want = n.posted THEN Nothing(n)
        ELSE Post([n EXCEPT !.posted = want, !.afterGame = FALSE], want)

FrameOutside(n, t) ==
    LET want == Want(n.current, t)
    IN  IF want = NoText THEN Nothing(n)
        ELSE IF n.afterGame /\ IsFine(want)
          THEN Nothing(IF want = n.posted THEN n ELSE [n EXCEPT !.posted = want, !.afterGame = FALSE])
        ELSE IF want = n.posted /\ ~(IsProblem(want) /\ t - n.postedAt >= REFRESH_EVERY)
          THEN Nothing(n)
        ELSE Post([n EXCEPT !.posted = want, !.postedAt = t, !.afterGame = FALSE], want)

Frame(n, s, auth, t) ==
    LET f == Follow(n, s.notices, auth, t)
    IN  IF ~s.show \/ s.notices = NOTICES_NEVER \/ Hidden(f.n.current)
          THEN Nothing([f.n EXCEPT !.posted = NoText])
        ELSE IF f.n.inGame THEN FrameInGame(f, t)
        ELSE IF f.ended THEN FrameAtEnd(f, auth, t)
        ELSE FrameOutside(f.n, t)

-----------------------------------------------------------------------------
\* The API thread

\* TakeStatus: whoever takes, what is taken is the last record posted.
ScriptStatus == posted

\* VPX keeps a notice up for its lifetime; a length of 0 takes it down.
OnScreen == screen.up /\ now - screen.at < NOTICE_LIFETIME

\* Notices may show at all in this frame.
MayShow(n) == setting.show /\ setting.notices # NOTICES_NEVER /\ ~Hidden(n.current)

OnGameStart(kind) ==
    /\ ~running
    /\ table' = table + 1 /\ running' = TRUE /\ authored' = kind
    /\ nf' = NewTable(nf)
    /\ playing' = FALSE /\ aware' = TRUE /\ excused' = FALSE /\ trouble' = FALSE
    /\ screen' = [screen EXCEPT !.up = FALSE]
    /\ UNCHANGED <<now, workerVars, latchVars, setting, counts, word, gameFrom>>

OnGameEnd ==
    /\ running /\ table < MaxTables
    /\ table' = table + 1 /\ running' = FALSE /\ authored' = FALSE
    /\ nf' = TableEnded(nf)
    /\ playing' = FALSE /\ aware' = TRUE /\ excused' = FALSE /\ trouble' = FALSE
    /\ UNCHANGED <<now, workerVars, latchVars, setting, counts, word, gameFrom, screen>>

\* A hybrid table's ROM starts (SetRomId), or its script names a machine (DeclareMachine).
IdentityChanges ==
    /\ running /\ table < MaxTables
    /\ table' = table + 1 /\ authored' = ~authored
    /\ playing' = FALSE /\ aware' = TRUE /\ excused' = FALSE /\ trouble' = FALSE
    \* the notifier may take the game for one of the other kind of table
    /\ gameFrom' = IF nf.inGame /\ gameFrom[authored] < gameFrom[authored']
                     THEN [gameFrom EXCEPT ![authored'] = gameFrom[authored]] ELSE gameFrom
    /\ UNCHANGED <<now, workerVars, latchVars, running, apiVars, counts, word, screen>>

\* ScriptCommit with a game_start: the latest record is taken first.
CommitGameStart ==
    /\ running /\ authored /\ counts.games < MaxGames
    /\ counts' = [counts EXCEPT !.games = @ + 1]
    /\ nf' = GameStarted(nf, ScriptStatus.hist.warnings)
    /\ gameFrom' = IF nf.inGame THEN gameFrom ELSE [gameFrom EXCEPT ![TRUE] = history.warnings]
    \* a game that starts before any frame saw the last one takes its place
    /\ trouble' = (trouble /\ nf.inGame)
    /\ UNCHANGED <<now, workerVars, latchVars, tableVars, setting,
                   playing, aware, word, excused, screen>>

CommitGameEnd ==
    /\ running /\ authored /\ nf.authoredGame
    /\ nf' = GameEnded(nf)
    /\ UNCHANGED <<now, workerVars, latchVars, tableVars, setting, envVars, ghostVars>>

\* PostStatusNotice, on every rendered frame.
OnPrepareFrame ==
    /\ running
    /\ unseen' = FALSE
    /\ LET n == IF unseen THEN [nf EXCEPT !.current = ScriptStatus] ELSE nf
           a == Frame(n, setting, authored, now)
       IN /\ nf' = a.n
          /\ screen' = CASE a.kind = "Post" -> [text |-> a.text, at |-> now, up |-> TRUE, kept |-> TRUE]
                         [] a.kind = "Expire" -> [screen EXCEPT !.up = FALSE]
                         [] OTHER -> [screen EXCEPT !.kept = @ /\ a.n.posted # NoText]
          /\ trouble' = /\ ~(a.kind = "Post" /\ IsProblem(a.text))
                        /\ setting.notices = NOTICES_OUTSIDE_GAME /\ MayShow(n)
                        \* a game over before the first frame of its kind of table is not seen
                        /\ authored = nf.authoredLast \/ a.n.inGame
                        /\ trouble \/ (a.n.inGame /\ a.n.lostInGame)
    /\ UNCHANGED <<now, workerVars, posted, tableVars, setting, envVars,
                   word, excused, gameFrom>>

\* The light and its caption follow the record on the plugin's own timer, table or not.
LightFor(c, t, shown) ==
    LET s == c.rec.status
        unauthorized == s.auth \in {"not authenticated", "failed"}
        system == IF s.auth = "unpaired" /\ s.system = "ok" THEN "unpaired" ELSE s.system
        knownSession == unauthorized \/ s.session # "unknown"
        glyph == IF system = "unknown" \/ ~knownSession THEN "unknown"
                 ELSE IF unauthorized \/ s.auth = "unpaired" \/ system # "ok" \/ s.session = "no data" THEN "problem"
                 ELSE "none"
        ring == IF unauthorized \/ s.auth = "unpaired" \/ system = "unpaired" THEN "red"
                ELSE IF glyph = "none" /\ s.session = "none" THEN "rainbow" ELSE "off"
    IN  IF ~c.rec.inSession
          THEN IF t - c.rec.since < NO_SESSION_AFTER THEN shown
               ELSE [visible |-> TRUE, glyph |-> "problem", ring |-> "blue"]
        ELSE IF ~c.rec.haveStatus THEN shown
        ELSE IF s.session = "hidden" THEN DarkLight
        ELSE [visible |-> TRUE, glyph |-> glyph, ring |-> ring]

CaptionFor(c, t) == IF Hidden(c) THEN NoText ELSE Want(c, t)

-----------------------------------------------------------------------------
\* The machine and time

MachineEnds ==
    /\ playing /\ playing' = FALSE
    /\ aware' = TRUE
    /\ UNCHANGED <<now, workerVars, latchVars, tableVars, apiVars, counts, ghostVars>>

\* The unit of time is seconds: a frame and the worker's Declare are fast against it.
Tick ==
    /\ now < MaxTime /\ now' = now + 1
    /\ (running => ~unseen) /\ (record.inSession => declared = table)
    /\ excused' = (excused \/ Excuse(word, record, now'))
    /\ UNCHANGED <<workerVars, latchVars, tableVars, apiVars, envVars, word, trouble, gameFrom, screen>>

Next ==
    \/ Handshake \/ Disconnect \/ MaybeDeclare
    \/ NoSession
    \/ \E s \in Statuses : AnswerStatus(s)
    \/ \E kind \in Kinds : OnGameStart(kind)
    \/ OnGameEnd \/ IdentityChanges \/ CommitGameStart \/ CommitGameEnd
    \/ OnPrepareFrame
    \/ MachineEnds \/ Tick

Spec == Init /\ [][Next]_vars

-----------------------------------------------------------------------------
\* Properties

Words == {"[?]", "[!]", "[OK]", "no connection", "during the game"} \cup SessionStates \cup SystemStates \cup AuthStates
TextType == Seq(Words)

NotifierOK ==
    /\ nf.current.rec \in RecordType /\ nf.current.hist \in HistoryType
    /\ nf.posted \in TextType /\ nf.postedAt \in 0 .. now /\ nf.lostText \in TextType
    /\ {nf.inGame, nf.authoredGame, nf.authoredLast, nf.lostInGame, nf.afterGame} \subseteq BOOLEAN
    /\ nf.authoredGames \in 0 .. MaxGames /\ nf.seenStarts \in Nat
    /\ {nf.authoredStartWarnings, nf.warningsAtStart} \subseteq 0 .. MaxStatuses

\* Every variable keeps its type.
TypeOK ==
    /\ now \in 1 .. MaxTime
    /\ record \in RecordType /\ history \in HistoryType
    /\ sessionStart \in 0 .. now /\ declared \in 0 .. table /\ historyTable \in 0 .. table
    /\ posted.rec \in RecordType /\ posted.hist \in HistoryType /\ unseen \in BOOLEAN
    /\ table \in 1 .. MaxTables + 1 /\ setting \in Settings
    /\ {running, authored, playing, aware, excused, trouble} \subseteq BOOLEAN
    /\ NotifierOK
    /\ counts.statuses <= MaxStatuses /\ counts.sessions <= MaxSessions /\ counts.games <= MaxGames
    /\ word \in {"silent", "none", "tracking", "no data"} /\ gameFrom \in [BOOLEAN -> 0 .. MaxStatuses]
    /\ screen.text \in TextType /\ screen.at \in 0 .. now /\ {screen.up, screen.kept} \subseteq BOOLEAN

\* A ROM game the daemon has reported is never given up while it is being played: not across a
\* reconnect, not for a restarted daemon's "no game" (FollowGame's deferral), unless the daemon is
\* gone for ROM_GAME_LOST_AFTER or still says "no game" after NO_GAME_DEFERRED.
GameKept ==
    playing /\ ~excused => RomGameInProgress(record, history, now)

\* ... and a deferred "no game" is late, never lost: once the deferral is up the game is over in the
\* worker's record and in the record that waits for, or is with, the notifier.
GameEnds ==
    word = "none" /\ now >= sessionStart + NO_GAME_DEFERRED =>
        /\ ~RomGameInProgress(record, history, now)
        /\ ~RomGameInProgress(posted.rec, posted.hist, now)
        /\ ~unseen => ~RomGameInProgress(nf.current.rec, nf.current.hist, now)

\* The worker follows a ROM game truly through sessions, deferrals and restarts: it neither gives up
\* a game that is played nor keeps one that is over (FollowGame, AfterStatus, RomGameInProgress).
GameFollowed == GameKept /\ GameEnds

Posts == screen' # screen /\ screen'.up /\ screen'.at = now /\ screen'.kept

\* With StatusNotices 1 no notice comes up in a game: an authored one from its committed
\* game_start to its game_end, a ROM one from the daemon's report on (StatusNotifier::Frame).
NoneComesUp ==
    Posts /\ setting.notices = NOTICES_OUTSIDE_GAME =>
        ~(IF authored THEN nf.authoredGame ELSE playing /\ ~excused)

\* In a game no notice stays on screen, unless the notifier forgot it meanwhile: a frame in between
\* was hidden, or ended a game that no frame saw while nothing was known of the daemon.
TakenDown == OnPrepareFrame /\ nf'.inGame /\ screen.kept /\ screen'.kept => ~OnScreen'

\* With StatusNotices 1 no notice covers the playfield in a game: none comes up, and the one that was
\* up when the game began is taken down (StatusNotifier::Frame, FrameOutside).
QuietInGame == [][NoneComesUp /\ TakenDown]_vars

\* A [!] that came up in a game is told at the first frame after it that may show notices, however
\* many Statuses and reconnects came between, and even if no frame saw the game.
ToldAfterwards == OnPrepareFrame => nf'.inGame \/ ~trouble'

\* What a notice says went wrong "during the game" did not go wrong before the game.
EarlierIsTrue ==
    Posts /\ screen'.text[2] = "during the game" /\ screen'.text[3] # "no connection" =>
        ScriptStatus.hist.warnings > gameFrom[authored]

\* A game's trouble is told once it is over, and only that game's (GameStarted, Follow).
TroubleTold == [][ToldAfterwards /\ EarlierIsTrue]_vars

\* Outside a game, a [!] that holds has been on screen within REFRESH_EVERY, whatever games,
\* tables or sessions came between.
StaysTold ==
    OnPrepareFrame /\ MayShow(nf') /\ ~nf'.inGame /\ IsProblem(Want(nf'.current, now)) =>
        screen'.text = Want(nf'.current, now) /\ now - screen'.at < REFRESH_EVERY

\* The light and the words say the same of one record: the problem glyph exactly with [!], nothing
\* while hidden.  Except for a session state this build does not know, of a daemon that is not
\* authenticated: LightFor looks at the authentication first, Marker at the session.
LightAgrees ==
    LET view == LightFor(ScriptStatus, now, DarkLight)
        caption == CaptionFor(ScriptStatus, now)
        s == ScriptStatus.rec.status
        oddOne == s.session = "unknown" /\ s.auth \in {"not authenticated", "failed"}
    IN  /\ (ScriptStatus.rec.inSession /\ oddOne) \/ (view.glyph = "problem" <=> IsProblem(caption))
        /\ Hidden(ScriptStatus) => ~view.visible /\ caption = NoText

\* A problem that holds is told on every surface: by the notice, renewed before it expires, and by
\* the light and its caption (StatusNotifier::Frame, LightFor, CaptionFor).
ToldTruly == [][StaysTold /\ LightAgrees']_vars

=============================================================================
