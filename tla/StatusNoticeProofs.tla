------------------------- MODULE StatusNoticeProofs -------------------------
(***************************************************************************)
(* Theorems about StatusNotice, for every set of Statuses and settings,    *)
(* every choice of the times, and every number of tables, games, sessions  *)
(* and Statuses.                                                           *)
(***************************************************************************)
EXTENDS StatusNotice, SequenceTheorems, TLAPS

-----------------------------------------------------------------------------
(* The inductive invariant.                                                *)

WholeType == [rec : RecordType, hist : HistoryType]

NotifierType ==
  [current : WholeType, posted : TextType, postedAt : Nat, inGame : BOOLEAN,
   authoredGame : BOOLEAN, authoredGames : Nat, authoredStartWarnings : 0 .. MaxStatuses,
   authoredLast : BOOLEAN, seenStarts : Nat, warningsAtStart : 0 .. MaxStatuses,
   lostInGame : BOOLEAN, lostText : TextType, afterGame : BOOLEAN]

WorkerTypes ==
  /\ record \in RecordType /\ history \in HistoryType /\ posted \in WholeType /\ unseen \in BOOLEAN
  /\ sessionStart \in 0 .. now /\ declared \in 0 .. table /\ historyTable \in 0 .. table
  /\ counts \in [statuses : 0 .. MaxStatuses, sessions : 0 .. MaxSessions, games : 0 .. MaxGames]
  /\ word \in {"silent", "none", "tracking", "no data"}

ApiTypes ==
  /\ now \in 1 .. MaxTime /\ table \in 1 .. MaxTables + 1 /\ setting \in Settings
  /\ running \in BOOLEAN /\ authored \in BOOLEAN /\ nf \in NotifierType
  /\ ~running => table <= MaxTables
  /\ playing \in BOOLEAN /\ aware \in BOOLEAN /\ excused \in BOOLEAN /\ trouble \in BOOLEAN
  /\ gameFrom \in [BOOLEAN -> 0 .. MaxStatuses]
  /\ screen \in [text : TextType, at : Nat, up : BOOLEAN, kept : BOOLEAN]
  /\ screen.at <= now /\ nf.postedAt <= now /\ nf.authoredGames <= counts.games

TypeInv == WorkerTypes /\ ApiTypes

\* The worker's history: its counts only rise, and a game is ended late only for a daemon that says
\* "no game" in this session.
HistoryInv ==
  /\ posted = Whole(record, history)
  /\ record.since <= now
  /\ history.romGames <= counts.statuses /\ history.warnings <= counts.statuses
  /\ history.warningsAtGameStart <= history.warnings
  /\ history.lastWarning # NoText => IsProblem(history.lastWarning)
  /\ history.warnings > 0 => history.lastWarning # NoText
  /\ declared # NONE => historyTable = declared
  /\ history.romGame => historyTable # NONE
  /\ history.romGameEndsAt # NONE =>
       history.romGame /\ word = "none" /\ history.romGameEndsAt = sessionStart + NO_GAME_DEFERRED
  /\ word = "none" /\ history.romGame => history.romGameEndsAt # NONE

\* A record without its ROM game, as TableEnded leaves it.
GameForgotten(c) == [c EXCEPT !.hist.romGame = FALSE, !.hist.romGameEndsAt = NONE]

\* What the notifier holds: the record posted last, but for a game that the table's end took away;
\* a game of the table there is now is not taken away.
SeenInv ==
  ~unseen => /\ nf.current = posted \/ nf.current = GameForgotten(posted)
             /\ historyTable = table /\ history.romGame => nf.current = posted

\* A game that is played was reported for this table.
PlayInv ==
  /\ playing => historyTable = table
  /\ GameKept

\* What is on screen is what the notifier remembers.
ScreenInv ==
  /\ screen.up => screen.at = nf.postedAt
  /\ nf.inGame /\ screen.kept => ~OnScreen
  /\ IsProblem(nf.posted) => screen.text = nf.posted /\ screen.at = nf.postedAt

\* How many games the notifier knows to have started, and how many [!] there were then.
CountInv ==
  /\ IF nf.authoredLast THEN nf.seenStarts <= nf.authoredGames ELSE nf.seenStarts <= history.romGames
  /\ nf.authoredStartWarnings <= history.warnings
  /\ nf.inGame => nf.warningsAtStart <= history.warnings
  /\ nf.lostInGame => nf.lostText = DescribeNoSession
  /\ gameFrom[TRUE] <= nf.authoredStartWarnings
  /\ gameFrom[FALSE] <= history.warningsAtGameStart
  /\ nf.inGame => gameFrom[authored] <= nf.warningsAtStart

Quiet == setting.notices = NOTICES_OUTSIDE_GAME

\* A game has started that no frame has seen, of the kind the table is of now.
AuthoredStarted == nf.authoredLast => nf.authoredGames # nf.seenStarts
RomStarted      == ~nf.authoredLast => history.romGames # nf.seenStarts

\* A game that the notifier is not in is one that it will find to have started.
StartInv ==
  Quiet /\ ~nf.inGame =>
    /\ nf.authoredGame => AuthoredStarted
    /\ ~authored /\ historyTable = table /\ RomGameInProgress(record, history, now) => RomStarted

\* A game's trouble: the notifier is in the game, or will find that it started, and has seen no
\* more [!] before it than there were.
TroubleInv ==
  trouble /\ Quiet =>
    IF nf.inGame THEN nf.lostInGame \/ nf.warningsAtStart < history.warnings
    ELSE IF authored THEN AuthoredStarted /\ nf.authoredStartWarnings < history.warnings
    ELSE RomStarted /\ history.warningsAtGameStart < history.warnings

IInv == /\ TypeInv /\ HistoryInv /\ SeenInv /\ PlayInv
        /\ ScreenInv /\ CountInv /\ StartInv /\ TroubleInv

-----------------------------------------------------------------------------
(* Texts.                                                                  *)

\* A text of three words.
LEMMA ThreeWords ==
  ASSUME NEW a \in Words, NEW b \in Words, NEW c \in Words
  PROVE  /\ <<a, b, c>> \in TextType /\ <<a, b, c>> # NoText /\ Head(<<a, b, c>>) = a
         /\ Len(<<a, b, c>>) = 3
  BY DEF TextType, NoText

\* And of two.
LEMMA TwoWords ==
  ASSUME NEW a \in Words, NEW b \in Words
  PROVE  <<a, b>> \in Seq(Words) /\ Len(<<a, b>>) = 2 /\ <<a, b>>[1] = a /\ <<a, b>>[2] = b
  OBVIOUS

\* A described Status is a text; what is not hidden starts with its marker.
LEMMA DescribeFacts ==
  ASSUME NEW s \in StatusType
  PROVE  /\ Describe(s) \in TextType /\ Describe(s) # NoText /\ Marker(s) \in {"[?]", "[!]", "[OK]"}
         /\ s.session = "hidden" => ~IsProblem(Describe(s))
         /\ s.session # "hidden" => /\ Head(Describe(s)) = Marker(s) /\ Describe(s)[2] = s.session
                                    /\ Len(Describe(s)) = 3
<1>1. Marker(s) \in {"[?]", "[!]", "[OK]"} /\ Marker(s) \in Words
  BY DEF Marker, Words
<1>2. s.session \in Words /\ s.auth \in Words /\ s.system \in Words
  BY DEF StatusType, Words
<1>3. CASE s.session = "hidden"
  <2>1. Describe(s) = <<"hidden">>
    BY <1>3 DEF Describe
  <2>2. <<"hidden">> \in TextType /\ <<"hidden">> # NoText /\ Head(<<"hidden">>) # "[!]"
    BY DEF TextType, NoText, Words, SessionStates
  <2> QED
    BY <1>1, <1>3, <2>1, <2>2 DEF IsProblem
<1>4. CASE s.session # "hidden"
  <2> DEFINE w == IF AuthProblem(s) THEN s.auth ELSE s.system
  <2>1. Describe(s) = <<Marker(s), s.session, w>>
    BY <1>4 DEF Describe
  <2>2. w \in Words
    BY <1>2
  <2> HIDE DEF w
  <2>3. <<Marker(s), s.session, w>>[2] = s.session
    OBVIOUS
  <2> QED
    BY <1>1, <1>2, <1>4, <2>1, <2>2, <2>3, ThreeWords
<1> QED
  BY <1>3, <1>4

\* What is said of a lost connection.
LEMMA NoSessionFacts ==
  /\ DescribeNoSession \in TextType /\ DescribeNoSession # NoText /\ IsProblem(DescribeNoSession)
  /\ DescribeNoSession[2] = "no connection" /\ Len(DescribeNoSession) > 1
  BY DEF DescribeNoSession, TextType, NoText, IsProblem, Words

\* A text about an earlier time has the marker of the text it is about, which follows.
LEMMA EarlierFacts ==
  ASSUME NEW text \in TextType, text # NoText
  PROVE  /\ DescribeEarlier(text) \in TextType /\ DescribeEarlier(text) # NoText
         /\ Head(DescribeEarlier(text)) = Head(text) /\ DescribeEarlier(text)[2] = "during the game"
         /\ Len(text) > 1 => DescribeEarlier(text)[3] = text[2]
<1>1. /\ Head(text) \in Words /\ Tail(text) \in Seq(Words) /\ Len(text) \in Nat \ {0}
      /\ Len(Tail(text)) = Len(text) - 1
      /\ \A i \in 1 .. Len(Tail(text)) : Tail(text)[i] = text[i + 1]
  BY HeadTailProperties, EmptySeq, LenProperties DEF TextType, NoText
<1> DEFINE h == <<Head(text), "during the game">>
<1>2. h \in Seq(Words) /\ Len(h) = 2 /\ h[1] = Head(text) /\ h[2] = "during the game"
  <2>1. "during the game" \in Words
    BY DEF Words
  <2> QED
    BY <1>1, <2>1, TwoWords
<1>4. DescribeEarlier(text) = h \o Tail(text)
  BY DEF DescribeEarlier
<1> HIDE DEF h
<1>3. /\ h \o Tail(text) \in Seq(Words) /\ Len(h \o Tail(text)) = 2 + Len(Tail(text))
      /\ \A i \in 1 .. 2 + Len(Tail(text)) :
           (h \o Tail(text))[i] = IF i <= 2 THEN h[i] ELSE Tail(text)[i - 2]
  <2>1. Tail(text) \in Seq(Words)
    BY <1>1
  <2> DEFINE u == Tail(text)
  <2> HIDE DEF u
  <2>2. /\ h \o u \in Seq(Words) /\ Len(h \o u) = Len(h) + Len(u)
        /\ \A i \in 1 .. Len(h) + Len(u) : (h \o u)[i] = IF i <= Len(h) THEN h[i] ELSE u[i - Len(h)]
    BY <1>2, <2>1, ConcatProperties DEF u
  <2> QED
    BY <1>2, <2>2 DEF u
<1>5. h \o Tail(text) # <<>>
  BY <1>1, <1>3, EmptySeq
<1>6. Head(h \o Tail(text)) = (h \o Tail(text))[1]
  BY <1>3, <1>5, HeadTailProperties
<1>7. (h \o Tail(text))[1] = h[1] /\ (h \o Tail(text))[2] = h[2]
  BY <1>1, <1>3
<1>8. Len(text) > 1 => (h \o Tail(text))[3] = text[2]
  <2> SUFFICES ASSUME Len(text) > 1 PROVE (h \o Tail(text))[3] = text[2]
    OBVIOUS
  <2>1. 3 \in 1 .. 2 + Len(Tail(text)) /\ 1 \in 1 .. Len(Tail(text))
    BY <1>1
  <2>2. (h \o Tail(text))[3] = Tail(text)[1]
    BY <1>3, <2>1
  <2>3. Tail(text)[1] = text[2]
    BY <1>1, <2>1, 1 + 1 = 2
  <2> QED
    BY <2>2, <2>3, Zenon
<1> QED
  BY <1>2, <1>3, <1>4, <1>5, <1>6, <1>7, <1>8 DEF TextType, NoText

-----------------------------------------------------------------------------
(* The notifier: what a frame does with it.                                *)

\* What the notifier would say is a text, and not about an earlier time.
LEMMA WantFacts ==
  ASSUME NEW c \in WholeType, NEW t \in Nat
  PROVE  /\ Want(c, t) \in TextType
         /\ Want(c, t) # NoText /\ ~Hidden(c) => Want(c, t)[2] # "during the game"
         /\ ~c.rec.inSession /\ IsProblem(Want(c, t)) => Want(c, t) = DescribeNoSession
<1>1. c.rec \in RecordType /\ c.rec.status \in Statuses \cup {NoStatus}
  BY DEF WholeType, RecordType
<1>2. c.rec.status \in StatusType
  <2>1. NoStatus \in StatusType
    BY DEF NoStatus, StatusType, SessionStates, SystemStates, AuthStates
  <2>2. Statuses \subseteq StatusType
    BY StatusesAssumption
  <2> QED
    BY <1>1, <2>1, <2>2
<1>3. CASE c.rec.inSession /\ c.rec.haveStatus
  <2>1. Want(c, t) = Describe(c.rec.status)
    BY <1>3 DEF Want
  <2>2. c.rec.status.session # "during the game"
    BY <1>2 DEF StatusType, SessionStates
  <2> QED
    BY <1>2, <1>3, <2>1, <2>2, DescribeFacts DEF Hidden
<1>4. CASE ~c.rec.inSession
  <2>1. Want(c, t) \in {NoText, DescribeNoSession}
    BY <1>4 DEF Want
  <2>2. ~IsProblem(NoText) /\ NoText \in TextType
    BY EmptySeq DEF IsProblem, NoText, TextType
  <2>3. "no connection" # "during the game"
    OBVIOUS
  <2> QED
    BY <2>1, <2>2, <2>3, NoSessionFacts
<1>5. CASE c.rec.inSession /\ ~c.rec.haveStatus
  <2>1. Want(c, t) = NoText
    BY <1>5 DEF Want
  <2>2. NoText \in TextType
    BY EmptySeq DEF NoText, TextType
  <2> QED
    BY <1>5, <2>1, <2>2
<1> QED
  BY <1>3, <1>4, <1>5

\* The game a frame finds the notifier in, and how many games of the kind have started.
NowIn(n, notices, auth, t) ==
  notices = NOTICES_OUTSIDE_GAME
    /\ IF auth THEN n.authoredGame ELSE RomGameInProgress(n.current.rec, n.current.hist, t)

StartsOf(n, auth) == IF auth THEN n.authoredGames ELSE n.current.hist.romGames

StartedSince(n, notices, auth) ==
  notices = NOTICES_OUTSIDE_GAME /\ auth = n.authoredLast /\ StartsOf(n, auth) # n.seenStarts

Begins(n, notices, auth, t) ==
  ~n.inGame /\ (NowIn(n, notices, auth, t) \/ StartedSince(n, notices, auth))

\* The part of the notifier that only Follow changes.
Followed(n, m, notices, auth, t) ==
  /\ m.current = n.current /\ m.authoredGame = n.authoredGame /\ m.authoredGames = n.authoredGames
  /\ m.authoredStartWarnings = n.authoredStartWarnings
  /\ m.authoredLast = auth /\ m.seenStarts = StartsOf(n, auth) /\ m.inGame = NowIn(n, notices, auth, t)
  /\ m.warningsAtStart = IF ~Begins(n, notices, auth, t) THEN n.warningsAtStart
                         ELSE IF auth THEN n.authoredStartWarnings ELSE n.current.hist.warningsAtGameStart

LEMMA RomGameType ==
  ASSUME NEW c \in WholeType, NEW t \in Nat
  PROVE  RomGameInProgress(c.rec, c.hist, t) \in BOOLEAN
  BY DEF RomGameInProgress, WholeType, HistoryType, RecordType

\* Follow: which game the frame is in, and what began or ended since the last one.
LEMMA FollowFacts ==
  ASSUME NEW n \in NotifierType, NEW notices \in 0 .. 2, NEW auth \in BOOLEAN, NEW t \in Nat
  PROVE  LET f == Follow(n, notices, auth, t)
         IN  /\ f.n \in NotifierType /\ Followed(n, f.n, notices, auth, t)
             /\ f.n.posted = n.posted /\ f.n.postedAt = n.postedAt /\ f.n.lostText = n.lostText
             /\ f.started = Begins(n, notices, auth, t)
             /\ f.ended = ((n.inGame \/ StartedSince(n, notices, auth)) /\ ~NowIn(n, notices, auth, t))
             /\ f.n.lostInGame = (n.lostInGame /\ ~Begins(n, notices, auth, t))
<1> DEFINE inGame == NowIn(n, notices, auth, t)
           starts == StartsOf(n, auth)
           started == Begins(n, notices, auth, t)
           begun == IF auth THEN n.authoredStartWarnings ELSE n.current.hist.warningsAtGameStart
           next == [n EXCEPT !.authoredLast = auth, !.seenStarts = starts, !.inGame = inGame]
           last == IF started THEN [next EXCEPT !.lostInGame = FALSE, !.afterGame = FALSE, !.warningsAtStart = begun]
                              ELSE next
<1>1. /\ Follow(n, notices, auth, t).n = last
      /\ Follow(n, notices, auth, t).started = started
      /\ Follow(n, notices, auth, t).ended = ((n.inGame \/ StartedSince(n, notices, auth)) /\ ~inGame)
  BY DEF Follow, Begins, StartedSince, StartsOf, NowIn
<1>2. n.current \in WholeType /\ n.current.hist \in HistoryType
  BY DEF NotifierType, WholeType
<1>3. inGame \in BOOLEAN /\ starts \in Nat /\ started \in BOOLEAN /\ begun \in 0 .. MaxStatuses
  BY <1>2, RomGameType, TimesAssumption DEF NotifierType, HistoryType, NowIn, StartsOf, Begins, StartedSince
<1> HIDE DEF inGame, starts, started, begun
<1>4. next \in NotifierType
  BY <1>3 DEF NotifierType
<1>5. /\ next.current = n.current /\ next.authoredGame = n.authoredGame /\ next.authoredGames = n.authoredGames
      /\ next.authoredStartWarnings = n.authoredStartWarnings /\ next.authoredLast = auth
      /\ next.seenStarts = starts /\ next.inGame = inGame /\ next.warningsAtStart = n.warningsAtStart
      /\ next.posted = n.posted /\ next.postedAt = n.postedAt /\ next.lostText = n.lostText
      /\ next.lostInGame = n.lostInGame
  BY <1>3 DEF NotifierType
<1> HIDE DEF next
<1>6. last \in NotifierType
  BY <1>3, <1>4 DEF NotifierType
<1>7. /\ last.current = n.current /\ last.authoredGame = n.authoredGame /\ last.authoredGames = n.authoredGames
      /\ last.authoredStartWarnings = n.authoredStartWarnings /\ last.authoredLast = auth
      /\ last.seenStarts = starts /\ last.inGame = inGame
      /\ last.posted = n.posted /\ last.postedAt = n.postedAt /\ last.lostText = n.lostText
  BY <1>4, <1>5 DEF NotifierType
<1>8. /\ last.warningsAtStart = IF ~started THEN n.warningsAtStart ELSE begun
      /\ last.lostInGame = IF started THEN FALSE ELSE n.lostInGame
  BY <1>4, <1>5 DEF NotifierType
<1>9. n.lostInGame \in BOOLEAN
  BY DEF NotifierType
<1> HIDE DEF last
<1>10. last.lostInGame = (n.lostInGame /\ ~started)
  BY <1>3, <1>8, <1>9
<1>11. Followed(n, last, notices, auth, t)
  BY <1>3, <1>7, <1>8 DEF Followed, inGame, starts, started, begun
<1> QED
  BY <1>1, <1>6, <1>7, <1>10, <1>11 DEF inGame, started

\* What the summary of a game says: a problem that holds, or one that there was.
LEMMA SummaryFacts ==
  ASSUME NEW n \in NotifierType, NEW want \in TextType,
         n.current.hist.lastWarning # NoText => IsProblem(n.current.hist.lastWarning),
         n.lostInGame => n.lostText = DescribeNoSession
  PROVE  /\ Summary(n, want) \in TextType
         /\ IsProblem(want) => Summary(n, want) = want
         /\ n.lostInGame => IsProblem(Summary(n, want))
         /\ n.current.hist.warnings # n.warningsAtStart /\ n.current.hist.lastWarning # NoText =>
              IsProblem(Summary(n, want))
         /\ Summary(n, want) # NoText =>
              \/ Summary(n, want) = want
              \/ n.current.hist.warnings # n.warningsAtStart
              \/ Summary(n, want)[3] = "no connection"
<1> DEFINE h == n.current.hist
<1>1. /\ h.lastWarning \in {NoText} \cup {Describe(s) : s \in Statuses} /\ n.lostText \in TextType
      /\ Statuses \subseteq StatusType
  BY StatusesAssumption DEF NotifierType, WholeType, HistoryType
<1>2. NoText \in TextType /\ ~IsProblem(NoText)
  BY EmptySeq DEF IsProblem, NoText, TextType
<1>3. h.lastWarning \in TextType
  BY <1>1, <1>2, DescribeFacts
<1>4. ASSUME NEW text \in TextType, IsProblem(text)
      PROVE  DescribeEarlier(text) \in TextType /\ IsProblem(DescribeEarlier(text))
  BY <1>4, EarlierFacts DEF IsProblem
<1>6. DescribeEarlier(DescribeNoSession)[3] = "no connection"
  BY NoSessionFacts, EarlierFacts
<1> HIDE DEF h
<1>7. CASE IsProblem(want)
  BY <1>7 DEF Summary
<1>8. CASE ~IsProblem(want) /\ h.warnings # n.warningsAtStart /\ h.lastWarning # NoText
  <2>1. Summary(n, want) = DescribeEarlier(h.lastWarning)
    BY <1>8 DEF Summary, h
  <2>2. IsProblem(h.lastWarning)
    BY <1>8 DEF h
  <2> QED
    BY <1>3, <1>4, <1>8, <2>1, <2>2 DEF h
<1>9. CASE ~IsProblem(want) /\ ~(h.warnings # n.warningsAtStart /\ h.lastWarning # NoText) /\ n.lostInGame
  <2>1. Summary(n, want) = DescribeEarlier(n.lostText)
    BY <1>9 DEF Summary, h
  <2> QED
    BY <1>4, <1>6, <1>9, <2>1, NoSessionFacts DEF h
<1>10. CASE ~IsProblem(want) /\ ~(h.warnings # n.warningsAtStart /\ h.lastWarning # NoText) /\ ~n.lostInGame
  <2>1. Summary(n, want) = NoText
    BY <1>10 DEF Summary, h
  <2> QED
    BY <1>2, <1>10, <2>1 DEF h
<1> QED
  BY <1>7, <1>8, <1>9, <1>10

\* Notices may be shown.
Shows(n, s) == s.show /\ s.notices # NOTICES_NEVER /\ ~Hidden(n.current)

\* The action of a frame, and the notifier after it.
FrameTypes(n, s, auth, t, a) ==
  /\ a.n \in NotifierType /\ Followed(n, a.n, s.notices, auth, t)
  /\ a.kind \in {"None", "Post", "Expire"} /\ a.text \in TextType /\ a.n.postedAt <= t
  /\ a.n.lostInGame => a.n.lostText = DescribeNoSession
  /\ a.n.inGame /\ n.lostInGame /\ ~Begins(n, s.notices, auth, t) => a.n.lostInGame
  /\ a.kind = "Post" /\ a.text[2] = "during the game" => n.inGame \/ StartedSince(n, s.notices, auth)

\* What is posted, and what is remembered of it.
FramePosts(n, a, t) ==
  /\ a.kind = "Post" =>
       /\ ~a.n.inGame /\ a.n.postedAt = t
       /\ IsProblem(a.n.posted) => a.text = a.n.posted
       /\ a.text[2] = "during the game" /\ a.text[3] # "no connection" =>
            n.current.hist.warnings # a.n.warningsAtStart
  /\ a.kind # "Post" => /\ a.n.postedAt = n.postedAt
                        /\ IsProblem(a.n.posted) => a.n.posted = n.posted

\* What is up when a game begins is taken down.
FrameClears(n, a, t) ==
  a.kind = "None" /\ a.n.inGame => a.n.posted = NoText \/ n.inGame \/ t - n.postedAt >= NOTICE_LIFETIME

\* Outside a game a problem is told, and so is the trouble of a game that is over.
FrameTells(n, s, auth, t, a) ==
  Shows(n, s) /\ ~a.n.inGame =>
    /\ IsProblem(Want(n.current, t)) =>
         \/ a.kind = "Post" /\ a.text = Want(n.current, t)
         \/ a.kind = "None" /\ n.posted = Want(n.current, t) /\ t - n.postedAt < REFRESH_EVERY
    /\ n.inGame \/ StartedSince(n, s.notices, auth) =>
         /\ n.current.hist.warnings # a.n.warningsAtStart /\ n.current.hist.lastWarning # NoText =>
              a.kind = "Post" /\ IsProblem(a.text)
         /\ n.lostInGame /\ ~Begins(n, s.notices, auth, t) => a.kind = "Post" /\ IsProblem(a.text)

FrameDone(n, s, auth, t, a) ==
  FrameTypes(n, s, auth, t, a) /\ FramePosts(n, a, t) /\ FrameClears(n, a, t) /\ FrameTells(n, s, auth, t, a)

\* The state that a frame meets.
FrameMeets(n, s, t) ==
  /\ n \in NotifierType /\ s \in [show : BOOLEAN, notices : 0 .. 2] /\ t \in Nat /\ n.postedAt <= t
  /\ n.current.hist.lastWarning # NoText => IsProblem(n.current.hist.lastWarning)
  /\ n.lostInGame => n.lostText = DescribeNoSession

LEMMA NoTextFacts == NoText \in TextType /\ ~IsProblem(NoText) /\ ~IsFine(NoText)
  BY EmptySeq DEF IsProblem, IsFine, NoText, TextType

\* A hidden frame, or one without notices.
LEMMA FrameHidden ==
  ASSUME NEW n, NEW s, NEW t, NEW auth \in BOOLEAN, FrameMeets(n, s, t), ~Shows(n, s)
  PROVE  FrameDone(n, s, auth, t, Frame(n, s, auth, t))
<1> DEFINE f == Follow(n, s.notices, auth, t)
           m == [f.n EXCEPT !.posted = NoText]
           a == Frame(n, s, auth, t)
<1>1. n \in NotifierType /\ s.notices \in 0 .. 2 /\ t \in Nat
  BY DEF FrameMeets
<1>2. f.n \in NotifierType /\ Followed(n, f.n, s.notices, auth, t)
      /\ f.n.postedAt = n.postedAt /\ f.n.lostText = n.lostText
      /\ f.n.lostInGame = (n.lostInGame /\ ~Begins(n, s.notices, auth, t))
  BY <1>1, FollowFacts
<1>3. f.n.current = n.current
  BY <1>2 DEF Followed
<1>4. a = Nothing(m)
  BY <1>3 DEF Frame, Shows
<1>5. a.n = m /\ a.kind = "None" /\ a.text = NoText
  BY <1>4 DEF Nothing
<1> HIDE DEF f, a
<1>6. /\ m \in NotifierType /\ m.posted = NoText
      /\ m.postedAt = f.n.postedAt /\ m.lostText = f.n.lostText /\ m.lostInGame = f.n.lostInGame
      /\ m.current = f.n.current /\ m.authoredGame = f.n.authoredGame /\ m.authoredGames = f.n.authoredGames
      /\ m.authoredStartWarnings = f.n.authoredStartWarnings /\ m.authoredLast = f.n.authoredLast
      /\ m.seenStarts = f.n.seenStarts /\ m.inGame = f.n.inGame /\ m.warningsAtStart = f.n.warningsAtStart
  BY <1>2, NoTextFacts DEF NotifierType
<1> HIDE DEF m
<1>7. Followed(n, m, s.notices, auth, t)
  BY <1>2, <1>6 DEF Followed
<1>8. FrameTypes(n, s, auth, t, a)
  BY <1>2, <1>5, <1>6, <1>7, NoTextFacts DEF FrameTypes, FrameMeets
<1>9. FramePosts(n, a, t)
  BY <1>2, <1>5, <1>6, NoTextFacts DEF FramePosts
<1>10. FrameClears(n, a, t)
  BY <1>5, <1>6 DEF FrameClears
<1>11. FrameTells(n, s, auth, t, a)
  BY DEF FrameTells
<1> QED
  BY <1>8, <1>9, <1>10, <1>11 DEF FrameDone, a

\* What Follow hands to the rest of the frame.
FollowDone(n, s, auth, t, f) ==
  /\ f.n \in NotifierType /\ Followed(n, f.n, s.notices, auth, t) /\ f.n.current = n.current
  /\ n.current \in WholeType /\ Want(n.current, t) \in TextType
  /\ f.n.posted = n.posted /\ f.n.postedAt = n.postedAt /\ f.n.lostText = n.lostText
  /\ n.postedAt \in Nat /\ t \in Nat /\ n.postedAt <= t /\ n.posted \in TextType /\ n.inGame \in BOOLEAN
  /\ f.started = Begins(n, s.notices, auth, t)
  /\ f.n.inGame = NowIn(n, s.notices, auth, t)
  /\ f.n.inGame \in BOOLEAN /\ f.n.lostInGame \in BOOLEAN
  /\ f.ended = ((n.inGame \/ StartedSince(n, s.notices, auth)) /\ ~f.n.inGame)
  /\ f.n.lostInGame = (n.lostInGame /\ ~Begins(n, s.notices, auth, t))
  /\ f.n.lostInGame => f.n.lostText = DescribeNoSession
  /\ n.current.hist.lastWarning # NoText => IsProblem(n.current.hist.lastWarning)

LEMMA FollowMeets ==
  ASSUME NEW n, NEW s, NEW t, NEW auth \in BOOLEAN, FrameMeets(n, s, t)
  PROVE  FollowDone(n, s, auth, t, Follow(n, s.notices, auth, t))
<1>1. /\ n \in NotifierType /\ s.notices \in 0 .. 2 /\ t \in Nat /\ n.postedAt <= t
      /\ n.current.hist.lastWarning # NoText => IsProblem(n.current.hist.lastWarning)
      /\ n.lostInGame => n.lostText = DescribeNoSession
  BY DEF FrameMeets
<1> DEFINE f == Follow(n, s.notices, auth, t)
<1>2. /\ f.n \in NotifierType /\ Followed(n, f.n, s.notices, auth, t)
      /\ f.n.posted = n.posted /\ f.n.postedAt = n.postedAt /\ f.n.lostText = n.lostText
      /\ f.started = Begins(n, s.notices, auth, t)
      /\ f.ended = ((n.inGame \/ StartedSince(n, s.notices, auth)) /\ ~NowIn(n, s.notices, auth, t))
      /\ f.n.lostInGame = (n.lostInGame /\ ~Begins(n, s.notices, auth, t))
  BY <1>1, FollowFacts
<1> HIDE DEF f
<1>3. f.n.current = n.current /\ f.n.inGame = NowIn(n, s.notices, auth, t)
  BY <1>2 DEF Followed
<1>4. n.current \in WholeType /\ n.postedAt \in Nat /\ n.posted \in TextType /\ n.inGame \in BOOLEAN
  BY <1>1 DEF NotifierType
<1>5. f.n.inGame \in BOOLEAN /\ f.n.lostInGame \in BOOLEAN
  BY <1>2 DEF NotifierType
<1>6. Want(n.current, t) \in TextType
  BY <1>1, <1>4, WantFacts
<1> QED
  BY <1>1, <1>2, <1>3, <1>4, <1>5, <1>6 DEF FollowDone, f

\* A frame in a game.
LEMMA FrameInGameDone ==
  ASSUME NEW n, NEW s, NEW t, NEW auth \in BOOLEAN, NEW f, FollowDone(n, s, auth, t, f),
         f.n.inGame
  PROVE  FrameDone(n, s, auth, t, FrameInGame(f, t))
<1> DEFINE g == f.n
           want == Want(n.current, t)
           lost == ~n.current.rec.inSession /\ IsProblem(want)
           m == IF lost THEN [g EXCEPT !.lostInGame = TRUE, !.lostText = want] ELSE g
           down == f.started /\ g.posted # NoText /\ t - g.postedAt < NOTICE_LIFETIME
           a == FrameInGame(f, t)
<1>1. /\ g \in NotifierType /\ Followed(n, g, s.notices, auth, t) /\ g.current = n.current
      /\ want \in TextType /\ n.current \in WholeType
      /\ g.posted = n.posted /\ g.postedAt = n.postedAt
      /\ n.postedAt \in Nat /\ t \in Nat /\ n.postedAt <= t /\ n.posted \in TextType
      /\ f.started = Begins(n, s.notices, auth, t)
      /\ g.inGame = NowIn(n, s.notices, auth, t) /\ g.inGame
      /\ g.lostInGame = (n.lostInGame /\ ~Begins(n, s.notices, auth, t))
      /\ n.inGame \in BOOLEAN
  BY DEF FollowDone
<1>14. g.lostInGame => g.lostText = DescribeNoSession
  BY DEF FollowDone
<1>2. a = IF down THEN [n |-> m, kind |-> "Expire", text |-> n.posted] ELSE Nothing(m)
  BY <1>1 DEF FrameInGame
<1>3. a.n = m /\ a.kind = (IF down THEN "Expire" ELSE "None") /\ a.text = IF down THEN n.posted ELSE NoText
  BY <1>2 DEF Nothing
<1>4. lost => want = DescribeNoSession
  BY <1>1, WantFacts
<1>5. Begins(n, s.notices, auth, t) = ~n.inGame
  BY <1>1 DEF Begins
<1> HIDE DEF g, want, lost, a
<1>6. /\ m \in NotifierType /\ m.posted = g.posted /\ m.postedAt = g.postedAt
      /\ m.current = g.current /\ m.authoredGame = g.authoredGame /\ m.authoredGames = g.authoredGames
      /\ m.authoredStartWarnings = g.authoredStartWarnings /\ m.authoredLast = g.authoredLast
      /\ m.seenStarts = g.seenStarts /\ m.inGame = g.inGame /\ m.warningsAtStart = g.warningsAtStart
  BY <1>1 DEF NotifierType
<1>7. /\ m.lostInGame => m.lostText = DescribeNoSession
      /\ g.lostInGame => m.lostInGame
  BY <1>1, <1>4, <1>14 DEF NotifierType
<1> HIDE DEF m
<1>8. Followed(n, m, s.notices, auth, t)
  BY <1>1, <1>6 DEF Followed
<1>9. FrameTypes(n, s, auth, t, a)
  BY <1>1, <1>3, <1>6, <1>7, <1>8, NoTextFacts DEF FrameTypes
<1>10. FramePosts(n, a, t)
  BY <1>1, <1>3, <1>6 DEF FramePosts
<1>11. FrameClears(n, a, t)
  <2> SUFFICES ASSUME ~down PROVE a.n.posted = NoText \/ n.inGame \/ t - n.postedAt >= NOTICE_LIFETIME
    BY <1>3 DEF FrameClears
  <2>1. ~f.started \/ g.posted = NoText \/ ~(t - n.postedAt < NOTICE_LIFETIME)
    BY <1>1
  <2>2. ~(t - n.postedAt < NOTICE_LIFETIME) => t - n.postedAt >= NOTICE_LIFETIME
    BY <1>1, TimesAssumption
  <2> QED
    BY <1>1, <1>3, <1>5, <1>6, <2>1, <2>2
<1>12. FrameTells(n, s, auth, t, a)
  BY <1>1, <1>3, <1>6 DEF FrameTells
<1> QED
  BY <1>9, <1>10, <1>11, <1>12 DEF FrameDone, a

\* The first frame after a game.
LEMMA FrameAtEndDone ==
  ASSUME NEW n, NEW s, NEW t, NEW auth \in BOOLEAN, NEW f, FollowDone(n, s, auth, t, f),
         ~f.n.inGame, f.ended, Shows(n, s)
  PROVE  FrameDone(n, s, auth, t, FrameAtEnd(f, auth, t))
<1> DEFINE g == f.n
           want == Want(n.current, t)
           summary == Summary(g, want)
           m == [g EXCEPT !.posted = IF want = NoText THEN summary ELSE want,
                          !.postedAt = IF summary = NoText THEN @ ELSE t,
                          !.lostInGame = FALSE, !.afterGame = auth]
           a == FrameAtEnd(f, auth, t)
<1>1. /\ g \in NotifierType /\ Followed(n, g, s.notices, auth, t) /\ g.current = n.current
      /\ want \in TextType /\ n.current \in WholeType
      /\ g.posted = n.posted /\ g.postedAt = n.postedAt
      /\ n.postedAt \in Nat /\ t \in Nat /\ n.postedAt <= t
      /\ ~g.inGame /\ g.lostInGame = (n.lostInGame /\ ~Begins(n, s.notices, auth, t))
  BY DEF FollowDone
<1>15. n.inGame \/ StartedSince(n, s.notices, auth)
  BY DEF FollowDone
<1>2. /\ g.lostInGame => g.lostText = DescribeNoSession
      /\ g.current.hist.lastWarning # NoText => IsProblem(g.current.hist.lastWarning)
  BY DEF FollowDone
<1>3. a = IF summary = NoText THEN Nothing(m) ELSE Post(m, summary)
  BY <1>1 DEF FrameAtEnd
<1>6. want # NoText => want[2] # "during the game"
  BY <1>1, WantFacts DEF Shows
<1> HIDE DEF g, want, a
<1>5. /\ summary \in TextType
      /\ IsProblem(want) => summary = want
      /\ g.lostInGame => IsProblem(summary)
      /\ g.current.hist.warnings # g.warningsAtStart /\ g.current.hist.lastWarning # NoText => IsProblem(summary)
      /\ summary # NoText => \/ summary = want
                             \/ g.current.hist.warnings # g.warningsAtStart
                             \/ summary[3] = "no connection"
  <2>1. g \in NotifierType /\ want \in TextType
    BY <1>1
  <2> QED
    BY <1>2, <2>1, SummaryFacts
<1> HIDE DEF summary
<1>4. a.n = m /\ a.kind = (IF summary = NoText THEN "None" ELSE "Post") /\ a.text = summary
  BY <1>3 DEF Nothing, Post
<1>7. /\ m \in NotifierType /\ m.posted = (IF want = NoText THEN summary ELSE want)
      /\ m.postedAt = (IF summary = NoText THEN g.postedAt ELSE t) /\ ~m.lostInGame
      /\ m.current = g.current /\ m.authoredGame = g.authoredGame /\ m.authoredGames = g.authoredGames
      /\ m.authoredStartWarnings = g.authoredStartWarnings /\ m.authoredLast = g.authoredLast
      /\ m.seenStarts = g.seenStarts /\ m.inGame = g.inGame /\ m.warningsAtStart = g.warningsAtStart
  BY <1>1, <1>5 DEF NotifierType
<1> HIDE DEF m
<1>8. Followed(n, m, s.notices, auth, t)
  BY <1>1, <1>7 DEF Followed
<1>9. FrameTypes(n, s, auth, t, a)
  <2>1. a.n = m /\ m \in NotifierType /\ ~m.inGame /\ ~m.lostInGame /\ m.postedAt <= t
    BY <1>1, <1>4, <1>7
  <2>2. a.kind \in {"None", "Post"} /\ a.text \in TextType
    BY <1>4, <1>5
  <2> QED
    BY <1>8, <1>15, <2>1, <2>2 DEF FrameTypes
<1>14. IsProblem(summary) => summary # NoText
  BY NoTextFacts
<1>10. FramePosts(n, a, t)
  <2>1. g.current.hist.warnings # g.warningsAtStart =>
          n.current.hist.warnings # a.n.warningsAtStart
    BY <1>1, <1>4, <1>7
  <2>2. a.kind = "Post" => a.text = summary /\ summary # NoText /\ ~a.n.inGame /\ a.n.postedAt = t
    BY <1>1, <1>4, <1>7
  <2>3. IsProblem(a.n.posted) => summary = a.n.posted /\ summary # NoText
    BY <1>4, <1>5, <1>7, <1>14
  <2>4. a.kind # "Post" => a.n.postedAt = n.postedAt /\ summary = NoText
    BY <1>1, <1>4, <1>7
  <2>5. summary # NoText /\ summary[2] = "during the game" /\ summary[3] # "no connection" =>
          g.current.hist.warnings # g.warningsAtStart
    BY <1>5, <1>6
  <2> QED
    BY <2>1, <2>2, <2>3, <2>4, <2>5 DEF FramePosts
<1>11. FrameClears(n, a, t)
  BY <1>1, <1>4, <1>7 DEF FrameClears
<1>12. FrameTells(n, s, auth, t, a)
  BY <1>1, <1>4, <1>5, <1>7, NoTextFacts DEF FrameTells, want
<1> QED
  BY <1>9, <1>10, <1>11, <1>12 DEF FrameDone, a

\* A frame outside of games.
LEMMA FrameOutsideDone ==
  ASSUME NEW n, NEW s, NEW t, NEW auth \in BOOLEAN, NEW f, FollowDone(n, s, auth, t, f),
         ~f.n.inGame, ~f.ended, Shows(n, s)
  PROVE  FrameDone(n, s, auth, t, FrameOutside(f.n, t))
<1> DEFINE g == f.n
           want == Want(n.current, t)
           over == [g EXCEPT !.posted = want, !.afterGame = FALSE]
           said == [g EXCEPT !.posted = want, !.postedAt = t, !.afterGame = FALSE]
           a == FrameOutside(g, t)
           old == IsProblem(want) /\ t - g.postedAt >= REFRESH_EVERY
<1>1. /\ g \in NotifierType /\ Followed(n, g, s.notices, auth, t) /\ g.current = n.current
      /\ want \in TextType /\ n.current \in WholeType
      /\ g.posted = n.posted /\ g.postedAt = n.postedAt
      /\ n.postedAt \in Nat /\ t \in Nat /\ n.postedAt <= t
      /\ ~g.inGame /\ g.lostInGame = (n.lostInGame /\ ~Begins(n, s.notices, auth, t))
      /\ ~(n.inGame \/ StartedSince(n, s.notices, auth))
  BY DEF FollowDone
<1>2. g.lostInGame => g.lostText = DescribeNoSession
  BY DEF FollowDone
<1>3. want # NoText => want[2] # "during the game"
  BY <1>1, WantFacts DEF Shows
<1>4. IsFine(want) => ~IsProblem(want)
  BY DEF IsFine, IsProblem
<1>5. a = IF want = NoText THEN Nothing(g)
          ELSE IF g.afterGame /\ IsFine(want)
            THEN Nothing(IF want = g.posted THEN g ELSE over)
          ELSE IF want = g.posted /\ ~old THEN Nothing(g)
          ELSE Post(said, want)
  BY <1>1 DEF FrameOutside
<1> HIDE DEF g, want, a
<1>6. /\ over \in NotifierType /\ over.posted = want
      /\ over.postedAt = g.postedAt /\ over.lostText = g.lostText /\ over.lostInGame = g.lostInGame
      /\ over.current = g.current /\ over.authoredGame = g.authoredGame /\ over.authoredGames = g.authoredGames
      /\ over.authoredStartWarnings = g.authoredStartWarnings /\ over.authoredLast = g.authoredLast
      /\ over.seenStarts = g.seenStarts /\ over.inGame = g.inGame /\ over.warningsAtStart = g.warningsAtStart
  BY <1>1 DEF NotifierType
<1>7. /\ said \in NotifierType /\ said.posted = want
      /\ said.postedAt = t /\ said.lostText = g.lostText /\ said.lostInGame = g.lostInGame
      /\ said.current = g.current /\ said.authoredGame = g.authoredGame /\ said.authoredGames = g.authoredGames
      /\ said.authoredStartWarnings = g.authoredStartWarnings /\ said.authoredLast = g.authoredLast
      /\ said.seenStarts = g.seenStarts /\ said.inGame = g.inGame /\ said.warningsAtStart = g.warningsAtStart
  BY <1>1 DEF NotifierType
<1> HIDE DEF over, said
\* The three ways out.
<1>8. CASE a = Nothing(g) /\ (IsProblem(want) => want = g.posted /\ t - g.postedAt < REFRESH_EVERY)
  <2>1. a.n = g /\ a.kind = "None" /\ a.text = NoText
    BY <1>8 DEF Nothing
  <2>2. FrameTypes(n, s, auth, t, a)
    BY <1>1, <1>2, <2>1, NoTextFacts DEF FrameTypes
  <2>3. FramePosts(n, a, t) /\ FrameClears(n, a, t)
    BY <1>1, <2>1 DEF FramePosts, FrameClears
  <2>4. FrameTells(n, s, auth, t, a)
    BY <1>1, <1>8, <2>1 DEF FrameTells, want
  <2> QED
    BY <2>2, <2>3, <2>4 DEF FrameDone, a, g
<1>9. CASE a = Nothing(over) /\ IsFine(want)
  <2>1. a.n = over /\ a.kind = "None" /\ a.text = NoText
    BY <1>9 DEF Nothing
  <2>2. Followed(n, over, s.notices, auth, t)
    BY <1>1, <1>6 DEF Followed
  <2>3. FrameTypes(n, s, auth, t, a)
    BY <1>1, <1>2, <1>6, <2>1, <2>2, NoTextFacts DEF FrameTypes
  <2>4. FramePosts(n, a, t) /\ FrameClears(n, a, t)
    BY <1>1, <1>4, <1>6, <1>9, <2>1 DEF FramePosts, FrameClears
  <2>5. FrameTells(n, s, auth, t, a)
    BY <1>1, <1>4, <1>9, <2>1 DEF FrameTells, want
  <2> QED
    BY <2>3, <2>4, <2>5 DEF FrameDone, a, g
<1>10. CASE a = Post(said, want) /\ want # NoText
  <2>1. a.n = said /\ a.kind = "Post" /\ a.text = want
    BY <1>10 DEF Post
  <2>2. Followed(n, said, s.notices, auth, t)
    BY <1>1, <1>7 DEF Followed
  <2>3. FrameTypes(n, s, auth, t, a)
    <3>1. a.text \in TextType /\ a.text[2] # "during the game" /\ a.kind = "Post"
      <4>1. want[2] # "during the game"
        BY <1>3, <1>10
      <4> QED
        BY <1>1, <2>1, <4>1
    <3>2. a.n \in NotifierType /\ ~a.n.inGame /\ a.n.postedAt <= t /\ a.n = said
      BY <1>1, <1>7, <2>1
    <3>3. a.n.lostInGame => a.n.lostText = DescribeNoSession
      BY <1>2, <1>7, <2>1
    <3> QED
      BY <2>2, <3>1, <3>2, <3>3 DEF FrameTypes
  <2>4. FramePosts(n, a, t) /\ FrameClears(n, a, t)
    BY <1>1, <1>3, <1>7, <1>10, <2>1 DEF FramePosts, FrameClears
  <2>5. FrameTells(n, s, auth, t, a)
    BY <1>1, <2>1 DEF FrameTells, want
  <2> QED
    BY <2>3, <2>4, <2>5 DEF FrameDone, a, g
<1>11. ~(t - g.postedAt >= REFRESH_EVERY) => t - g.postedAt < REFRESH_EVERY
  BY <1>1, TimesAssumption
<1>12. \/ a = Nothing(g) /\ (IsProblem(want) => want = g.posted /\ t - g.postedAt < REFRESH_EVERY)
       \/ a = Nothing(over) /\ IsFine(want)
       \/ a = Post(said, want) /\ want # NoText
  BY <1>4, <1>5, <1>11, NoTextFacts
<1> QED
  BY <1>8, <1>9, <1>10, <1>12 DEF a, g

\* Every frame.
LEMMA FrameFacts ==
  ASSUME NEW n, NEW s, NEW t, NEW auth \in BOOLEAN, FrameMeets(n, s, t)
  PROVE  FrameDone(n, s, auth, t, Frame(n, s, auth, t))
<1> DEFINE f == Follow(n, s.notices, auth, t)
           a == Frame(n, s, auth, t)
<1>1. FollowDone(n, s, auth, t, f)
  BY FollowMeets
<1>2. CASE ~Shows(n, s)
  BY <1>2, FrameHidden
<1>3. CASE Shows(n, s)
  <2>1. a = IF f.n.inGame THEN FrameInGame(f, t) ELSE IF f.ended THEN FrameAtEnd(f, auth, t) ELSE FrameOutside(f.n, t)
    BY <1>1, <1>3 DEF Frame, Shows, FollowDone
  <2> HIDE DEF f, a
  <2>2. CASE f.n.inGame
    BY <1>1, <2>1, <2>2, FrameInGameDone DEF a
  <2>3. CASE ~f.n.inGame /\ f.ended
    BY <1>1, <1>3, <2>1, <2>3, FrameAtEndDone DEF a
  <2>4. CASE ~f.n.inGame /\ ~f.ended
    BY <1>1, <1>3, <2>1, <2>4, FrameOutsideDone DEF a
  <2> QED
    BY <2>2, <2>3, <2>4
<1> QED
  BY <1>2, <1>3

-----------------------------------------------------------------------------
(* The worker: what a Status does to the history.                          *)

\* A game is in progress, as far as its deferral goes.
Live(h, t) == h.romGame /\ (h.romGameEndsAt = NONE \/ t < h.romGameEndsAt)

\* The counts of a history, and the last [!] it knows.
WarnedLemma(h, w) ==
  /\ w.romGame = h.romGame /\ w.romGames = h.romGames /\ w.romGameEndsAt = h.romGameEndsAt
  /\ w.warningsAtGameStart = h.warningsAtGameStart
  /\ w.warnings \in {h.warnings, h.warnings + 1}
  /\ w.warnings = h.warnings => w.lastWarning = h.lastWarning
  /\ w.warnings # h.warnings => IsProblem(w.lastWarning)

LEMMA WarnedFacts ==
  ASSUME NEW h \in HistoryType, NEW s \in Statuses, h.warnings < MaxStatuses
  PROVE  Warned(h, s) \in HistoryType /\ WarnedLemma(h, Warned(h, s))
<1>1. s \in StatusType
  BY StatusesAssumption
<1>2. CASE s.session # "hidden" /\ Marker(s) = "[!]"
  <2> DEFINE w == [h EXCEPT !.warnings = @ + 1, !.lastWarning = Describe(s)]
  <2>1. Warned(h, s) = w
    BY <1>2 DEF Warned
  <2>2. w \in HistoryType
    <3>1. Describe(s) \in {Describe(q) : q \in Statuses}
      OBVIOUS
    <3>2. h.warnings + 1 \in 0 .. MaxStatuses
      BY TimesAssumption DEF HistoryType
    <3> QED
      BY <3>1, <3>2 DEF HistoryType
  <2>3. /\ w.romGame = h.romGame /\ w.romGames = h.romGames /\ w.romGameEndsAt = h.romGameEndsAt
        /\ w.warningsAtGameStart = h.warningsAtGameStart
        /\ w.warnings = h.warnings + 1 /\ w.lastWarning = Describe(s) /\ h.warnings \in Nat
    BY TimesAssumption DEF HistoryType
  <2> HIDE DEF w
  <2>4. IsProblem(Describe(s))
    BY <1>1, <1>2, DescribeFacts DEF IsProblem
  <2> QED
    BY <2>1, <2>2, <2>3, <2>4 DEF WarnedLemma
<1>3. CASE ~(s.session # "hidden" /\ Marker(s) = "[!]")
  BY <1>3 DEF Warned, WarnedLemma
<1> QED
  BY <1>2, <1>3

LEMMA SettledFacts ==
  ASSUME NEW h \in HistoryType, NEW t \in Nat
  PROVE  /\ Settled(h, t) \in HistoryType
         /\ Settled(h, t).romGames = h.romGames /\ Settled(h, t).warnings = h.warnings
         /\ Settled(h, t).warningsAtGameStart = h.warningsAtGameStart /\ Settled(h, t).lastWarning = h.lastWarning
         /\ Live(h, t) => Settled(h, t).romGame /\ Settled(h, t).romGameEndsAt = h.romGameEndsAt
         /\ Settled(h, t).romGame => Live(h, t)
         /\ Settled(h, t).romGameEndsAt \in {NONE, h.romGameEndsAt}
         /\ Settled(h, t).romGameEndsAt # NONE => t < h.romGameEndsAt
<1>1. h.romGameEndsAt \in Nat /\ NONE \in 0 .. MaxTime + NO_GAME_DEFERRED /\ h.romGame \in BOOLEAN
  BY TimesAssumption DEF HistoryType, NONE
<1>2. CASE h.romGameEndsAt # NONE /\ t >= h.romGameEndsAt
  <2>1. Settled(h, t) = [h EXCEPT !.romGame = FALSE, !.romGameEndsAt = NONE]
    BY <1>2 DEF Settled
  <2>2. ~Live(h, t)
    BY <1>1, <1>2 DEF Live
  <2> QED
    BY <1>1, <2>1, <2>2 DEF HistoryType
<1>3. CASE ~(h.romGameEndsAt # NONE /\ t >= h.romGameEndsAt)
  <2>1. Settled(h, t) = h
    BY <1>3 DEF Settled
  <2>2. h.romGame => Live(h, t)
    BY <1>1, <1>3 DEF Live
  <2>3. h.romGameEndsAt # NONE => t < h.romGameEndsAt
    BY <1>1, <1>3
  <2> QED
    BY <2>1, <2>2, <2>3 DEF Live
<1> QED
  BY <1>2, <1>3

\* What a Status that does not start a game does to one that is in progress.
AfterLemma(h, k, s, before, t, start) ==
  /\ k.warnings = h.warnings /\ k.lastWarning = h.lastWarning
  /\ \/ k.romGames = h.romGames /\ k.warningsAtGameStart = h.warningsAtGameStart
     \/ k.romGames = h.romGames + 1 /\ k.warningsAtGameStart = before /\ s.session = "tracking" /\ ~h.romGame
  /\ s.session = "tracking" => k.romGame /\ (k.romGames = h.romGames => h.romGame)
  /\ s.session # "tracking" => (k.romGame => h.romGame)
  /\ s.session \in {"tracking", "no data"} => k.romGameEndsAt = NONE
  /\ h.romGame /\ (s.session = "none" => t < start + NO_GAME_DEFERRED) => k.romGame
  /\ s.session = "none" /\ h.romGame =>
       IF t < start + NO_GAME_DEFERRED
         THEN k.romGameEndsAt = IF h.romGameEndsAt = NONE THEN start + NO_GAME_DEFERRED ELSE h.romGameEndsAt
         ELSE ~k.romGame /\ k.romGameEndsAt = h.romGameEndsAt
  /\ s.session = "none" /\ ~h.romGame => k.romGameEndsAt = h.romGameEndsAt
  /\ s.session \in {"hidden", "unknown"} => k.romGame = h.romGame /\ k.romGameEndsAt = h.romGameEndsAt

LEMMA AfterStatusFacts ==
  ASSUME NEW h \in HistoryType, NEW s \in StatusType, NEW before \in 0 .. MaxStatuses,
         NEW t \in 1 .. MaxTime, NEW start \in 0 .. t, h.romGames < MaxStatuses
  PROVE  AfterStatus(h, s, before, t, start) \in HistoryType
         /\ AfterLemma(h, AfterStatus(h, s, before, t, start), s, before, t, start)
<1> DEFINE k == AfterStatus(h, s, before, t, start)
<1>1. /\ h.romGame \in BOOLEAN /\ h.romGames \in Nat /\ MaxStatuses \in Nat
      /\ 0 \in 0 .. MaxTime + NO_GAME_DEFERRED
      /\ start + NO_GAME_DEFERRED \in 0 .. MaxTime + NO_GAME_DEFERRED
      /\ h.romGames + 1 \in 0 .. MaxStatuses /\ h.romGames + 1 # h.romGames
  BY TimesAssumption DEF HistoryType
<1>2. s.session \in SessionStates
  BY DEF StatusType
<1>3. CASE s.session = "tracking"
  <2>1. k = [h EXCEPT !.romGameEndsAt = NONE, !.romGame = TRUE,
                      !.romGames = IF h.romGame THEN @ ELSE @ + 1,
                      !.warningsAtGameStart = IF h.romGame THEN @ ELSE before]
    BY <1>3 DEF AfterStatus
  <2> HIDE DEF k
  <2>2. k \in HistoryType
    BY <1>1, <2>1 DEF HistoryType, NONE
  <2>3. /\ k.warnings = h.warnings /\ k.lastWarning = h.lastWarning /\ k.romGame /\ k.romGameEndsAt = NONE
        /\ k.romGames = (IF h.romGame THEN h.romGames ELSE h.romGames + 1)
        /\ k.warningsAtGameStart = (IF h.romGame THEN h.warningsAtGameStart ELSE before)
    BY <1>1, <2>1 DEF HistoryType
  <2>4. AfterLemma(h, k, s, before, t, start)
    BY <1>1, <1>3, <2>3 DEF AfterLemma
  <2> QED
    BY <2>2, <2>4 DEF k
<1>4. CASE s.session = "no data"
  <2>1. k = [h EXCEPT !.romGameEndsAt = NONE]
    BY <1>4 DEF AfterStatus
  <2> HIDE DEF k
  <2>2. k \in HistoryType
    BY <1>1, <2>1 DEF HistoryType, NONE
  <2>3. /\ k.warnings = h.warnings /\ k.lastWarning = h.lastWarning /\ k.romGame = h.romGame
        /\ k.romGameEndsAt = NONE /\ k.romGames = h.romGames /\ k.warningsAtGameStart = h.warningsAtGameStart
    BY <1>1, <2>1 DEF HistoryType
  <2>4. AfterLemma(h, k, s, before, t, start)
    BY <1>1, <1>4, <2>3 DEF AfterLemma
  <2> QED
    BY <2>2, <2>4 DEF k
<1>5. CASE s.session = "none" /\ h.romGame /\ t < start + NO_GAME_DEFERRED
  <2>1. k = [h EXCEPT !.romGameEndsAt = IF @ = NONE THEN start + NO_GAME_DEFERRED ELSE @]
    BY <1>5 DEF AfterStatus
  <2> HIDE DEF k
  <2>2. k \in HistoryType
    BY <1>1, <2>1 DEF HistoryType, NONE
  <2>3. /\ k.warnings = h.warnings /\ k.lastWarning = h.lastWarning /\ k.romGame = h.romGame
        /\ k.romGameEndsAt = (IF h.romGameEndsAt = NONE THEN start + NO_GAME_DEFERRED ELSE h.romGameEndsAt)
        /\ k.romGames = h.romGames /\ k.warningsAtGameStart = h.warningsAtGameStart
    BY <1>1, <2>1 DEF HistoryType
  <2>4. AfterLemma(h, k, s, before, t, start)
    BY <1>1, <1>5, <2>3 DEF AfterLemma
  <2> QED
    BY <2>2, <2>4 DEF k
<1>6. CASE s.session = "none" /\ h.romGame /\ ~(t < start + NO_GAME_DEFERRED)
  <2>1. k = [h EXCEPT !.romGame = FALSE]
    BY <1>6 DEF AfterStatus
  <2> HIDE DEF k
  <2>2. k \in HistoryType
    BY <1>1, <2>1 DEF HistoryType, NONE
  <2>3. /\ k.warnings = h.warnings /\ k.lastWarning = h.lastWarning /\ ~k.romGame
        /\ k.romGameEndsAt = h.romGameEndsAt
        /\ k.romGames = h.romGames /\ k.warningsAtGameStart = h.warningsAtGameStart
    BY <1>1, <2>1 DEF HistoryType
  <2>4. AfterLemma(h, k, s, before, t, start)
    BY <1>1, <1>6, <2>3 DEF AfterLemma
  <2> QED
    BY <2>2, <2>4 DEF k
<1>7. CASE s.session \in {"hidden", "unknown"} \/ (s.session = "none" /\ ~h.romGame)
  <2>1. k = h
    BY <1>7 DEF AfterStatus
  <2> HIDE DEF k
  <2>2. AfterLemma(h, k, s, before, t, start)
    BY <1>1, <1>7, <2>1 DEF AfterLemma
  <2> QED
    BY <2>1, <2>2 DEF k
<1> HIDE DEF k
<1>8. \/ s.session = "tracking" \/ s.session = "no data" \/ s.session \in {"hidden", "unknown"}
      \/ s.session = "none"
  BY <1>2 DEF SessionStates
<1>9. CASE s.session = "none"
  BY <1>5, <1>6, <1>7, <1>9
<1>10. CASE s.session \in {"hidden", "unknown"}
  BY <1>7, <1>10
<1> QED
  BY <1>3, <1>4, <1>8, <1>9, <1>10

\* A game that ends later is one that the daemon says is over in this session.
Deferred(h, start) == h.romGameEndsAt # NONE => h.romGame /\ h.romGameEndsAt = start + NO_GAME_DEFERRED

\* What FollowGame makes of a history.
FollowLemma(h, k, s, t, start) ==
  /\ k \in HistoryType /\ Deferred(k, start)
  /\ k.warnings \in {h.warnings, h.warnings + 1}
  /\ k.warnings = h.warnings => k.lastWarning = h.lastWarning
  /\ k.warnings # h.warnings => IsProblem(k.lastWarning)
  /\ k.romGames # h.romGames => k.romGames = h.romGames + 1 /\ k.warningsAtGameStart = h.warnings
  /\ k.romGames = h.romGames =>
       /\ k.warningsAtGameStart = h.warningsAtGameStart
       /\ k.romGame => Live(h, t)
  /\ s.session = "tracking" => k.romGame
  /\ s.session \in {"tracking", "no data"} => k.romGameEndsAt = NONE
  /\ s.session = "none" /\ k.romGame => k.romGameEndsAt # NONE
  /\ s.session \in {"hidden", "unknown"} /\ k.romGame => h.romGame /\ k.romGameEndsAt = h.romGameEndsAt
  /\ k.romGameEndsAt # NONE => s.session = "none" \/ h.romGameEndsAt # NONE
  /\ Live(h, t) /\ (s.session = "none" => t < start + NO_GAME_DEFERRED) => Live(k, t)

LEMMA FollowGameFacts ==
  ASSUME NEW h \in HistoryType, NEW s \in Statuses, NEW t \in 1 .. MaxTime, NEW start \in 0 .. t,
         h.romGames < MaxStatuses, h.warnings < MaxStatuses, Deferred(h, start)
  PROVE  FollowLemma(h, FollowGame(h, s, t, start), s, t, start)
<1> DEFINE w == Warned(h, s)
           v == Settled(w, t)
           k == AfterStatus(v, s, h.warnings, t, start)
<1>1. /\ s \in StatusType /\ h.warnings \in 0 .. MaxStatuses /\ h.romGames \in Nat /\ h.romGameEndsAt \in Nat
      /\ t \in Nat /\ start \in Nat /\ NO_GAME_DEFERRED \in Nat \ {0} /\ h.romGame \in BOOLEAN
  BY StatusesAssumption, TimesAssumption DEF HistoryType
<1>2. w \in HistoryType /\ WarnedLemma(h, w)
  BY WarnedFacts
<1>3. FollowGame(h, s, t, start) = k
  BY DEF FollowGame
<1> HIDE DEF w
<1>4. /\ v \in HistoryType
      /\ v.romGames = w.romGames /\ v.warnings = w.warnings
      /\ v.warningsAtGameStart = w.warningsAtGameStart /\ v.lastWarning = w.lastWarning
      /\ Live(w, t) => v.romGame /\ v.romGameEndsAt = w.romGameEndsAt
      /\ v.romGame => Live(w, t)
      /\ v.romGameEndsAt \in {NONE, w.romGameEndsAt}
      /\ v.romGameEndsAt # NONE => t < w.romGameEndsAt
  BY <1>1, <1>2, SettledFacts
<1> HIDE DEF v
<1>5. v.romGames < MaxStatuses
  BY <1>2, <1>4 DEF WarnedLemma
<1>6. k \in HistoryType /\ AfterLemma(v, k, s, h.warnings, t, start)
  BY <1>1, <1>4, <1>5, AfterStatusFacts
<1> HIDE DEF k
<1>7. Live(w, t) = Live(h, t)
  BY <1>2 DEF Live, WarnedLemma
\* The counts.
<1>8. /\ k.warnings \in {h.warnings, h.warnings + 1}
      /\ k.warnings = h.warnings => k.lastWarning = h.lastWarning
      /\ k.warnings # h.warnings => IsProblem(k.lastWarning)
  BY <1>2, <1>4, <1>6 DEF WarnedLemma, AfterLemma
<1>9. \/ k.romGames = h.romGames /\ k.warningsAtGameStart = h.warningsAtGameStart
      \/ k.romGames = h.romGames + 1 /\ k.warningsAtGameStart = h.warnings /\ s.session = "tracking" /\ ~v.romGame
  BY <1>2, <1>4, <1>6 DEF WarnedLemma, AfterLemma
<1>10. k.romGames = h.romGames => (k.romGame => v.romGame)
  <2>1. v.romGames = h.romGames
    BY <1>2, <1>4 DEF WarnedLemma
  <2> QED
    BY <1>6, <2>1 DEF AfterLemma
\* The game.
<1>11. /\ v.romGame \in BOOLEAN /\ k.romGame \in BOOLEAN /\ v.romGameEndsAt \in Nat /\ k.romGameEndsAt \in Nat
  BY <1>4, <1>6 DEF HistoryType
<1>12. /\ v.romGame = Live(h, t)
       /\ v.romGame => v.romGameEndsAt = h.romGameEndsAt
       /\ v.romGameEndsAt # NONE => v.romGame
  <2>1. w.romGameEndsAt = h.romGameEndsAt /\ w.romGame = h.romGame
    BY <1>2 DEF WarnedLemma
  <2>2. Live(h, t) \in BOOLEAN
    BY <1>1 DEF Live
  <2>3. v.romGameEndsAt # NONE => Live(h, t)
    BY <1>1, <1>4, <2>1 DEF Live, Deferred
  <2> QED
    BY <1>4, <1>7, <1>11, <2>1, <2>2, <2>3
<1>13. /\ s.session = "tracking" => k.romGame
       /\ s.session \in {"tracking", "no data"} => k.romGameEndsAt = NONE
       /\ s.session \in {"hidden", "unknown"} => k.romGame = v.romGame /\ k.romGameEndsAt = v.romGameEndsAt
  BY <1>6 DEF AfterLemma
<1>14. s.session = "none" =>
         /\ k.romGame => k.romGameEndsAt = start + NO_GAME_DEFERRED /\ v.romGame /\ t < start + NO_GAME_DEFERRED
         /\ ~k.romGame => k.romGameEndsAt = NONE
         /\ v.romGame /\ t < start + NO_GAME_DEFERRED => k.romGame
  <2> SUFFICES ASSUME s.session = "none"
               PROVE  /\ k.romGame => k.romGameEndsAt = start + NO_GAME_DEFERRED /\ v.romGame /\ t < start + NO_GAME_DEFERRED
                      /\ ~k.romGame => k.romGameEndsAt = NONE
                      /\ v.romGame /\ t < start + NO_GAME_DEFERRED => k.romGame
    OBVIOUS
  <2>1. /\ k.romGame => v.romGame
        /\ v.romGame /\ t < start + NO_GAME_DEFERRED => k.romGame
        /\ v.romGame =>
            IF t < start + NO_GAME_DEFERRED
              THEN k.romGameEndsAt = IF v.romGameEndsAt = NONE THEN start + NO_GAME_DEFERRED ELSE v.romGameEndsAt
              ELSE ~k.romGame /\ k.romGameEndsAt = v.romGameEndsAt
        /\ ~v.romGame => k.romGameEndsAt = v.romGameEndsAt
    BY <1>6 DEF AfterLemma
  <2>2. v.romGameEndsAt # NONE => v.romGameEndsAt = start + NO_GAME_DEFERRED /\ t < start + NO_GAME_DEFERRED
    BY <1>2, <1>4, <1>12 DEF Deferred, WarnedLemma
  <2>3. CASE ~v.romGame
    BY <1>12, <2>1, <2>3
  <2>4. CASE v.romGame /\ t < start + NO_GAME_DEFERRED
    BY <2>1, <2>2, <2>4
  <2>5. CASE v.romGame /\ ~(t < start + NO_GAME_DEFERRED)
    BY <2>1, <2>2, <2>5
  <2> QED
    BY <2>3, <2>4, <2>5
<1>15. s.session \in {"tracking", "no data", "hidden", "unknown", "none"}
  BY <1>1 DEF StatusType, SessionStates
<1>16. Deferred(k, start)
  <2>1. CASE s.session \in {"tracking", "no data"}
    BY <1>13, <2>1 DEF Deferred
  <2>2. CASE s.session \in {"hidden", "unknown"}
    BY <1>12, <1>13, <2>2 DEF Deferred
  <2>3. CASE s.session = "none"
    BY <1>14, <2>3 DEF Deferred
  <2> QED
    BY <1>15, <2>1, <2>2, <2>3
<1>17. Live(h, t) /\ (s.session = "none" => t < start + NO_GAME_DEFERRED) => Live(k, t)
  <2> SUFFICES ASSUME Live(h, t), s.session = "none" => t < start + NO_GAME_DEFERRED PROVE Live(k, t)
    OBVIOUS
  <2>1. v.romGame /\ k.romGame
    BY <1>6, <1>12 DEF AfterLemma
  <2>2. CASE s.session \in {"tracking", "no data"}
    BY <1>13, <2>1, <2>2 DEF Live
  <2>3. CASE s.session \in {"hidden", "unknown"}
    BY <1>12, <1>13, <2>1, <2>3 DEF Live
  <2>4. CASE s.session = "none"
    BY <1>14, <2>1, <2>4 DEF Live
  <2> QED
    BY <1>15, <2>2, <2>3, <2>4
<1>18. s.session = "none" /\ k.romGame => k.romGameEndsAt # NONE
  <2>1. start + NO_GAME_DEFERRED # 0
    BY <1>1
  <2> QED
    BY <1>14, <2>1 DEF NONE
<1>19. /\ s.session \in {"hidden", "unknown"} /\ k.romGame => h.romGame /\ k.romGameEndsAt = h.romGameEndsAt
       /\ k.romGameEndsAt # NONE => s.session = "none" \/ h.romGameEndsAt # NONE
  <2>1. v.romGame => h.romGame
    BY <1>12 DEF Live
  <2>2. v.romGameEndsAt # NONE => h.romGameEndsAt # NONE
    BY <1>12
  <2> QED
    BY <1>12, <1>13, <1>15, <2>1, <2>2
<1>20. k.romGames = h.romGames => (k.romGame => Live(h, t))
  BY <1>10, <1>12
<1>21. k.romGames # h.romGames => k.romGames = h.romGames + 1 /\ k.warningsAtGameStart = h.warnings
  BY <1>9
<1>22. k.romGames = h.romGames => k.warningsAtGameStart = h.warningsAtGameStart
  BY <1>1, <1>9
<1> QED
  BY <1>3, <1>6, <1>8, <1>13, <1>16, <1>17, <1>18, <1>19, <1>20, <1>21, <1>22 DEF FollowLemma

-----------------------------------------------------------------------------
(* The notifier at a table's start and end, and at a game's.               *)

\* What a table's end leaves of the notifier; a game's start or end changes less.
KeptFields(n, m) ==
  /\ m.postedAt = n.postedAt /\ m.authoredLast = n.authoredLast /\ m.seenStarts = n.seenStarts
  /\ m.warningsAtStart = n.warningsAtStart /\ m.lostText = n.lostText

LEMMA TableEndedFacts ==
  ASSUME NEW n \in NotifierType
  PROVE  /\ TableEnded(n) \in NotifierType /\ KeptFields(n, TableEnded(n))
         /\ ~TableEnded(n).inGame /\ ~TableEnded(n).authoredGame /\ ~TableEnded(n).lostInGame
         /\ TableEnded(n).posted = n.posted /\ TableEnded(n).current = GameForgotten(n.current)
         /\ TableEnded(n).authoredGames = n.authoredGames
         /\ TableEnded(n).authoredStartWarnings = n.authoredStartWarnings
<1> DEFINE m == TableEnded(n)
<1>1. n.current \in WholeType
  BY DEF NotifierType
<1>2. 0 \in 0 .. MaxTime + NO_GAME_DEFERRED
  BY TimesAssumption
<1>3. GameForgotten(n.current) \in WholeType
  BY <1>1, <1>2 DEF GameForgotten, WholeType, HistoryType, NONE
<1>4. m = [n EXCEPT !.inGame = FALSE, !.authoredGame = FALSE, !.lostInGame = FALSE, !.afterGame = FALSE,
                    !.current = GameForgotten(n.current)]
  BY <1>1 DEF TableEnded, GameForgotten, NotifierType, WholeType
<1> HIDE DEF m
<1>5. m \in NotifierType
  BY <1>3, <1>4 DEF NotifierType
<1>6. /\ KeptFields(n, m) /\ ~m.inGame /\ ~m.authoredGame /\ ~m.lostInGame
      /\ m.posted = n.posted /\ m.current = GameForgotten(n.current) /\ m.authoredGames = n.authoredGames
      /\ m.authoredStartWarnings = n.authoredStartWarnings
  BY <1>3, <1>4 DEF NotifierType, KeptFields
<1> QED
  BY <1>5, <1>6 DEF m

LEMMA NewTableFacts ==
  ASSUME NEW n \in NotifierType
  PROVE  /\ NewTable(n) \in NotifierType /\ KeptFields(n, NewTable(n))
         /\ ~NewTable(n).inGame /\ ~NewTable(n).authoredGame /\ ~NewTable(n).lostInGame
         /\ NewTable(n).posted = NoText /\ NewTable(n).current = GameForgotten(n.current)
         /\ NewTable(n).authoredGames = n.authoredGames
         /\ NewTable(n).authoredStartWarnings = n.authoredStartWarnings
<1> DEFINE p == [n EXCEPT !.posted = NoText]
<1>1. /\ p \in NotifierType /\ KeptFields(n, p) /\ p.posted = NoText /\ p.current = n.current
      /\ p.authoredGames = n.authoredGames /\ p.authoredStartWarnings = n.authoredStartWarnings
  BY NoTextFacts DEF NotifierType, KeptFields
<1>2. NewTable(n) = TableEnded(p)
  BY DEF NewTable
<1> HIDE DEF p
<1> QED
  BY <1>1, <1>2, TableEndedFacts DEF KeptFields

LEMMA GameStartedFacts ==
  ASSUME NEW n \in NotifierType, NEW w \in 0 .. MaxStatuses
  PROVE  /\ GameStarted(n, w) \in NotifierType /\ KeptFields(n, GameStarted(n, w))
         /\ GameStarted(n, w).inGame = n.inGame /\ GameStarted(n, w).authoredGame
         /\ GameStarted(n, w).lostInGame = n.lostInGame /\ GameStarted(n, w).posted = n.posted
         /\ GameStarted(n, w).current = n.current /\ GameStarted(n, w).authoredGames = n.authoredGames + 1
         /\ GameStarted(n, w).authoredStartWarnings = w
<1> DEFINE m == GameStarted(n, w)
           games == n.authoredGames + 1
<1>1. games \in Nat
  BY DEF NotifierType
<1>2. m = [n EXCEPT !.authoredGame = TRUE, !.authoredGames = games, !.authoredStartWarnings = w]
  BY DEF GameStarted
<1> HIDE DEF m, games
<1>3. m \in NotifierType
  BY <1>1, <1>2 DEF NotifierType
<1>4. /\ KeptFields(n, m) /\ m.inGame = n.inGame /\ m.authoredGame /\ m.lostInGame = n.lostInGame
      /\ m.posted = n.posted /\ m.current = n.current /\ m.authoredGames = games
      /\ m.authoredStartWarnings = w
  BY <1>1, <1>2 DEF NotifierType, KeptFields
<1> QED
  BY <1>3, <1>4 DEF m, games

LEMMA GameEndedFacts ==
  ASSUME NEW n \in NotifierType
  PROVE  /\ GameEnded(n) \in NotifierType /\ KeptFields(n, GameEnded(n))
         /\ GameEnded(n).inGame = n.inGame /\ ~GameEnded(n).authoredGame
         /\ GameEnded(n).lostInGame = n.lostInGame /\ GameEnded(n).posted = n.posted
         /\ GameEnded(n).current = n.current /\ GameEnded(n).authoredGames = n.authoredGames
         /\ GameEnded(n).authoredStartWarnings = n.authoredStartWarnings
  BY DEF GameEnded, NotifierType, KeptFields

\* A forgotten game stays forgotten, and the rest of the record stays.
LEMMA GameForgottenFacts ==
  ASSUME NEW c \in WholeType
  PROVE  /\ GameForgotten(c) \in WholeType /\ GameForgotten(GameForgotten(c)) = GameForgotten(c)
         /\ GameForgotten(c).rec = c.rec /\ ~GameForgotten(c).hist.romGame
         /\ GameForgotten(c).hist.romGames = c.hist.romGames /\ GameForgotten(c).hist.warnings = c.hist.warnings
         /\ GameForgotten(c).hist.lastWarning = c.hist.lastWarning
         /\ GameForgotten(c).hist.warningsAtGameStart = c.hist.warningsAtGameStart
<1>1. 0 \in 0 .. MaxTime + NO_GAME_DEFERRED
  BY TimesAssumption
<1> QED
  BY <1>1 DEF GameForgotten, WholeType, HistoryType, NONE

-----------------------------------------------------------------------------
(* Every step preserves the invariant.                                     *)

\* A game in progress is a live one, and the daemon is not gone for long.
LEMMA InProgress ==
  ASSUME NEW r, NEW h, NEW t
  PROVE  RomGameInProgress(r, h, t) <=> Live(h, t) /\ (r.inSession \/ t - r.since < ROM_GAME_LOST_AFTER)
  BY DEF RomGameInProgress, Live

\* The constants, one by one.
LEMMA Times ==
  /\ NO_SESSION_AFTER \in Nat \ {0} /\ REFRESH_EVERY \in Nat \ {0} /\ NOTICE_LIFETIME \in Nat \ {0}
  /\ ROM_GAME_LOST_AFTER \in Nat \ {0} /\ NO_GAME_DEFERRED \in Nat \ {0} /\ MaxTime \in Nat \ {0}
  /\ MaxStatuses \in Nat /\ MaxSessions \in Nat /\ MaxTables \in Nat /\ MaxGames \in Nat
  /\ 0 \in 0 .. MaxTime + NO_GAME_DEFERRED /\ 0 \in 0 .. MaxTime /\ 0 \in 0 .. MaxStatuses
  BY TimesAssumption

LEMMA Transitive ==
  ASSUME NEW a \in Nat, NEW b \in Nat, NEW c \in Nat, a <= b, b <= c
  PROVE  a <= c
  OBVIOUS

\* What the types say of the numbers.
LEMMA NumbersTyped ==
  ASSUME TypeInv
  PROVE  /\ now \in Nat /\ now >= 1 /\ table \in Nat /\ table >= 1
         /\ sessionStart \in Nat /\ sessionStart <= now /\ declared \in Nat /\ historyTable \in Nat
         /\ historyTable <= table /\ declared <= table
         /\ record \in RecordType /\ record.since \in Nat /\ record.inSession \in BOOLEAN
         /\ history \in HistoryType /\ history.romGames \in Nat /\ history.warnings \in Nat
         /\ history.warningsAtGameStart \in Nat /\ history.romGameEndsAt \in Nat /\ history.romGame \in BOOLEAN
         /\ counts.statuses \in Nat /\ counts.sessions \in Nat /\ counts.games \in Nat
         /\ nf.postedAt \in Nat /\ nf.authoredGames \in Nat /\ nf.seenStarts \in Nat
         /\ nf.authoredStartWarnings \in Nat /\ nf.warningsAtStart \in Nat
         /\ gameFrom[TRUE] \in Nat /\ gameFrom[FALSE] \in Nat /\ screen.at \in Nat
<1>1. /\ now \in Nat /\ now >= 1 /\ table \in Nat /\ table >= 1
  BY Times DEF TypeInv, ApiTypes
<1>2. /\ sessionStart \in Nat /\ sessionStart <= now /\ declared \in Nat /\ historyTable \in Nat
      /\ historyTable <= table /\ declared <= table
  <2>1. sessionStart \in 0 .. now /\ declared \in 0 .. table /\ historyTable \in 0 .. table
    BY DEF TypeInv, WorkerTypes
  <2> QED
    BY <1>1, <2>1
<1>3. record \in RecordType /\ record.since \in Nat /\ record.inSession \in BOOLEAN
  <2>1. record \in RecordType
    BY DEF TypeInv, WorkerTypes
  <2> QED
    BY <2>1, Times DEF RecordType
<1>4. /\ history \in HistoryType /\ history.romGames \in Nat /\ history.warnings \in Nat
      /\ history.warningsAtGameStart \in Nat /\ history.romGameEndsAt \in Nat /\ history.romGame \in BOOLEAN
  <2>1. history \in HistoryType
    BY DEF TypeInv, WorkerTypes
  <2> QED
    BY <2>1, Times DEF HistoryType
<1>5. counts.statuses \in Nat /\ counts.sessions \in Nat /\ counts.games \in Nat
  <2>1. counts \in [statuses : 0 .. MaxStatuses, sessions : 0 .. MaxSessions, games : 0 .. MaxGames]
    BY DEF TypeInv, WorkerTypes
  <2> QED
    BY <2>1, Times
<1>6. /\ nf.postedAt \in Nat /\ nf.authoredGames \in Nat /\ nf.seenStarts \in Nat
      /\ nf.authoredStartWarnings \in Nat /\ nf.warningsAtStart \in Nat
  BY Times DEF TypeInv, ApiTypes, NotifierType
<1>7. gameFrom[TRUE] \in Nat /\ gameFrom[FALSE] \in Nat /\ screen.at \in Nat
  <2>1. /\ gameFrom \in [BOOLEAN -> 0 .. MaxStatuses]
        /\ screen \in [text : TextType, at : Nat, up : BOOLEAN, kept : BOOLEAN]
    BY DEF TypeInv, ApiTypes
  <2>2. gameFrom[TRUE] \in 0 .. MaxStatuses /\ gameFrom[FALSE] \in 0 .. MaxStatuses
    BY <2>1
  <2>3. screen.at \in Nat
    BY <2>1
  <2>4. 0 .. MaxStatuses \subseteq Nat
    BY Times
  <2> QED
    BY <2>2, <2>3, <2>4
<1> QED
  BY <1>1, <1>2, <1>3, <1>4, <1>5, <1>6, <1>7

LEMMA InitInv == Init => IInv
<1> SUFFICES ASSUME Init PROVE IInv
  OBVIOUS
<1>2. OutOfSession(1) \in RecordType
  BY Times DEF OutOfSession, RecordType
<1>3. NoHistory \in HistoryType
  BY Times DEF NoHistory, HistoryType, NONE
<1>4. /\ NoHistory.romGame = FALSE /\ NoHistory.romGames = 0 /\ NoHistory.romGameEndsAt = NONE
      /\ NoHistory.warnings = 0 /\ NoHistory.lastWarning = NoText /\ NoHistory.warningsAtGameStart = 0
  BY DEF NoHistory
<1>5. OutOfSession(1).since = 1 /\ ~OutOfSession(1).inSession
  BY DEF OutOfSession
<1>6. posted = Whole(record, history) /\ posted \in WholeType
      /\ posted.rec = record /\ posted.hist = history
  BY <1>2, <1>3 DEF Init, Whole, WholeType
<1>7. nf = Notifier(1) /\ Notifier(1).current = posted
  BY DEF Init, Notifier
<1>8. Notifier(1) \in NotifierType
  BY Times, <1>6, <1>7, NoTextFacts DEF Notifier, NotifierType
<1>9. TypeInv
  <2>1. WorkerTypes
    <3>1. record \in RecordType /\ history \in HistoryType /\ unseen \in BOOLEAN
      BY <1>2, <1>3 DEF Init
    <3>2. sessionStart \in 0 .. now /\ declared \in 0 .. table /\ historyTable \in 0 .. table
      BY DEF Init, NONE
    <3>3. counts \in [statuses : 0 .. MaxStatuses, sessions : 0 .. MaxSessions, games : 0 .. MaxGames]
      BY Times DEF Init
    <3> QED
      BY <1>6, <3>1, <3>2, <3>3 DEF Init, WorkerTypes
  <2>2. /\ now \in 1 .. MaxTime /\ table \in 1 .. MaxTables + 1 /\ setting \in Settings
        /\ running \in BOOLEAN /\ authored \in BOOLEAN /\ running
        /\ playing \in BOOLEAN /\ aware \in BOOLEAN /\ excused \in BOOLEAN /\ trouble \in BOOLEAN
        /\ gameFrom \in [BOOLEAN -> 0 .. MaxStatuses]
    <3>1. now \in 1 .. MaxTime /\ table \in 1 .. MaxTables + 1
      BY Times DEF Init
    <3>2. authored \in BOOLEAN
      BY StatusesAssumption DEF Init
    <3>3. gameFrom \in [BOOLEAN -> 0 .. MaxStatuses]
      BY Times DEF Init
    <3> QED
      BY <3>1, <3>2, <3>3 DEF Init
  <2>3. screen \in [text : TextType, at : Nat, up : BOOLEAN, kept : BOOLEAN] /\ screen.at <= now
    BY NoTextFacts DEF Init
  <2>4. nf.postedAt <= now /\ nf.authoredGames <= counts.games
    BY DEF Init, Notifier
  <2> QED
    BY <1>7, <1>8, <2>1, <2>2, <2>3, <2>4 DEF TypeInv, ApiTypes
<1>10. HistoryInv
  BY <1>4, <1>5, <1>6 DEF Init, HistoryInv, NONE
<1>11. SeenInv
  BY <1>7 DEF SeenInv
<1>12. PlayInv
  BY DEF PlayInv, GameKept, Init
<1>13. ScreenInv
  <2>1. nf.posted = NoText /\ ~nf.inGame
    BY <1>7 DEF Notifier
  <2> QED
    BY <2>1, NoTextFacts DEF ScreenInv, Init
<1>14. CountInv
  BY <1>4, <1>7 DEF CountInv, Notifier, Init
<1>15. StartInv
  <2>1. ~nf.authoredGame
    BY <1>7 DEF Notifier
  <2>2. ~RomGameInProgress(record, history, now)
    BY <1>4 DEF RomGameInProgress, Init
  <2> QED
    BY <2>1, <2>2 DEF StartInv
<1>16. TroubleInv
  BY DEF TroubleInv, Init
<1> QED
  BY <1>9, <1>10, <1>11, <1>12, <1>13, <1>14, <1>15, <1>16 DEF IInv

LEMMA HandshakeInv == IInv /\ Handshake => IInv'
<1> SUFFICES ASSUME IInv, Handshake PROVE IInv'
  OBVIOUS
<1> USE DEF IInv
<1> DEFINE k == HistoryAtHandshake(history, record, now)
<1>1. /\ ~record.inSession /\ sessionStart' = now /\ history' = k /\ declared' = NONE
      /\ posted' = Whole(record', history') /\ unseen' = TRUE /\ word' = "silent"
      /\ counts.sessions < MaxSessions /\ counts' = [counts EXCEPT !.sessions = @ + 1]
      /\ UNCHANGED <<now, historyTable, tableVars, apiVars, playing, aware, excused, trouble, gameFrom, screen>>
  BY DEF Handshake, PostStatus
<1>2. record' \in RecordType /\ record'.inSession /\ record'.since = 0
  <2>1. record' = [OutOfSession(NONE) EXCEPT !.inSession = TRUE]
    BY DEF Handshake
  <2>2. OutOfSession(NONE) \in RecordType /\ OutOfSession(NONE).since = 0
    BY Times DEF OutOfSession, RecordType, NONE
  <2> QED
    BY <2>1, <2>2 DEF RecordType
<1>3. /\ history \in HistoryType /\ now \in Nat /\ now >= 1 /\ record \in RecordType
      /\ 0 \in 0 .. MaxTime + NO_GAME_DEFERRED
  BY Times, NumbersTyped
<1>4. /\ k \in HistoryType /\ k.romGames = history.romGames /\ k.warnings = history.warnings
      /\ k.lastWarning = history.lastWarning /\ k.warningsAtGameStart = history.warningsAtGameStart
      /\ k.romGameEndsAt = NONE
      /\ k.romGame => RomGameInProgress(record, history, now)
      /\ RomGameInProgress(record, history, now) => k.romGame
  BY <1>3 DEF HistoryAtHandshake, HistoryType, RomGameInProgress, NONE
<1> HIDE DEF k
<1>5. history'.romGame => history.romGame
  BY <1>1, <1>4 DEF RomGameInProgress
<1>6. posted' \in WholeType
  BY <1>1, <1>2, <1>4 DEF Whole, WholeType
<1>7. TypeInv'
  <2>1. counts' \in [statuses : 0 .. MaxStatuses, sessions : 0 .. MaxSessions, games : 0 .. MaxGames]
        /\ counts'.games = counts.games
    <3>1. counts \in [statuses : 0 .. MaxStatuses, sessions : 0 .. MaxSessions, games : 0 .. MaxGames]
      BY DEF TypeInv, WorkerTypes
    <3> QED
      BY <1>1, <3>1, Times
  <2>2. sessionStart' \in 0 .. now' /\ declared' \in 0 .. table' /\ historyTable' \in 0 .. table'
    BY <1>1, NumbersTyped DEF NONE, tableVars
  <2>3. WorkerTypes'
    BY <1>1, <1>2, <1>4, <1>6, <2>1, <2>2 DEF WorkerTypes
  <2>4. ApiTypes'
    BY <1>1, <2>1 DEF TypeInv, ApiTypes, tableVars, apiVars
  <2> QED
    BY <2>3, <2>4 DEF TypeInv
<1>8. HistoryInv'
  <2>1. counts'.statuses = counts.statuses
    BY <1>1 DEF TypeInv, WorkerTypes
  <2> QED
    BY <1>1, <1>2, <1>3, <1>4, <1>5, <2>1 DEF HistoryInv
<1>9. SeenInv'
  BY <1>1 DEF SeenInv
<1>10. PlayInv'
  <2>1. playing /\ ~excused => history'.romGame /\ history'.romGameEndsAt = NONE
    BY <1>1, <1>4 DEF PlayInv, GameKept
  <2>2. playing' /\ ~excused' => RomGameInProgress(record', history', now')
    BY <1>1, <1>2, <2>1 DEF RomGameInProgress
  <2> QED
    BY <1>1, <2>2 DEF PlayInv, GameKept, tableVars
<1>11. ScreenInv'
  BY <1>1 DEF ScreenInv, OnScreen, apiVars
<1>12. CountInv'
  BY <1>1, <1>4 DEF CountInv, apiVars, tableVars
<1>13. StartInv'
  <2>1. RomGameInProgress(record', history', now') => RomGameInProgress(record, history, now)
    BY <1>1, <1>4 DEF RomGameInProgress
  <2> QED
    BY <1>1, <1>4, <2>1 DEF StartInv, Quiet, AuthoredStarted, RomStarted, apiVars, tableVars
<1>14. TroubleInv'
  BY <1>1, <1>4 DEF TroubleInv, Quiet, AuthoredStarted, RomStarted, apiVars, tableVars
<1> QED
  BY <1>7, <1>8, <1>9, <1>10, <1>11, <1>12, <1>13, <1>14

LEMMA NoSessionInv == IInv /\ NoSession => IInv'
<1> SUFFICES ASSUME IInv, NoSession PROVE IInv'
  OBVIOUS
<1> USE DEF IInv
<1>1. /\ posted' = Whole(record, history) /\ unseen' = TRUE
      /\ UNCHANGED <<now, workerVars, tableVars, apiVars, envVars, ghostVars>>
  BY DEF NoSession, PostStatus
<1>2. posted' = posted
  BY <1>1 DEF HistoryInv
<1>3. TypeInv'
  BY <1>1, <1>2 DEF TypeInv, WorkerTypes, ApiTypes, workerVars, tableVars, apiVars, envVars, ghostVars
<1>4. HistoryInv'
  BY <1>1 DEF HistoryInv, workerVars, envVars, ghostVars
<1>5. SeenInv'
  BY <1>1 DEF SeenInv
<1>6. PlayInv'
  BY <1>1 DEF PlayInv, GameKept, workerVars, envVars, ghostVars, tableVars
<1>7. ScreenInv' /\ CountInv'
  BY <1>1 DEF ScreenInv, OnScreen, CountInv, apiVars, ghostVars, workerVars, tableVars
<1>8. StartInv' /\ TroubleInv'
  BY <1>1 DEF StartInv, TroubleInv, Quiet, AuthoredStarted, RomStarted, apiVars, ghostVars, workerVars, tableVars
<1> QED
  BY <1>3, <1>4, <1>5, <1>6, <1>7, <1>8

LEMMA DisconnectInv == IInv /\ Disconnect => IInv'
<1> SUFFICES ASSUME IInv, Disconnect PROVE IInv'
  OBVIOUS
<1> USE DEF IInv
<1>1. /\ record.inSession /\ record' = OutOfSession(now) /\ declared' = NONE
      /\ posted' = Whole(record', history') /\ unseen' = TRUE
      /\ UNCHANGED <<now, history, sessionStart, historyTable, tableVars, apiVars, playing, counts, ghostVars>>
  BY DEF Disconnect, PostStatus
<1>2. record' \in RecordType /\ ~record'.inSession /\ record'.since = now
  <2>1. now \in 0 .. MaxTime
    BY NumbersTyped, Times DEF TypeInv, ApiTypes
  <2> QED
    BY <1>1, <2>1 DEF OutOfSession, RecordType
<1>3. posted' \in WholeType
  BY <1>1, <1>2, NumbersTyped DEF Whole, WholeType
<1>4. TypeInv'
  <2>1. aware' \in BOOLEAN
    BY DEF Disconnect, TypeInv, ApiTypes
  <2>2. sessionStart' \in 0 .. now' /\ declared' \in 0 .. table' /\ historyTable' \in 0 .. table'
    BY <1>1, NumbersTyped DEF NONE, tableVars
  <2>3. WorkerTypes'
    BY <1>1, <1>2, <1>3, <2>2 DEF TypeInv, WorkerTypes, ghostVars
  <2>4. ApiTypes'
    BY <1>1, <2>1 DEF TypeInv, ApiTypes, tableVars, apiVars, ghostVars
  <2> QED
    BY <2>3, <2>4 DEF TypeInv
<1>5. HistoryInv'
  BY <1>1, <1>2, NumbersTyped DEF HistoryInv, ghostVars
<1>6. SeenInv'
  BY <1>1 DEF SeenInv
<1>7. now - now < ROM_GAME_LOST_AFTER
  BY NumbersTyped, Times
<1>8. RomGameInProgress(record', history', now') <=> RomGameInProgress(record, history, now)
  BY <1>1, <1>2, <1>7 DEF RomGameInProgress
<1>9. PlayInv'
  BY <1>1, <1>8 DEF PlayInv, GameKept, ghostVars, tableVars
<1>10. ScreenInv' /\ CountInv'
  BY <1>1 DEF ScreenInv, OnScreen, CountInv, apiVars, ghostVars, tableVars
<1>11. StartInv' /\ TroubleInv'
  BY <1>1, <1>8 DEF StartInv, TroubleInv, Quiet, AuthoredStarted, RomStarted, apiVars, ghostVars, tableVars
<1> QED
  BY <1>4, <1>5, <1>6, <1>9, <1>10, <1>11

LEMMA MaybeDeclareInv == IInv /\ MaybeDeclare => IInv'
<1> SUFFICES ASSUME IInv, MaybeDeclare PROVE IInv'
  OBVIOUS
<1> USE DEF IInv
<1>1. /\ record.inSession /\ declared # table /\ declared' = table /\ historyTable' = table
      /\ UNCHANGED <<now, record, sessionStart, tableVars, apiVars, envVars, ghostVars>>
  BY DEF MaybeDeclare
<1>2. CASE historyTable \notin {NONE, table} /\ history.romGame
  <2>1. /\ history' = [history EXCEPT !.romGame = FALSE, !.romGameEndsAt = NONE]
        /\ posted' = Whole(record, history') /\ unseen' = TRUE
    BY <1>1, <1>2 DEF MaybeDeclare, PostStatus
  <2>2. /\ history' \in HistoryType /\ history'.romGames = history.romGames /\ history'.warnings = history.warnings
        /\ history'.lastWarning = history.lastWarning /\ ~history'.romGame /\ history'.romGameEndsAt = NONE
        /\ history'.warningsAtGameStart = history.warningsAtGameStart
    BY <2>1, NumbersTyped, Times DEF HistoryType, NONE
  <2>3. posted' \in WholeType
    BY <2>1, <2>2, NumbersTyped DEF Whole, WholeType
  <2>4. TypeInv'
    <3>1. sessionStart' \in 0 .. now' /\ declared' \in 0 .. table' /\ historyTable' \in 0 .. table'
      BY <1>1, NumbersTyped DEF tableVars
    <3>2. WorkerTypes'
      BY <1>1, <2>1, <2>2, <2>3, <3>1 DEF TypeInv, WorkerTypes, envVars, ghostVars
    <3>3. ApiTypes'
      BY <1>1 DEF TypeInv, ApiTypes, tableVars, apiVars, envVars, ghostVars
    <3> QED
      BY <3>2, <3>3 DEF TypeInv
  <2>5. HistoryInv'
    BY <1>1, <2>1, <2>2, NumbersTyped DEF HistoryInv, envVars, ghostVars
  <2>6. SeenInv'
    BY <2>1 DEF SeenInv
  <2>7. PlayInv'
    <3>1. ~playing
      BY <1>2 DEF PlayInv
    <3> QED
      BY <1>1, <3>1 DEF PlayInv, GameKept, envVars, tableVars
  <2>8. ScreenInv' /\ CountInv'
    BY <1>1, <2>2 DEF ScreenInv, OnScreen, CountInv, apiVars, ghostVars, tableVars
  <2>9. StartInv' /\ TroubleInv'
    <3>1. ~RomGameInProgress(record', history', now')
      BY <2>2 DEF RomGameInProgress
    <3> QED
      BY <1>1, <2>2, <3>1 DEF StartInv, TroubleInv, Quiet, AuthoredStarted, RomStarted, apiVars, ghostVars, tableVars
  <2> QED
    BY <2>4, <2>5, <2>6, <2>7, <2>8, <2>9
<1>3. CASE ~(historyTable \notin {NONE, table} /\ history.romGame)
  <2>1. history' = history /\ posted' = posted /\ unseen' = unseen
    BY <1>1, <1>3 DEF MaybeDeclare, latchVars
  <2>2. history.romGame => historyTable = table
    BY <1>3 DEF HistoryInv
  <2>4. TypeInv'
    <3>1. sessionStart' \in 0 .. now' /\ declared' \in 0 .. table' /\ historyTable' \in 0 .. table'
      BY <1>1, NumbersTyped DEF tableVars
    <3>2. WorkerTypes'
      BY <1>1, <2>1, <3>1 DEF TypeInv, WorkerTypes, envVars, ghostVars
    <3>3. ApiTypes'
      BY <1>1 DEF TypeInv, ApiTypes, tableVars, apiVars, envVars, ghostVars
    <3> QED
      BY <3>2, <3>3 DEF TypeInv
  <2>5. HistoryInv'
    BY <1>1, <2>1, NumbersTyped DEF HistoryInv, envVars, ghostVars, NONE
  <2>6. SeenInv'
    BY <1>1, <2>1, <2>2 DEF SeenInv, tableVars, apiVars
  <2>7. PlayInv'
    BY <1>1, <2>1 DEF PlayInv, GameKept, envVars, tableVars, ghostVars
  <2>8. ScreenInv' /\ CountInv'
    BY <1>1, <2>1 DEF ScreenInv, OnScreen, CountInv, apiVars, ghostVars, tableVars
  <2>9. StartInv' /\ TroubleInv'
    <3>1. RomGameInProgress(record', history', now') => historyTable = table
      BY <2>1, <2>2 DEF RomGameInProgress
    <3> QED
      BY <1>1, <2>1, <3>1 DEF StartInv, TroubleInv, Quiet, AuthoredStarted, RomStarted, apiVars, ghostVars, tableVars
  <2> QED
    BY <2>4, <2>5, <2>6, <2>7, <2>8, <2>9
<1> QED
  BY <1>2, <1>3

\* What the two ends of a table have in common.
NotifierEnded ==
  /\ nf' \in NotifierType /\ KeptFields(nf, nf')
  /\ ~nf'.inGame /\ ~nf'.authoredGame /\ ~nf'.lostInGame
  /\ nf'.current = GameForgotten(nf.current) /\ nf'.authoredGames = nf.authoredGames
  /\ nf'.authoredStartWarnings = nf.authoredStartWarnings

LEMMA TableChanges ==
  ASSUME IInv, NotifierEnded, table' = table + 1, playing' = FALSE, trouble' = FALSE,
         UNCHANGED <<now, workerVars, latchVars, setting, counts, word, gameFrom>>
  PROVE  HistoryInv' /\ SeenInv' /\ PlayInv' /\ CountInv' /\ StartInv' /\ TroubleInv'
<1> USE DEF IInv
<1>1. historyTable' # table'
  BY NumbersTyped DEF workerVars
<1>2. HistoryInv'
  BY DEF HistoryInv, workerVars, latchVars
<1>3. SeenInv'
  <2>1. posted \in WholeType
    BY DEF TypeInv, WorkerTypes
  <2>2. ~unseen => nf'.current = GameForgotten(posted)
    BY <2>1, GameForgottenFacts DEF SeenInv, NotifierEnded
  <2> QED
    BY <1>1, <2>2 DEF SeenInv, latchVars
<1>4. PlayInv'
  BY DEF PlayInv, GameKept
<1>5. CountInv'
  BY NumbersTyped DEF CountInv, NotifierEnded, KeptFields, workerVars
<1>6. StartInv' /\ TroubleInv'
  BY <1>1 DEF StartInv, TroubleInv, NotifierEnded
<1> QED
  BY <1>2, <1>3, <1>4, <1>5, <1>6

LEMMA OnGameStartInv == ASSUME NEW kind \in Kinds PROVE IInv /\ OnGameStart(kind) => IInv'
<1> SUFFICES ASSUME IInv, OnGameStart(kind) PROVE IInv'
  OBVIOUS
<1> USE DEF IInv
<1>1. /\ ~running /\ table' = table + 1 /\ running' = TRUE /\ authored' = kind /\ nf' = NewTable(nf)
      /\ playing' = FALSE /\ aware' = TRUE /\ excused' = FALSE /\ trouble' = FALSE
      /\ screen' = [screen EXCEPT !.up = FALSE]
      /\ UNCHANGED <<now, workerVars, latchVars, setting, counts, word, gameFrom>>
  BY DEF OnGameStart
<1>2. nf \in NotifierType /\ screen \in [text : TextType, at : Nat, up : BOOLEAN, kept : BOOLEAN]
      /\ table <= MaxTables /\ nf.authoredGames <= counts.games
  BY <1>1 DEF TypeInv, ApiTypes
<1>3. NotifierEnded /\ nf'.posted = NoText
  BY <1>1, <1>2, NewTableFacts DEF NotifierEnded
<1>4. /\ screen' \in [text : TextType, at : Nat, up : BOOLEAN, kept : BOOLEAN] /\ screen'.at = screen.at /\ ~screen'.up
  BY <1>1, <1>2
<1>5. TypeInv'
  <2>1. sessionStart' \in 0 .. now' /\ declared' \in 0 .. table' /\ historyTable' \in 0 .. table'
        /\ table' \in 1 .. MaxTables + 1
    BY <1>1, <1>2, NumbersTyped, Times DEF workerVars
  <2>2. WorkerTypes'
    BY <1>1, <2>1 DEF TypeInv, WorkerTypes, workerVars, latchVars
  <2>3. authored' \in BOOLEAN
    BY <1>1, StatusesAssumption
  <2>4. ApiTypes'
    BY <1>1, <1>3, <1>4, <2>1, <2>3 DEF TypeInv, ApiTypes, NotifierEnded, KeptFields
  <2> QED
    BY <2>2, <2>4 DEF TypeInv
<1>6. ScreenInv'
  BY <1>3, <1>4, NoTextFacts DEF ScreenInv, NotifierEnded
<1> QED
  BY <1>1, <1>3, <1>5, <1>6, TableChanges

LEMMA OnGameEndInv == IInv /\ OnGameEnd => IInv'
<1> SUFFICES ASSUME IInv, OnGameEnd PROVE IInv'
  OBVIOUS
<1> USE DEF IInv
<1>1. /\ running /\ table < MaxTables /\ table' = table + 1 /\ running' = FALSE /\ authored' = FALSE
      /\ nf' = TableEnded(nf)
      /\ playing' = FALSE /\ aware' = TRUE /\ excused' = FALSE /\ trouble' = FALSE
      /\ UNCHANGED <<now, workerVars, latchVars, setting, counts, word, gameFrom, screen>>
  BY DEF OnGameEnd
<1>2. nf \in NotifierType
  BY DEF TypeInv, ApiTypes
<1>3. NotifierEnded /\ nf'.posted = nf.posted
  BY <1>1, <1>2, TableEndedFacts DEF NotifierEnded
<1>5. TypeInv'
  <2>1. sessionStart' \in 0 .. now' /\ declared' \in 0 .. table' /\ historyTable' \in 0 .. table'
        /\ table' \in 1 .. MaxTables + 1 /\ table' <= MaxTables
    BY <1>1, NumbersTyped, Times DEF workerVars
  <2>2. WorkerTypes'
    BY <1>1, <2>1 DEF TypeInv, WorkerTypes, workerVars, latchVars
  <2>4. ApiTypes'
    BY <1>1, <1>3, <2>1 DEF TypeInv, ApiTypes, NotifierEnded, KeptFields
  <2> QED
    BY <2>2, <2>4 DEF TypeInv
<1>6. ScreenInv'
  BY <1>1, <1>3 DEF ScreenInv, NotifierEnded, KeptFields
<1> QED
  BY <1>1, <1>3, <1>5, <1>6, TableChanges

LEMMA IdentityChangesInv == IInv /\ IdentityChanges => IInv'
<1> SUFFICES ASSUME IInv, IdentityChanges PROVE IInv'
  OBVIOUS
<1> USE DEF IInv
<1>1. /\ running /\ table < MaxTables /\ table' = table + 1 /\ authored' = ~authored
      /\ playing' = FALSE /\ aware' = TRUE /\ excused' = FALSE /\ trouble' = FALSE
      /\ gameFrom' = IF nf.inGame /\ gameFrom[authored] < gameFrom[authored']
                       THEN [gameFrom EXCEPT ![authored'] = gameFrom[authored]] ELSE gameFrom
      /\ UNCHANGED <<now, workerVars, latchVars, running, apiVars, counts, word, screen>>
  BY DEF IdentityChanges
<1>2. /\ authored \in BOOLEAN /\ authored' \in BOOLEAN /\ authored # authored'
      /\ gameFrom \in [BOOLEAN -> 0 .. MaxStatuses]
  BY <1>1 DEF TypeInv, ApiTypes
<1>3. /\ gameFrom' \in [BOOLEAN -> 0 .. MaxStatuses]
      /\ \A b \in BOOLEAN : gameFrom'[b] <= gameFrom[b]
      /\ nf.inGame => gameFrom'[authored'] <= gameFrom[authored]
  <2>1. gameFrom[authored] \in 0 .. MaxStatuses /\ gameFrom[authored'] \in 0 .. MaxStatuses
        /\ \A b \in BOOLEAN : gameFrom[b] \in 0 .. MaxStatuses
    BY <1>2
  <2>2. CASE nf.inGame /\ gameFrom[authored] < gameFrom[authored']
    <3>1. gameFrom' = [gameFrom EXCEPT ![authored'] = gameFrom[authored]]
      BY <1>1, <2>2
    <3>2. gameFrom'[authored'] = gameFrom[authored]
          /\ \A b \in BOOLEAN : b # authored' => gameFrom'[b] = gameFrom[b]
      BY <1>2, <3>1
    <3> QED
      BY <1>2, <2>1, <2>2, <3>1, <3>2, Times
  <2>3. CASE ~(nf.inGame /\ gameFrom[authored] < gameFrom[authored'])
    BY <1>1, <1>2, <2>1, <2>3, Times
  <2> QED
    BY <2>2, <2>3
<1>4. gameFrom'[TRUE] <= gameFrom[TRUE] /\ gameFrom'[FALSE] <= gameFrom[FALSE]
      /\ gameFrom'[TRUE] \in Nat /\ gameFrom'[FALSE] \in Nat
      /\ gameFrom'[authored'] \in Nat /\ gameFrom[authored] \in Nat
  <2>1. TRUE \in BOOLEAN /\ FALSE \in BOOLEAN /\ 0 .. MaxStatuses \subseteq Nat
    BY Times
  <2>2. gameFrom'[TRUE] \in 0 .. MaxStatuses /\ gameFrom'[FALSE] \in 0 .. MaxStatuses
        /\ gameFrom'[authored'] \in 0 .. MaxStatuses /\ gameFrom[authored] \in 0 .. MaxStatuses
    BY <1>2, <1>3, <2>1
  <2> QED
    BY <1>3, <2>1, <2>2
<1>5. historyTable' # table'
  BY <1>1, NumbersTyped DEF workerVars
<1>6. TypeInv'
  <2>1. sessionStart' \in 0 .. now' /\ declared' \in 0 .. table' /\ historyTable' \in 0 .. table'
        /\ table' \in 1 .. MaxTables + 1
    BY <1>1, NumbersTyped, Times DEF workerVars
  <2>2. WorkerTypes'
    BY <1>1, <2>1 DEF TypeInv, WorkerTypes, workerVars, latchVars
  <2>4. ApiTypes'
    BY <1>1, <1>2, <1>3, <2>1 DEF TypeInv, ApiTypes, apiVars
  <2> QED
    BY <2>2, <2>4 DEF TypeInv
<1>7. HistoryInv'
  BY <1>1 DEF HistoryInv, workerVars, latchVars
<1>8. SeenInv'
  BY <1>1, <1>5 DEF SeenInv, latchVars, apiVars, workerVars
<1>9. PlayInv'
  BY <1>1 DEF PlayInv, GameKept
<1>10. ScreenInv'
  BY <1>1 DEF ScreenInv, OnScreen, apiVars
<1>11. CountInv'
  <2>1. nf.inGame => gameFrom'[authored'] <= nf.warningsAtStart
    <3> SUFFICES ASSUME nf.inGame PROVE gameFrom'[authored'] <= nf.warningsAtStart
      OBVIOUS
    <3>1. gameFrom'[authored'] <= gameFrom[authored] /\ gameFrom[authored] <= nf.warningsAtStart
      BY <1>3 DEF CountInv
    <3>2. nf.warningsAtStart \in Nat
      BY NumbersTyped
    <3> QED
      BY <1>4, <3>1, <3>2
  <2>2. gameFrom'[TRUE] <= nf.authoredStartWarnings /\ gameFrom'[FALSE] <= history.warningsAtGameStart
    <3>1. gameFrom[TRUE] <= nf.authoredStartWarnings /\ gameFrom[FALSE] <= history.warningsAtGameStart
      BY DEF CountInv
    <3>2. /\ nf.authoredStartWarnings \in Nat /\ history.warningsAtGameStart \in Nat
          /\ gameFrom[TRUE] \in Nat /\ gameFrom[FALSE] \in Nat
      BY NumbersTyped
    <3> QED
      BY <1>4, <3>1, <3>2, Transitive
  <2> QED
    BY <1>1, <2>1, <2>2 DEF CountInv, apiVars, workerVars
<1>12. StartInv' /\ TroubleInv'
  BY <1>1, <1>5 DEF StartInv, TroubleInv, Quiet, AuthoredStarted, apiVars
<1> QED
  BY <1>6, <1>7, <1>8, <1>9, <1>10, <1>11, <1>12

LEMMA CommitGameStartInv == IInv /\ CommitGameStart => IInv'
<1> SUFFICES ASSUME IInv, CommitGameStart PROVE IInv'
  OBVIOUS
<1> USE DEF IInv
<1>1. /\ running /\ authored /\ counts.games < MaxGames
      /\ counts' = [counts EXCEPT !.games = @ + 1]
      /\ nf' = GameStarted(nf, history.warnings)
      /\ gameFrom' = IF nf.inGame THEN gameFrom ELSE [gameFrom EXCEPT ![TRUE] = history.warnings]
      /\ trouble' = (trouble /\ nf.inGame)
      /\ UNCHANGED <<now, workerVars, latchVars, tableVars, setting, playing, aware, word, excused, screen>>
  BY DEF CommitGameStart, ScriptStatus, HistoryInv, Whole
<1>2. nf \in NotifierType /\ gameFrom \in [BOOLEAN -> 0 .. MaxStatuses] /\ authored \in BOOLEAN
      /\ history.warnings \in 0 .. MaxStatuses /\ trouble \in BOOLEAN
  BY DEF TypeInv, ApiTypes, WorkerTypes, HistoryType
<1>3. /\ nf' \in NotifierType /\ KeptFields(nf, nf')
      /\ nf'.inGame = nf.inGame /\ nf'.authoredGame
      /\ nf'.lostInGame = nf.lostInGame /\ nf'.posted = nf.posted
      /\ nf'.current = nf.current /\ nf'.authoredGames = nf.authoredGames + 1
      /\ nf'.authoredStartWarnings = history.warnings
  BY <1>1, <1>2, GameStartedFacts
<1>4. /\ counts' \in [statuses : 0 .. MaxStatuses, sessions : 0 .. MaxSessions, games : 0 .. MaxGames]
      /\ counts'.games = counts.games + 1 /\ counts'.statuses = counts.statuses
  <2>1. counts \in [statuses : 0 .. MaxStatuses, sessions : 0 .. MaxSessions, games : 0 .. MaxGames]
    BY DEF TypeInv, WorkerTypes
  <2>2. counts.games + 1 \in 0 .. MaxGames
    BY <1>1, NumbersTyped, Times
  <2> QED
    BY <1>1, <2>1, <2>2
<1>5. /\ gameFrom' \in [BOOLEAN -> 0 .. MaxStatuses] /\ gameFrom'[FALSE] = gameFrom[FALSE]
      /\ ~nf.inGame => gameFrom'[TRUE] = history.warnings
      /\ nf.inGame => gameFrom' = gameFrom
  <2>1. TRUE \in BOOLEAN /\ FALSE \in BOOLEAN /\ TRUE # FALSE
    OBVIOUS
  <2>2. CASE nf.inGame
    BY <1>1, <1>2, <2>2
  <2>3. CASE ~nf.inGame
    BY <1>1, <1>2, <2>1, <2>3
  <2> QED
    BY <2>2, <2>3
<1>6. TypeInv'
  <2>2. WorkerTypes'
    BY <1>1, <1>4 DEF TypeInv, WorkerTypes, workerVars, latchVars, tableVars
  <2>3. nf'.authoredGames <= counts'.games /\ nf'.postedAt <= now
    <3>1. nf.authoredGames <= counts.games /\ nf.postedAt <= now
      BY DEF TypeInv, ApiTypes
    <3>2. nf.authoredGames \in Nat /\ counts.games \in Nat
      BY NumbersTyped
    <3> QED
      BY <1>3, <1>4, <3>1, <3>2 DEF KeptFields
  <2>4. ApiTypes'
    BY <1>1, <1>2, <1>3, <1>5, <2>3 DEF TypeInv, ApiTypes, tableVars
  <2> QED
    BY <2>2, <2>4 DEF TypeInv
<1>7. HistoryInv'
  BY <1>1, <1>4 DEF HistoryInv, workerVars, latchVars
<1>8. SeenInv'
  BY <1>1, <1>3 DEF SeenInv, latchVars, workerVars, tableVars
<1>9. PlayInv'
  BY <1>1 DEF PlayInv, GameKept, workerVars, tableVars
<1>10. ScreenInv'
  BY <1>1, <1>3 DEF ScreenInv, OnScreen, KeptFields
<1>11. CountInv'
  <2>1. gameFrom'[TRUE] <= history.warnings
    <3>1. gameFrom[TRUE] <= nf.authoredStartWarnings /\ nf.authoredStartWarnings <= history.warnings
      BY DEF CountInv
    <3>2. /\ gameFrom[TRUE] \in Nat /\ nf.authoredStartWarnings \in Nat /\ history.warnings \in Nat
          /\ nf.inGame \in BOOLEAN
      BY <1>2, NumbersTyped DEF NotifierType
    <3>3. history.warnings <= history.warnings
      BY <3>2
    <3>4. gameFrom[TRUE] <= history.warnings
      BY <3>1, <3>2, Transitive
    <3> QED
      BY <1>5, <3>2, <3>3, <3>4
  <2>2. IF nf'.authoredLast THEN nf'.seenStarts <= nf'.authoredGames ELSE nf'.seenStarts <= history'.romGames
    BY <1>1, <1>3, NumbersTyped DEF CountInv, KeptFields, workerVars
  <2>3. gameFrom'[FALSE] <= history'.warningsAtGameStart
    BY <1>1, <1>5 DEF CountInv, workerVars
  <2>4. nf'.inGame => gameFrom'[authored'] <= nf'.warningsAtStart /\ nf'.warningsAtStart <= history'.warnings
    BY <1>1, <1>3, <1>5 DEF CountInv, workerVars, tableVars, KeptFields
  <2>5. nf'.lostInGame => nf'.lostText = DescribeNoSession
    BY <1>3 DEF CountInv, KeptFields
  <2>6. nf'.authoredStartWarnings <= history'.warnings /\ gameFrom'[TRUE] <= nf'.authoredStartWarnings
    <3>1. history.warnings \in Nat /\ history' = history
      BY <1>1, NumbersTyped DEF workerVars
    <3>2. history.warnings <= history.warnings
      BY <3>1
    <3> QED
      BY <1>3, <2>1, <3>1, <3>2
  <2> QED
    BY <2>2, <2>3, <2>4, <2>5, <2>6 DEF CountInv
<1>12. StartInv'
  <2>1. nf'.authoredLast => nf'.authoredGames # nf'.seenStarts
    BY <1>3, NumbersTyped DEF CountInv, KeptFields
  <2> QED
    BY <1>1, <2>1 DEF StartInv, AuthoredStarted, tableVars
<1>13. TroubleInv'
  <2>1. trouble' => trouble /\ nf.inGame
    BY <1>1, <1>2
  <2> QED
    BY <1>1, <1>3, <2>1 DEF TroubleInv, Quiet, KeptFields, workerVars
<1> QED
  BY <1>6, <1>7, <1>8, <1>9, <1>10, <1>11, <1>12, <1>13

LEMMA CommitGameEndInv == IInv /\ CommitGameEnd => IInv'
<1> SUFFICES ASSUME IInv, CommitGameEnd PROVE IInv'
  OBVIOUS
<1> USE DEF IInv
<1>1. /\ nf' = GameEnded(nf) /\ nf \in NotifierType
      /\ UNCHANGED <<now, workerVars, latchVars, tableVars, setting, envVars, ghostVars>>
  BY DEF CommitGameEnd, TypeInv, ApiTypes
<1>3. /\ nf' \in NotifierType /\ KeptFields(nf, nf')
      /\ nf'.inGame = nf.inGame /\ ~nf'.authoredGame
      /\ nf'.lostInGame = nf.lostInGame /\ nf'.posted = nf.posted
      /\ nf'.current = nf.current /\ nf'.authoredGames = nf.authoredGames
      /\ nf'.authoredStartWarnings = nf.authoredStartWarnings
  BY <1>1, GameEndedFacts
<1>6. TypeInv'
  <2>2. WorkerTypes'
    BY <1>1 DEF TypeInv, WorkerTypes, workerVars, latchVars, tableVars, envVars, ghostVars
  <2>4. ApiTypes'
    BY <1>1, <1>3 DEF TypeInv, ApiTypes, tableVars, envVars, ghostVars, KeptFields
  <2> QED
    BY <2>2, <2>4 DEF TypeInv
<1>7. HistoryInv'
  BY <1>1 DEF HistoryInv, workerVars, latchVars, envVars, ghostVars
<1>8. SeenInv'
  BY <1>1, <1>3 DEF SeenInv, latchVars, workerVars, tableVars
<1>9. PlayInv'
  BY <1>1 DEF PlayInv, GameKept, workerVars, tableVars, envVars, ghostVars
<1>10. ScreenInv'
  BY <1>1, <1>3 DEF ScreenInv, OnScreen, KeptFields, ghostVars
<1>11. CountInv'
  BY <1>1, <1>3 DEF CountInv, KeptFields, workerVars, tableVars, ghostVars
<1>12. StartInv' /\ TroubleInv'
  BY <1>1, <1>3 DEF StartInv, TroubleInv, Quiet, AuthoredStarted, RomStarted, KeptFields, workerVars, tableVars, ghostVars
<1> QED
  BY <1>6, <1>7, <1>8, <1>9, <1>10, <1>11, <1>12

LEMMA MachineEndsInv == IInv /\ MachineEnds => IInv'
<1> SUFFICES ASSUME IInv, MachineEnds PROVE IInv'
  OBVIOUS
<1> USE DEF IInv
<1>1. /\ playing' = FALSE /\ aware' = TRUE
      /\ UNCHANGED <<now, workerVars, latchVars, tableVars, apiVars, counts, ghostVars>>
  BY DEF MachineEnds
<1>6. TypeInv'
  BY <1>1 DEF TypeInv, WorkerTypes, ApiTypes, workerVars, latchVars, tableVars, apiVars, ghostVars
<1>7. HistoryInv' /\ SeenInv'
  BY <1>1 DEF HistoryInv, SeenInv, workerVars, latchVars, apiVars, tableVars, ghostVars
<1>9. PlayInv'
  BY <1>1 DEF PlayInv, GameKept
<1>10. ScreenInv' /\ CountInv'
  BY <1>1 DEF ScreenInv, OnScreen, CountInv, workerVars, tableVars, apiVars, ghostVars
<1>12. StartInv' /\ TroubleInv'
  BY <1>1 DEF StartInv, TroubleInv, Quiet, AuthoredStarted, RomStarted, workerVars, tableVars, apiVars, ghostVars
<1> QED
  BY <1>6, <1>7, <1>9, <1>10, <1>12

LEMMA TickInv == IInv /\ Tick => IInv'
<1> SUFFICES ASSUME IInv, Tick PROVE IInv'
  OBVIOUS
<1> USE DEF IInv
<1>1. /\ now < MaxTime /\ now' = now + 1 /\ excused' = (excused \/ Excuse(word, record, now'))
      /\ UNCHANGED <<workerVars, latchVars, tableVars, apiVars, envVars, word, trouble, gameFrom, screen>>
  BY DEF Tick
<1>2. now' \in 1 .. MaxTime /\ now \in Nat /\ now' \in Nat /\ excused \in BOOLEAN /\ excused' \in BOOLEAN
  BY <1>1, NumbersTyped, Times DEF TypeInv, ApiTypes, Excuse
<1>6. TypeInv'
  <2>1. sessionStart' \in 0 .. now'
    BY <1>1, <1>2, NumbersTyped DEF workerVars
  <2>2. WorkerTypes'
    BY <1>1, <2>1 DEF TypeInv, WorkerTypes, workerVars, latchVars, tableVars, envVars
  <2>3. screen'.at <= now' /\ nf'.postedAt <= now'
    <3>1. screen.at <= now /\ nf.postedAt <= now
      BY DEF TypeInv, ApiTypes
    <3>2. screen.at \in Nat /\ nf.postedAt \in Nat
      BY NumbersTyped
    <3>3. screen' = screen /\ nf' = nf
      BY <1>1 DEF apiVars
    <3> QED
      BY <1>1, <1>2, <3>1, <3>2, <3>3
  <2>4. ApiTypes'
    BY <1>1, <1>2, <2>3 DEF TypeInv, ApiTypes, tableVars, apiVars, envVars
  <2> QED
    BY <2>2, <2>4 DEF TypeInv
<1>7. HistoryInv' /\ SeenInv'
  BY <1>1, <1>2, NumbersTyped DEF HistoryInv, SeenInv, workerVars, latchVars, apiVars, tableVars, envVars
<1>8. RomGameInProgress(record, history, now') => RomGameInProgress(record, history, now)
  BY <1>1, <1>2, NumbersTyped, Times DEF RomGameInProgress
<1>9. PlayInv'
  <2>1. ASSUME playing', ~excused' PROVE RomGameInProgress(record', history', now')
    <3>1. RomGameInProgress(record, history, now) /\ ~Excuse(word, record, now')
      BY <1>1, <1>2, <2>1 DEF PlayInv, GameKept, envVars
    <3>2. history.romGame /\ (history.romGameEndsAt = NONE \/ now' < history.romGameEndsAt)
      <4>1. history.romGameEndsAt # NONE => word = "none" /\ history.romGameEndsAt = sessionStart + NO_GAME_DEFERRED
        BY DEF HistoryInv
      <4>2. ~(word = "none" /\ now' >= sessionStart + NO_GAME_DEFERRED)
        BY <3>1 DEF Excuse
      <4> QED
        BY <1>2, <3>1, <4>1, <4>2, NumbersTyped, Times DEF RomGameInProgress
    <3>3. record.inSession \/ now' - record.since < ROM_GAME_LOST_AFTER
      BY <1>2, <3>1, NumbersTyped, Times DEF Excuse
    <3> QED
      BY <1>1, <3>2, <3>3 DEF RomGameInProgress, workerVars
  <2> QED
    BY <1>1, <2>1 DEF PlayInv, GameKept, envVars, workerVars, tableVars
<1>10. ScreenInv'
  <2>1. OnScreen' => OnScreen
    BY <1>1, <1>2, NumbersTyped, Times DEF OnScreen
  <2> QED
    BY <1>1, <2>1 DEF ScreenInv, apiVars
<1>11. CountInv'
  BY <1>1 DEF CountInv, workerVars, tableVars, apiVars
<1>12. StartInv' /\ TroubleInv'
  BY <1>1, <1>8 DEF StartInv, TroubleInv, Quiet, AuthoredStarted, RomStarted, workerVars, tableVars, apiVars
<1> QED
  BY <1>6, <1>7, <1>9, <1>10, <1>11, <1>12

LEMMA AnswerStatusInv == ASSUME NEW s \in Statuses PROVE IInv /\ AnswerStatus(s) => IInv'
<1> SUFFICES ASSUME IInv, AnswerStatus(s) PROVE IInv'
  OBVIOUS
<1> USE DEF IInv
<1> DEFINE k == FollowGame(history, s, now, sessionStart)
           newGame == history'.romGames # history.romGames
           inGame == IF authored THEN nf.authoredGame
                     ELSE declared = table /\ RomGameInProgress(record', history', now)
<1>1. /\ record.inSession /\ declared # NONE /\ counts.statuses < MaxStatuses
      /\ counts' = [counts EXCEPT !.statuses = @ + 1]
      /\ history' = k /\ record' = [record EXCEPT !.haveStatus = TRUE, !.status = s]
      /\ posted' = Whole(record', history') /\ unseen' = TRUE
      /\ word' = (IF s.session \in {"none", "tracking", "no data"} THEN s.session ELSE word)
      /\ aware' = (aware \/ s.session = "tracking")
      /\ playing' = (playing \/ (s.session = "tracking" /\ running /\ ~authored /\ declared = table))
      /\ excused' = (IF playing THEN excused \/ Excuse(word', record', now) ELSE FALSE)
      /\ gameFrom' = (IF newGame /\ ~nf.inGame THEN [gameFrom EXCEPT ![FALSE] = history.warnings] ELSE gameFrom)
      /\ trouble' = ((trouble /\ (newGame /\ ~authored => nf.inGame))
                      \/ (inGame /\ history'.warnings # history.warnings))
      /\ UNCHANGED <<now, sessionStart, declared, historyTable, tableVars, apiVars, screen>>
  BY DEF AnswerStatus, PostStatus
<1>2. /\ nf \in NotifierType /\ gameFrom \in [BOOLEAN -> 0 .. MaxStatuses]
      /\ playing \in BOOLEAN /\ aware \in BOOLEAN /\ excused \in BOOLEAN /\ trouble \in BOOLEAN
      /\ nf.inGame \in BOOLEAN /\ authored \in BOOLEAN /\ s \in StatusType
      /\ word \in {"silent", "none", "tracking", "no data"} /\ now \in 1 .. MaxTime
  BY StatusesAssumption DEF TypeInv, ApiTypes, WorkerTypes, NotifierType
<1>3. FollowLemma(history, k, s, now, sessionStart)
  <2>1. history.romGames < MaxStatuses /\ history.warnings < MaxStatuses
    <3>1. history.romGames <= counts.statuses /\ history.warnings <= counts.statuses /\ counts.statuses < MaxStatuses
      BY <1>1 DEF HistoryInv
    <3>2. history.romGames \in Nat /\ history.warnings \in Nat /\ counts.statuses \in Nat /\ MaxStatuses \in Nat
      BY NumbersTyped, Times
    <3> QED
      BY <3>1, <3>2
  <2>2. Deferred(history, sessionStart)
    BY DEF HistoryInv, Deferred
  <2>3. history \in HistoryType /\ sessionStart \in 0 .. now
    BY DEF TypeInv, WorkerTypes
  <2> QED
    BY <1>2, <2>1, <2>2, <2>3, FollowGameFacts
<1> HIDE DEF k
<1>4. /\ k \in HistoryType /\ Deferred(k, sessionStart)
      /\ k.warnings \in {history.warnings, history.warnings + 1}
      /\ k.warnings = history.warnings => k.lastWarning = history.lastWarning
      /\ k.warnings # history.warnings => IsProblem(k.lastWarning)
      /\ newGame => k.romGames = history.romGames + 1 /\ k.warningsAtGameStart = history.warnings
      /\ ~newGame => /\ k.romGames = history.romGames
                     /\ k.warningsAtGameStart = history.warningsAtGameStart
                     /\ k.romGame => Live(history, now)
  BY <1>1, <1>3 DEF FollowLemma
<1>5. /\ history.romGames \in Nat /\ history.warnings \in Nat /\ history.warningsAtGameStart \in Nat
      /\ k.romGames \in Nat /\ k.warnings \in Nat /\ k.warningsAtGameStart \in Nat /\ k.romGame \in BOOLEAN
      /\ k.romGameEndsAt \in Nat
  BY <1>4, NumbersTyped, Times DEF HistoryType
<1>6. /\ history.warnings <= k.warnings /\ k.warnings <= history.warnings + 1
      /\ history.romGames <= k.romGames /\ k.romGames <= history.romGames + 1
      /\ k.warningsAtGameStart <= history.warnings
      /\ k.warnings # history.warnings => history.warnings < k.warnings
  BY <1>4, <1>5 DEF HistoryInv
<1>7. record' \in RecordType /\ record'.inSession /\ record'.since = record.since
  BY <1>1, NumbersTyped DEF RecordType
<1>8. posted' \in WholeType
  BY <1>1, <1>4, <1>7 DEF Whole, WholeType
<1>9. /\ counts' \in [statuses : 0 .. MaxStatuses, sessions : 0 .. MaxSessions, games : 0 .. MaxGames]
      /\ counts'.statuses = counts.statuses + 1 /\ counts'.games = counts.games
  <2>1. counts \in [statuses : 0 .. MaxStatuses, sessions : 0 .. MaxSessions, games : 0 .. MaxGames]
    BY DEF TypeInv, WorkerTypes
  <2>2. counts.statuses + 1 \in 0 .. MaxStatuses
    <3>1. counts.statuses \in Nat /\ MaxStatuses \in Nat /\ counts.statuses < MaxStatuses
      BY <1>1, NumbersTyped, Times
    <3> QED
      BY <3>1
  <2> QED
    BY <1>1, <2>1, <2>2
<1>10. /\ gameFrom' \in [BOOLEAN -> 0 .. MaxStatuses] /\ gameFrom'[TRUE] = gameFrom[TRUE]
       /\ nf.inGame => gameFrom' = gameFrom
       /\ newGame /\ ~nf.inGame => gameFrom'[FALSE] = history.warnings
       /\ ~(newGame /\ ~nf.inGame) => gameFrom' = gameFrom
  <2>1. TRUE \in BOOLEAN /\ FALSE \in BOOLEAN /\ TRUE # FALSE
    OBVIOUS
  <2>2. history.warnings \in 0 .. MaxStatuses
    BY DEF TypeInv, WorkerTypes, HistoryType
  <2>3. CASE newGame /\ ~nf.inGame
    BY <1>1, <1>2, <2>1, <2>2, <2>3
  <2>4. CASE ~(newGame /\ ~nf.inGame)
    BY <1>1, <1>2, <2>4
  <2> QED
    BY <2>3, <2>4
<1>11. word' \in {"silent", "none", "tracking", "no data"}
  BY <1>1, <1>2
<1> HIDE DEF newGame, inGame
<1>12. TypeInv'
  <2>1. WorkerTypes'
    BY <1>1, <1>4, <1>7, <1>8, <1>9, <1>11 DEF TypeInv, WorkerTypes, tableVars
  <2>2. /\ aware' \in BOOLEAN /\ playing' \in BOOLEAN /\ trouble' \in BOOLEAN /\ excused' \in BOOLEAN
    BY <1>1, <1>2 DEF Excuse
  <2>3. ApiTypes'
    BY <1>1, <1>9, <1>10, <2>2 DEF TypeInv, ApiTypes, tableVars, apiVars
  <2> QED
    BY <2>1, <2>3 DEF TypeInv
<1>13. HistoryInv'
  <2>1. posted' = Whole(record', history') /\ record'.since <= now'
    BY <1>1, <1>7 DEF HistoryInv
  <2>2. k.romGames <= counts'.statuses /\ k.warnings <= counts'.statuses /\ k.warningsAtGameStart <= k.warnings
    <3>1. history.romGames <= counts.statuses /\ history.warnings <= counts.statuses /\ counts.statuses \in Nat
      BY NumbersTyped DEF HistoryInv
    <3> QED
      BY <1>5, <1>6, <1>9, <3>1
  <2>3. /\ k.lastWarning # NoText => IsProblem(k.lastWarning)
        /\ k.warnings > 0 => k.lastWarning # NoText
    BY <1>4, NoTextFacts DEF HistoryInv
  <2>4. /\ declared' # NONE => historyTable' = declared'
        /\ k.romGame => historyTable' # NONE
    BY <1>1 DEF HistoryInv
  <2>5. s.session \in {"none", "tracking", "no data", "hidden", "unknown"}
    BY <1>2 DEF StatusType, SessionStates
  <2>6. k.romGameEndsAt # NONE =>
          k.romGame /\ word' = "none" /\ k.romGameEndsAt = sessionStart' + NO_GAME_DEFERRED
    <3> SUFFICES ASSUME k.romGameEndsAt # NONE
                 PROVE  k.romGame /\ word' = "none" /\ k.romGameEndsAt = sessionStart' + NO_GAME_DEFERRED
      OBVIOUS
    <3>1. k.romGame /\ k.romGameEndsAt = sessionStart' + NO_GAME_DEFERRED
      BY <1>1, <1>4 DEF Deferred
    <3>2. ~(s.session \in {"tracking", "no data"}) /\ (s.session = "none" \/ history.romGameEndsAt # NONE)
      BY <1>3 DEF FollowLemma
    <3>3. word' = "none"
      <4>1. CASE s.session = "none"
        BY <1>1, <4>1
      <4>2. CASE s.session \in {"hidden", "unknown"}
        <5>1. word = "none"
          BY <3>2, <4>2 DEF HistoryInv
        <5> QED
          BY <1>1, <4>2, <5>1
      <4> QED
        BY <2>5, <3>2, <4>1, <4>2
    <3> QED
      BY <3>1, <3>3
  <2>7. word' = "none" /\ k.romGame => k.romGameEndsAt # NONE
    <3> SUFFICES ASSUME word' = "none", k.romGame PROVE k.romGameEndsAt # NONE
      OBVIOUS
    <3>1. s.session \notin {"tracking", "no data"}
      BY <1>1
    <3>2. CASE s.session = "none"
      BY <1>3, <3>2 DEF FollowLemma
    <3>3. CASE s.session \in {"hidden", "unknown"}
      <4>1. word = "none" /\ history.romGame /\ k.romGameEndsAt = history.romGameEndsAt
        BY <1>1, <1>3, <3>3 DEF FollowLemma
      <4> QED
        BY <4>1 DEF HistoryInv
    <3> QED
      BY <2>5, <3>1, <3>2, <3>3
  <2> QED
    BY <1>1, <2>1, <2>2, <2>3, <2>4, <2>6, <2>7 DEF HistoryInv
<1>14. SeenInv'
  BY <1>1 DEF SeenInv
<1>15. PlayInv'
  <2>1. playing' => historyTable' = table'
    BY <1>1 DEF PlayInv, HistoryInv, tableVars
  <2>2. ASSUME playing', ~excused' PROVE Live(k, now)
    <3>1. CASE playing
      <4>1. Live(history, now) /\ ~Excuse(word', record', now)
        BY <1>1, <2>2, <3>1 DEF PlayInv, GameKept, RomGameInProgress, Live
      <4>2. s.session = "none" => word' = "none"
        BY <1>1
      <4>3. s.session = "none" => ~(now >= sessionStart' + NO_GAME_DEFERRED)
        BY <1>1, <4>1, <4>2 DEF Excuse
      <4>4. s.session = "none" => now < sessionStart + NO_GAME_DEFERRED
        BY <1>1, <4>3, NumbersTyped, Times
      <4> QED
        BY <1>3, <4>1, <4>4 DEF FollowLemma
    <3>2. CASE ~playing
      <4>1. s.session = "tracking"
        BY <1>1, <2>2, <3>2
      <4> QED
        BY <1>3, <4>1 DEF FollowLemma, Live
    <3> QED
      BY <3>1, <3>2
  <2>3. playing' /\ ~excused' => RomGameInProgress(record', history', now')
    BY <1>1, <1>7, <2>2 DEF RomGameInProgress, Live
  <2> QED
    BY <2>1, <2>3 DEF PlayInv, GameKept
<1>16. ScreenInv'
  BY <1>1 DEF ScreenInv, OnScreen, apiVars
<1>17. CountInv'
  <2>1. /\ nf.seenStarts \in Nat /\ nf.authoredStartWarnings \in Nat /\ nf.warningsAtStart \in Nat
        /\ gameFrom[FALSE] \in Nat
    BY NumbersTyped
  <2>2. IF nf.authoredLast THEN nf.seenStarts <= nf.authoredGames ELSE nf.seenStarts <= k.romGames
    <3>1. IF nf.authoredLast THEN nf.seenStarts <= nf.authoredGames ELSE nf.seenStarts <= history.romGames
      BY DEF CountInv
    <3> QED
      BY <1>5, <1>6, <2>1, <3>1
  <2>3. nf.authoredStartWarnings <= k.warnings /\ (nf.inGame => nf.warningsAtStart <= k.warnings)
    <3>1. nf.authoredStartWarnings <= history.warnings /\ (nf.inGame => nf.warningsAtStart <= history.warnings)
      BY DEF CountInv
    <3> QED
      BY <1>5, <1>6, <2>1, <3>1
  <2>4. gameFrom'[FALSE] <= k.warningsAtGameStart
    <3>1. gameFrom[FALSE] <= history.warningsAtGameStart /\ history.warningsAtGameStart <= history.warnings
      BY DEF CountInv, HistoryInv
    <3>2. history.warnings <= history.warnings
      BY <1>5
    <3>3. gameFrom[FALSE] <= history.warnings
      BY <1>5, <2>1, <3>1, Transitive
    <3>4. CASE newGame /\ ~nf.inGame
      BY <1>4, <1>10, <3>2, <3>4
    <3>5. CASE newGame /\ nf.inGame
      BY <1>4, <1>10, <3>3, <3>5
    <3>6. CASE ~newGame
      BY <1>4, <1>10, <3>1, <3>6
    <3> QED
      BY <1>2, <3>4, <3>5, <3>6
  <2>5. nf.inGame => gameFrom'[authored] <= nf.warningsAtStart
    BY <1>10 DEF CountInv
  <2>6. gameFrom'[TRUE] <= nf.authoredStartWarnings /\ (nf.lostInGame => nf.lostText = DescribeNoSession)
    BY <1>10 DEF CountInv
  <2> QED
    BY <1>1, <2>2, <2>3, <2>4, <2>5, <2>6 DEF CountInv, apiVars, tableVars
\* A game that started is one the notifier has not seen.
<1>18. newGame /\ ~nf.authoredLast => k.romGames # nf.seenStarts
  <2> SUFFICES ASSUME newGame, ~nf.authoredLast PROVE k.romGames # nf.seenStarts
    OBVIOUS
  <2>1. k.romGames = history.romGames + 1 /\ nf.seenStarts <= history.romGames /\ nf.seenStarts \in Nat
    BY <1>4, NumbersTyped DEF CountInv
  <2> QED
    BY <1>5, <2>1
<1>19. StartInv'
  <2> SUFFICES ASSUME Quiet, ~nf.inGame
               PROVE  /\ nf.authoredGame => AuthoredStarted
                      /\ ~authored /\ historyTable = table /\ RomGameInProgress(record', k, now) =>
                           (~nf.authoredLast => k.romGames # nf.seenStarts)
    BY <1>1 DEF StartInv, Quiet, AuthoredStarted, RomStarted, apiVars, tableVars
  <2>1. nf.authoredGame => AuthoredStarted
    BY DEF StartInv
  <2>2. ASSUME ~authored, historyTable = table, RomGameInProgress(record', k, now), ~nf.authoredLast, ~newGame
        PROVE  k.romGames # nf.seenStarts
    <3>1. k.romGame
      BY <2>2 DEF RomGameInProgress
    <3>2. Live(history, now) /\ k.romGames = history.romGames
      BY <1>4, <2>2, <3>1
    <3>3. RomGameInProgress(record, history, now)
      BY <1>1, <3>2 DEF RomGameInProgress, Live
    <3>4. RomStarted
      BY <2>2, <3>3 DEF StartInv
    <3> QED
      BY <2>2, <3>2, <3>4 DEF RomStarted
  <2> QED
    BY <1>18, <2>1, <2>2
<1>20. TroubleInv'
  <2> SUFFICES ASSUME trouble', Quiet
               PROVE  IF nf.inGame THEN nf.lostInGame \/ nf.warningsAtStart < k.warnings
                      ELSE IF authored THEN AuthoredStarted /\ nf.authoredStartWarnings < k.warnings
                      ELSE RomStarted' /\ k.warningsAtGameStart < k.warnings
    BY <1>1 DEF TroubleInv, Quiet, AuthoredStarted, apiVars, tableVars
  <2>1. \/ trouble /\ (newGame /\ ~authored => nf.inGame)
        \/ inGame /\ k.warnings # history.warnings
    BY <1>1
  <2>2. nf.authoredStartWarnings \in Nat /\ nf.warningsAtStart \in Nat
    BY NumbersTyped
  <2>3. nf.authoredStartWarnings <= history.warnings /\ (nf.inGame => nf.warningsAtStart <= history.warnings)
        /\ history.warningsAtGameStart <= history.warnings
    BY DEF CountInv, HistoryInv
  <2>4. CASE nf.inGame
    <3>1. CASE trouble
      <4>1. nf.lostInGame \/ nf.warningsAtStart < history.warnings
        BY <2>4, <3>1 DEF TroubleInv
      <4> QED
        BY <1>5, <1>6, <2>2, <2>4, <4>1
    <3>2. CASE k.warnings # history.warnings
      BY <1>5, <1>6, <2>2, <2>3, <2>4, <3>2
    <3> QED
      BY <2>1, <3>1, <3>2
  <2>5. CASE ~nf.inGame /\ authored
    <3>1. CASE trouble
      <4>1. AuthoredStarted /\ nf.authoredStartWarnings < history.warnings
        BY <2>5, <3>1 DEF TroubleInv
      <4> QED
        BY <1>5, <1>6, <2>2, <2>5, <4>1
    <3>2. CASE inGame /\ k.warnings # history.warnings
      <4>1. nf.authoredGame
        BY <2>5, <3>2 DEF inGame
      <4>2. AuthoredStarted
        BY <2>5, <4>1 DEF StartInv
      <4> QED
        BY <1>5, <1>6, <2>2, <2>3, <2>5, <3>2, <4>2
    <3> QED
      BY <2>1, <3>1, <3>2
  <2>6. CASE ~nf.inGame /\ ~authored
    <3>1. CASE trouble /\ ~newGame
      <4>1. RomStarted /\ history.warningsAtGameStart < history.warnings
        BY <2>6, <3>1 DEF TroubleInv
      <4>2. RomStarted' /\ k.warningsAtGameStart = history.warningsAtGameStart
        BY <1>1, <1>4, <3>1, <4>1 DEF RomStarted, apiVars
      <4> QED
        BY <1>5, <1>6, <2>6, <4>1, <4>2
    <3>2. CASE inGame /\ k.warnings # history.warnings
      <4>1. declared = table /\ RomGameInProgress(record', history', now)
        BY <2>6, <3>2 DEF inGame
      <4>2. historyTable' = table' /\ ~authored' /\ ~nf'.inGame /\ Quiet' /\ now' = now
        BY <1>1, <2>6, <4>1 DEF HistoryInv, tableVars, apiVars, Quiet
      <4>3. RomStarted'
        BY <1>19, <4>1, <4>2 DEF StartInv
      <4>4. k.warningsAtGameStart < k.warnings
        BY <1>5, <1>6, <3>2
      <4> QED
        BY <2>6, <4>3, <4>4
    <3>3. (trouble /\ ~newGame) \/ (inGame /\ k.warnings # history.warnings)
      BY <2>1, <2>6
    <3> QED
      BY <3>1, <3>2, <3>3
  <2> QED
    BY <1>2, <2>4, <2>5, <2>6
<1> QED
  BY <1>12, <1>13, <1>14, <1>15, <1>16, <1>17, <1>19, <1>20

-----------------------------------------------------------------------------
(* A frame.                                                                *)

\* The notifier as the frame finds it, with the record that waits for it, and what it does.
Seeing == IF unseen THEN [nf EXCEPT !.current = ScriptStatus] ELSE nf

Act == Frame(Seeing, setting, authored, now)

\* The notifier's own part is what the last frame left; its record is the one posted last, but for
\* a game that the table's end took away.
LEMMA SeeingFacts ==
  ASSUME IInv
  PROVE  /\ Seeing \in NotifierType /\ KeptFields(nf, Seeing) /\ Seeing.inGame = nf.inGame
         /\ Seeing.authoredGame = nf.authoredGame /\ Seeing.authoredGames = nf.authoredGames
         /\ Seeing.authoredStartWarnings = nf.authoredStartWarnings /\ Seeing.lostInGame = nf.lostInGame
         /\ Seeing.posted = nf.posted
         /\ Seeing.current = posted \/ Seeing.current = GameForgotten(posted)
         /\ historyTable = table /\ history.romGame => Seeing.current = posted
         /\ Seeing.current.hist.warnings = history.warnings /\ Seeing.current.hist.romGames = history.romGames
         /\ Seeing.current.hist.lastWarning = history.lastWarning
         /\ Seeing.current.hist.warningsAtGameStart = history.warningsAtGameStart
<1> USE DEF IInv
<1> DEFINE m == Seeing
<1>1. nf \in NotifierType /\ posted \in WholeType /\ posted.hist = history /\ unseen \in BOOLEAN
  BY DEF TypeInv, ApiTypes, WorkerTypes, HistoryInv, Whole
<1>2. m \in NotifierType /\ KeptFields(nf, m) /\ m.inGame = nf.inGame
      /\ m.authoredGame = nf.authoredGame /\ m.authoredGames = nf.authoredGames
      /\ m.authoredStartWarnings = nf.authoredStartWarnings /\ m.lostInGame = nf.lostInGame
      /\ m.posted = nf.posted /\ m.current = IF unseen THEN posted ELSE nf.current
  <2>1. CASE unseen
    <3>1. m = [nf EXCEPT !.current = posted]
      BY <2>1 DEF Seeing, ScriptStatus
    <3> QED
      BY <1>1, <2>1, <3>1 DEF NotifierType, KeptFields
  <2>2. CASE ~unseen
    BY <1>1, <2>2 DEF Seeing, KeptFields
  <2> QED
    BY <2>1, <2>2
<1>3. /\ m.current = posted \/ m.current = GameForgotten(posted)
      /\ historyTable = table /\ history.romGame => m.current = posted
  BY <1>1, <1>2 DEF SeenInv
<1> HIDE DEF m
<1>4. /\ m.current.hist.warnings = history.warnings /\ m.current.hist.romGames = history.romGames
      /\ m.current.hist.lastWarning = history.lastWarning
      /\ m.current.hist.warningsAtGameStart = history.warningsAtGameStart
  <2>1. /\ GameForgotten(posted).hist.romGames = history.romGames
        /\ GameForgotten(posted).hist.warnings = history.warnings
        /\ GameForgotten(posted).hist.lastWarning = history.lastWarning
        /\ GameForgotten(posted).hist.warningsAtGameStart = history.warningsAtGameStart
    BY <1>1, GameForgottenFacts
  <2>2. CASE m.current = posted
    BY <1>1, <2>2
  <2>3. CASE m.current = GameForgotten(posted)
    BY <2>1, <2>3
  <2> QED
    BY <1>3, <2>2, <2>3
<1> QED
  BY <1>2, <1>3, <1>4 DEF m

\* What the frame does.
LEMMA ActFacts ==
  ASSUME IInv
  PROVE  FrameDone(Seeing, setting, authored, now, Act)
<1> USE DEF IInv
<1>1. setting \in [show : BOOLEAN, notices : 0 .. 2]
  BY SettingsAssumption DEF TypeInv, ApiTypes, NOTICES_NEVER, NOTICES_ALWAYS
<1>2. authored \in BOOLEAN /\ now \in Nat /\ nf.postedAt <= now
  BY NumbersTyped DEF TypeInv, ApiTypes
<1>3. FrameMeets(Seeing, setting, now)
  BY <1>1, <1>2, SeeingFacts DEF FrameMeets, HistoryInv, CountInv, KeptFields
<1> QED
  BY <1>2, <1>3, FrameFacts DEF Act

\* What it leaves.
LEMMA FrameStep ==
  ASSUME IInv, OnPrepareFrame
  PROVE  /\ unseen' = FALSE /\ nf' = Act.n
         /\ screen' = CASE Act.kind = "Post" -> [text |-> Act.text, at |-> now, up |-> TRUE, kept |-> TRUE]
                        [] Act.kind = "Expire" -> [screen EXCEPT !.up = FALSE]
                        [] OTHER -> [screen EXCEPT !.kept = @ /\ nf'.posted # NoText]
         /\ trouble' = /\ ~(Act.kind = "Post" /\ IsProblem(Act.text))
                       /\ Quiet /\ Shows(Seeing, setting)
                       /\ authored = nf.authoredLast \/ nf'.inGame
                       /\ trouble \/ (nf'.inGame /\ nf'.lostInGame)
         /\ UNCHANGED <<now, workerVars, posted, tableVars, setting, envVars, word, excused, gameFrom>>
  BY DEF OnPrepareFrame, Seeing, Act, Quiet, Shows, MayShow

\* The screen after a frame.
ScreenAfter ==
  /\ screen' \in [text : TextType, at : Nat, up : BOOLEAN, kept : BOOLEAN] /\ screen'.at <= now
  /\ Act.kind \in {"None", "Post", "Expire"}
  /\ Act.kind = "Post" => screen'.text = Act.text /\ screen'.at = now
  /\ Act.kind # "Post" => screen'.text = screen.text /\ screen'.at = screen.at
  /\ Act.kind = "Expire" => ~screen'.up
  /\ Act.kind = "None" => screen'.up = screen.up /\ screen'.kept = (screen.kept /\ Act.n.posted # NoText)
  /\ Act.kind # "Post" /\ screen' # screen => ~screen'.up \/ ~screen'.kept

LEMMA ScreenStep ==
  ASSUME IInv, OnPrepareFrame
  PROVE  ScreenAfter
<1> USE DEF IInv
<1>1. /\ screen \in [text : TextType, at : Nat, up : BOOLEAN, kept : BOOLEAN] /\ screen.at <= now /\ now \in Nat
  BY NumbersTyped DEF TypeInv, ApiTypes
<1>2. Act.kind \in {"None", "Post", "Expire"} /\ Act.text \in TextType
  BY ActFacts DEF FrameDone, FrameTypes
<1>3. CASE Act.kind = "Post"
  <2>1. screen' = [text |-> Act.text, at |-> now, up |-> TRUE, kept |-> TRUE]
    BY <1>3, FrameStep
  <2> QED
    BY <1>1, <1>2, <1>3, <2>1 DEF ScreenAfter
<1>4. CASE Act.kind = "Expire"
  <2>1. screen' = [screen EXCEPT !.up = FALSE]
    BY <1>4, FrameStep
  <2> QED
    BY <1>1, <1>4, <2>1 DEF ScreenAfter
<1>5. CASE Act.kind = "None"
  <2> DEFINE kept == screen.kept /\ Act.n.posted # NoText
  <2>1. screen' = [screen EXCEPT !.kept = kept]
    BY <1>5, FrameStep
  <2>2. kept \in BOOLEAN
    BY <1>1
  <2>3. ASSUME screen' # screen PROVE ~kept
    <3>1. kept = TRUE => screen.kept = TRUE
      BY <1>1
    <3>2. kept = TRUE => screen' = screen
      BY <1>1, <2>1, <3>1
    <3> QED
      BY <2>2, <2>3, <3>2
  <2> HIDE DEF kept
  <2>4. /\ screen' \in [text : TextType, at : Nat, up : BOOLEAN, kept : BOOLEAN]
        /\ screen'.text = screen.text /\ screen'.at = screen.at /\ screen'.up = screen.up /\ screen'.kept = kept
    BY <1>1, <2>1, <2>2
  <2>5. screen'.kept = (screen.kept /\ Act.n.posted # NoText)
    BY <2>4 DEF kept
  <2> QED
    BY <1>1, <1>5, <2>3, <2>4, <2>5 DEF ScreenAfter
<1> QED
  BY <1>2, <1>3, <1>4, <1>5

LEMMA FrameInv == IInv /\ OnPrepareFrame => IInv'
<1> SUFFICES ASSUME IInv, OnPrepareFrame PROVE IInv'
  OBVIOUS
<1> USE DEF IInv
<1> DEFINE n == Seeing
           a == Act
           starts == StartsOf(n, authored)
           begins == Begins(n, setting.notices, authored, now)
           nowIn == NowIn(n, setting.notices, authored, now)
<1>1. FrameTypes(n, setting, authored, now, a) /\ FramePosts(n, a, now) /\ FrameClears(n, a, now)
      /\ FrameTells(n, setting, authored, now, a)
  BY ActFacts DEF FrameDone
<1>2. /\ unseen' = FALSE /\ nf' = a.n
      /\ trouble' = /\ ~(a.kind = "Post" /\ IsProblem(a.text))
                    /\ Quiet /\ Shows(n, setting)
                    /\ authored = nf.authoredLast \/ nf'.inGame
                    /\ trouble \/ (nf'.inGame /\ nf'.lostInGame)
      /\ UNCHANGED <<now, workerVars, posted, tableVars, setting, envVars, word, excused, gameFrom>>
  BY FrameStep
<1>3. ScreenAfter
  BY ScreenStep
<1>4. /\ n \in NotifierType /\ KeptFields(nf, n) /\ n.inGame = nf.inGame
      /\ n.authoredGame = nf.authoredGame /\ n.authoredGames = nf.authoredGames
      /\ n.authoredStartWarnings = nf.authoredStartWarnings /\ n.lostInGame = nf.lostInGame
      /\ n.posted = nf.posted
      /\ n.current = posted \/ n.current = GameForgotten(posted)
      /\ historyTable = table /\ history.romGame => n.current = posted
      /\ n.current.hist.warnings = history.warnings /\ n.current.hist.romGames = history.romGames
      /\ n.current.hist.lastWarning = history.lastWarning
      /\ n.current.hist.warningsAtGameStart = history.warningsAtGameStart
  BY SeeingFacts
<1>5. /\ nf' \in NotifierType /\ nf'.current = n.current /\ nf'.authoredGame = n.authoredGame
      /\ nf'.authoredGames = n.authoredGames /\ nf'.authoredStartWarnings = n.authoredStartWarnings
      /\ nf'.authoredLast = authored /\ nf'.seenStarts = starts /\ nf'.inGame = nowIn
      /\ nf'.warningsAtStart = (IF ~begins THEN n.warningsAtStart
                                ELSE IF authored THEN n.authoredStartWarnings ELSE n.current.hist.warningsAtGameStart)
      /\ nf'.postedAt <= now
      /\ nf'.lostInGame => nf'.lostText = DescribeNoSession
      /\ nf'.inGame /\ n.lostInGame /\ ~begins => nf'.lostInGame
  BY <1>1, <1>2 DEF FrameTypes, Followed
<1>6. authored \in BOOLEAN /\ n.inGame \in BOOLEAN /\ nf'.inGame \in BOOLEAN /\ trouble \in BOOLEAN
  BY <1>4, <1>5 DEF TypeInv, ApiTypes, NotifierType
<1>7. starts = IF authored THEN nf.authoredGames ELSE history.romGames
  BY <1>4 DEF StartsOf
<1>8. /\ begins => ~n.inGame
      /\ ~begins /\ nf'.inGame => n.inGame
      /\ ~n.inGame /\ nf'.inGame => begins
  BY <1>5 DEF Begins
<1>9. /\ begins /\ authored => nf'.warningsAtStart = nf.authoredStartWarnings
      /\ begins /\ ~authored => nf'.warningsAtStart = history.warningsAtGameStart
      /\ ~begins => nf'.warningsAtStart = nf.warningsAtStart
  BY <1>4, <1>5 DEF KeptFields
<1>10. nowIn = (Quiet /\ IF authored THEN nf.authoredGame ELSE RomGameInProgress(n.current.rec, n.current.hist, now))
  BY <1>4 DEF NowIn, Quiet
<1> HIDE DEF n, a, starts, begins, nowIn
<1>11. TypeInv'
  <2>1. WorkerTypes'
    BY <1>2 DEF TypeInv, WorkerTypes, workerVars, tableVars, envVars
  <2>2. trouble' \in BOOLEAN
    BY <1>2
  <2>3. nf'.authoredGames <= counts'.games
    BY <1>2, <1>4, <1>5 DEF TypeInv, ApiTypes, envVars
  <2>4. ApiTypes'
    BY <1>2, <1>3, <1>5, <2>2, <2>3 DEF TypeInv, ApiTypes, tableVars, envVars, ScreenAfter
  <2> QED
    BY <2>1, <2>4 DEF TypeInv
<1>12. HistoryInv'
  BY <1>2 DEF HistoryInv, workerVars, envVars
<1>13. SeenInv'
  BY <1>2, <1>4, <1>5 DEF SeenInv, workerVars, tableVars
<1>14. PlayInv'
  BY <1>2 DEF PlayInv, GameKept, workerVars, tableVars, envVars
<1>15. ScreenInv'
  <2>1. screen'.up => screen'.at = nf'.postedAt
    <3>1. CASE a.kind = "Post"
      BY <1>1, <1>2, <1>3, <3>1 DEF FramePosts, ScreenAfter, a
    <3>2. CASE a.kind = "Expire"
      BY <1>3, <3>2 DEF ScreenAfter, a
    <3>3. CASE a.kind = "None"
      BY <1>1, <1>2, <1>3, <1>4, <3>3 DEF FramePosts, ScreenAfter, ScreenInv, KeptFields, a
    <3> QED
      BY <1>3, <3>1, <3>2, <3>3 DEF ScreenAfter, a
  <2>2. ASSUME nf'.inGame, screen'.kept PROVE ~OnScreen'
    <3>1. CASE a.kind = "Post"
      BY <1>1, <1>2, <2>2, <3>1 DEF FramePosts
    <3>2. CASE a.kind = "Expire"
      BY <1>3, <3>2 DEF ScreenAfter, OnScreen, a
    <3>3. CASE a.kind = "None"
      <4>1. screen'.at = screen.at /\ screen'.up = screen.up /\ screen.kept /\ nf'.posted # NoText
        BY <1>2, <1>3, <2>2, <3>3 DEF ScreenAfter, a
      <4>2. n.inGame \/ now - n.postedAt >= NOTICE_LIFETIME
        BY <1>1, <1>2, <2>2, <3>3, <4>1 DEF FrameClears
      <4>3. CASE n.inGame
        BY <1>2, <1>4, <4>1, <4>3 DEF ScreenInv, OnScreen
      <4>4. CASE now - n.postedAt >= NOTICE_LIFETIME
        <5>1. screen.up => screen.at = n.postedAt
          BY <1>4 DEF ScreenInv, KeptFields
        <5>2. now \in Nat /\ n.postedAt \in Nat /\ NOTICE_LIFETIME \in Nat
          BY <1>4, NumbersTyped, Times DEF NotifierType
        <5> QED
          BY <1>2, <4>1, <4>4, <5>1, <5>2 DEF OnScreen
      <4> QED
        BY <4>2, <4>3, <4>4
    <3> QED
      BY <1>3, <3>1, <3>2, <3>3 DEF ScreenAfter, a
  <2>3. IsProblem(nf'.posted) => screen'.text = nf'.posted /\ screen'.at = nf'.postedAt
    <3>1. CASE a.kind = "Post"
      BY <1>1, <1>2, <1>3, <3>1 DEF FramePosts, ScreenAfter, a
    <3>2. CASE a.kind # "Post"
      BY <1>1, <1>2, <1>3, <1>4, <3>2 DEF FramePosts, ScreenAfter, ScreenInv, KeptFields, a
    <3> QED
      BY <3>1, <3>2
  <2> QED
    BY <2>1, <2>2, <2>3 DEF ScreenInv
<1>16. CountInv'
  <2>1. nf.authoredGames <= nf.authoredGames /\ history.romGames <= history.romGames
    BY NumbersTyped
  <2>2. IF nf'.authoredLast THEN nf'.seenStarts <= nf'.authoredGames ELSE nf'.seenStarts <= history'.romGames
    BY <1>2, <1>4, <1>5, <1>6, <1>7, <2>1 DEF workerVars
  <2>3. nf'.authoredStartWarnings <= history'.warnings
    BY <1>2, <1>4, <1>5 DEF CountInv, workerVars
  <2>4. nf'.inGame => nf'.warningsAtStart <= history'.warnings /\ gameFrom'[authored'] <= nf'.warningsAtStart
    <3> SUFFICES ASSUME nf'.inGame
                 PROVE  nf'.warningsAtStart <= history.warnings /\ gameFrom[authored] <= nf'.warningsAtStart
      BY <1>2 DEF workerVars, tableVars
    <3>1. CASE begins /\ authored
      <4>1. gameFrom[authored] <= nf.authoredStartWarnings
        BY <1>6, <3>1 DEF CountInv
      <4> QED
        BY <1>9, <3>1, <4>1 DEF CountInv
    <3>2. CASE begins /\ ~authored
      <4>1. gameFrom[authored] <= history.warningsAtGameStart
        BY <1>6, <3>2 DEF CountInv
      <4> QED
        BY <1>9, <3>2, <4>1 DEF HistoryInv
    <3>3. CASE ~begins
      BY <1>4, <1>8, <1>9, <3>3 DEF CountInv
    <3> QED
      BY <3>1, <3>2, <3>3
  <2>5. gameFrom'[TRUE] <= nf'.authoredStartWarnings /\ gameFrom'[FALSE] <= history'.warningsAtGameStart
    BY <1>2, <1>4, <1>5 DEF CountInv, workerVars
  <2> QED
    BY <1>5, <2>2, <2>3, <2>4, <2>5 DEF CountInv
<1>17. StartInv'
  <2> SUFFICES ASSUME Quiet', ~nf'.inGame
               PROVE  /\ nf'.authoredGame => AuthoredStarted'
                      /\ ~authored' /\ historyTable' = table' /\ RomGameInProgress(record', history', now') => RomStarted'
    BY DEF StartInv
  <2>1. Quiet /\ ~nowIn
    BY <1>2, <1>5 DEF Quiet
  <2>2. CASE authored
    BY <1>2, <1>4, <1>5, <1>10, <2>1, <2>2 DEF tableVars
  <2>3. CASE ~authored
    <3>1. AuthoredStarted'
      BY <1>5, <2>3 DEF AuthoredStarted
    <3>2. ~(historyTable = table /\ RomGameInProgress(record, history, now))
      <4> SUFFICES ASSUME historyTable = table, RomGameInProgress(record, history, now) PROVE FALSE
        OBVIOUS
      <4>1. history.romGame
        BY DEF RomGameInProgress
      <4>2. n.current.rec = record /\ n.current.hist = history
        BY <1>4, <4>1 DEF HistoryInv, Whole
      <4> QED
        BY <1>10, <2>1, <2>3, <4>2
    <3> QED
      BY <1>2, <3>1, <3>2 DEF workerVars, tableVars
  <2> QED
    BY <2>2, <2>3
\* Trouble is told in the first frame after the game that may show notices.
<1>18. ~nf'.inGame => ~trouble'
  <2> SUFFICES ASSUME ~nf'.inGame, trouble' PROVE FALSE
    OBVIOUS
  <2>1. /\ ~(a.kind = "Post" /\ IsProblem(a.text)) /\ Quiet /\ Shows(n, setting)
        /\ authored = nf.authoredLast /\ trouble
    BY <1>2
  <2>2. /\ n.inGame \/ StartedSince(n, setting.notices, authored) =>
             /\ n.current.hist.warnings # nf'.warningsAtStart /\ n.current.hist.lastWarning # NoText => FALSE
             /\ n.lostInGame /\ ~begins => FALSE
    BY <1>1, <1>2, <2>1 DEF FrameTells, begins
  <2>3. history.warnings > 0 => n.current.hist.lastWarning # NoText
    BY <1>4 DEF HistoryInv
  <2>4. history.warnings \in Nat /\ nf.warningsAtStart \in Nat /\ nf.authoredStartWarnings \in Nat
        /\ history.warningsAtGameStart \in Nat
    BY NumbersTyped
  <2>5. CASE nf.inGame
    <3>1. nf.lostInGame \/ nf.warningsAtStart < history.warnings
      BY <2>1, <2>5 DEF TroubleInv
    <3>2. n.inGame /\ ~begins
      BY <1>4, <1>8, <2>5
    <3>3. n.current.hist.warnings = history.warnings /\ nf'.warningsAtStart = nf.warningsAtStart
      BY <1>4, <1>9, <3>2
    <3> QED
      BY <1>4, <2>2, <2>3, <2>4, <3>1, <3>2, <3>3
  <2>6. CASE ~nf.inGame
    <3>1. /\ authored => AuthoredStarted /\ nf.authoredStartWarnings < history.warnings
          /\ ~authored => RomStarted /\ history.warningsAtGameStart < history.warnings
      BY <1>6, <2>1, <2>6 DEF TroubleInv
    <3>2. StartsOf(n, authored) # nf.seenStarts
      BY <1>6, <1>7, <2>1, <3>1 DEF AuthoredStarted, RomStarted, starts
    <3>3. StartedSince(n, setting.notices, authored)
      BY <1>4, <2>1, <3>2 DEF StartedSince, Quiet, KeptFields
    <3>4. begins
      BY <1>4, <2>6, <3>3 DEF Begins, begins
    <3>5. nf'.warningsAtStart < history.warnings
      BY <1>6, <1>9, <3>1, <3>4
    <3>6. n.current.hist.warnings = history.warnings /\ nf'.warningsAtStart \in Nat
      BY <1>4, <1>6, <1>9, <2>4, <3>4
    <3> QED
      BY <2>2, <2>3, <2>4, <3>3, <3>5, <3>6
  <2> QED
    BY <2>5, <2>6
<1>19. TroubleInv'
  <2> SUFFICES ASSUME trouble', Quiet PROVE nf'.lostInGame \/ nf'.warningsAtStart < history.warnings
    BY <1>2, <1>18 DEF TroubleInv, Quiet, workerVars
  <2>1. nf'.inGame /\ (trouble \/ nf'.lostInGame)
    BY <1>2, <1>6, <1>18
  <2>2. ASSUME trouble PROVE nf'.lostInGame \/ nf'.warningsAtStart < history.warnings
    <3>1. CASE nf.inGame
      <4>1. nf.lostInGame \/ nf.warningsAtStart < history.warnings
        BY <2>2, <3>1 DEF TroubleInv
      <4> QED
        BY <1>4, <1>5, <1>8, <1>9, <2>1, <3>1, <4>1
    <3>2. CASE ~nf.inGame
      <4>1. /\ authored => nf.authoredStartWarnings < history.warnings
            /\ ~authored => history.warningsAtGameStart < history.warnings
        BY <1>6, <2>2, <3>2 DEF TroubleInv
      <4>2. begins
        BY <1>4, <1>8, <2>1, <3>2
      <4> QED
        BY <1>6, <1>9, <4>1, <4>2
    <3> QED
      BY <3>1, <3>2
  <2> QED
    BY <2>1, <2>2
<1> QED
  BY <1>11, <1>12, <1>13, <1>14, <1>15, <1>16, <1>17, <1>19

-----------------------------------------------------------------------------
(* Theorems.                                                               *)

LEMMA NextInv == IInv /\ [Next]_vars => IInv'
<1> SUFFICES ASSUME IInv, [Next]_vars PROVE IInv'
  OBVIOUS
<1>1. CASE UNCHANGED vars
  <2>1. /\ UNCHANGED <<now, record, history, sessionStart, declared, historyTable, posted, unseen>>
        /\ UNCHANGED <<table, running, authored, setting, nf, playing, aware, counts>>
        /\ UNCHANGED <<word, excused, trouble, gameFrom, screen>>
    BY <1>1 DEF vars, workerVars, latchVars, tableVars, apiVars, envVars, ghostVars
  <2>2. TypeInv' /\ HistoryInv' /\ SeenInv'
    <3>1. TypeInv'
      <4>1. WorkerTypes'
        BY <2>1 DEF IInv, TypeInv, WorkerTypes
      <4>2. ApiTypes'
        BY <2>1 DEF IInv, TypeInv, ApiTypes
      <4> QED
        BY <4>1, <4>2 DEF TypeInv
    <3>2. HistoryInv'
      BY <2>1 DEF IInv, HistoryInv
    <3>3. SeenInv'
      BY <2>1 DEF IInv, SeenInv
    <3> QED
      BY <3>1, <3>2, <3>3
  <2>3. PlayInv' /\ ScreenInv' /\ CountInv'
    BY <2>1 DEF IInv, PlayInv, GameKept, ScreenInv, OnScreen, CountInv
  <2>4. StartInv' /\ TroubleInv'
    BY <2>1 DEF IInv, StartInv, TroubleInv, Quiet, AuthoredStarted, RomStarted
  <2> QED
    BY <2>2, <2>3, <2>4 DEF IInv
<1>2. CASE Next
  BY <1>2, HandshakeInv, DisconnectInv, MaybeDeclareInv, NoSessionInv, AnswerStatusInv, OnGameStartInv,
     OnGameEndInv, IdentityChangesInv, CommitGameStartInv, CommitGameEndInv, FrameInv, MachineEndsInv, TickInv
     DEF Next
<1> QED
  BY <1>1, <1>2

\* The inductive invariant of the worker, the latch, the notifier and the screen: their types, how
\* what each holds follows from what the one before it held, and what each knows of a game.
THEOREM NoticeInvariant == Spec => []IInv
  BY InitInv, NextInv, PTL DEF Spec

\* Every variable keeps its type, with the bounds of all counts and of the notifier's own fields.
THEOREM TypeCorrect == Spec => []TypeOK
<1>1. IInv => TypeOK
  <2> SUFFICES ASSUME IInv PROVE TypeOK
    OBVIOUS
  <2> USE DEF IInv
  <2>1. nf \in NotifierType /\ nf.postedAt <= now /\ nf.authoredGames <= counts.games
        /\ counts \in [statuses : 0 .. MaxStatuses, sessions : 0 .. MaxSessions, games : 0 .. MaxGames]
    BY DEF TypeInv, ApiTypes, WorkerTypes
  <2>2. /\ nf.postedAt \in 0 .. now /\ nf.authoredGames \in 0 .. MaxGames
        /\ counts.statuses <= MaxStatuses /\ counts.sessions <= MaxSessions /\ counts.games <= MaxGames
    BY <2>1, NumbersTyped, Times
  <2>3. NotifierOK
    BY <2>1, <2>2 DEF NotifierOK, NotifierType, WholeType
  <2>4. screen \in [text : TextType, at : Nat, up : BOOLEAN, kept : BOOLEAN] /\ screen.at <= now
    BY DEF TypeInv, ApiTypes
  <2>5. screen.text \in TextType /\ screen.at \in 0 .. now /\ {screen.up, screen.kept} \subseteq BOOLEAN
    BY <2>4, NumbersTyped
  <2>6. posted.rec \in RecordType /\ posted.hist \in HistoryType
    BY DEF TypeInv, WorkerTypes, WholeType
  <2> QED
    BY <2>2, <2>3, <2>5, <2>6 DEF TypeOK, TypeInv, WorkerTypes, ApiTypes
<1> QED
  BY <1>1, NoticeInvariant, PTL

\* The worker follows a ROM game truly through sessions, deferrals and restarts of the daemon.
THEOREM FollowsTheGame == Spec => []GameFollowed
<1>1. IInv => GameFollowed
  <2> SUFFICES ASSUME IInv PROVE GameFollowed
    OBVIOUS
  <2> USE DEF IInv
  <2>1. ASSUME word = "none", now >= sessionStart + NO_GAME_DEFERRED
        PROVE  /\ ~RomGameInProgress(record, history, now)
               /\ ~RomGameInProgress(posted.rec, posted.hist, now)
               /\ ~unseen => ~RomGameInProgress(nf.current.rec, nf.current.hist, now)
    <3>1. history.romGame =>
            history.romGameEndsAt # NONE /\ history.romGameEndsAt = sessionStart + NO_GAME_DEFERRED
      BY <2>1 DEF HistoryInv
    <3>2. ~RomGameInProgress(record, history, now)
      BY <2>1, <3>1, NumbersTyped, Times DEF RomGameInProgress
    <3>3. posted.rec = record /\ posted.hist = history /\ posted \in WholeType
      BY DEF HistoryInv, Whole, TypeInv, WorkerTypes
    <3>4. ~RomGameInProgress(GameForgotten(posted).rec, GameForgotten(posted).hist, now)
      BY <3>3, GameForgottenFacts DEF RomGameInProgress
    <3> QED
      BY <3>2, <3>3, <3>4 DEF SeenInv
  <2> QED
    BY <2>1 DEF GameFollowed, GameKept, GameEnds, PlayInv
<1> QED
  BY <1>1, NoticeInvariant, PTL

\* A notice comes up only by a frame that posts one.
LEMMA PostsIsPost ==
  ASSUME IInv, Next, Posts
  PROVE  OnPrepareFrame /\ Act.kind = "Post" /\ screen'.text = Act.text
<1>1. CASE OnPrepareFrame
  BY <1>1, ScreenStep DEF Posts, ScreenAfter
<1>2. CASE \E kind \in Kinds : OnGameStart(kind)
  <2>1. screen' = [screen EXCEPT !.up = FALSE] /\ screen \in [text : TextType, at : Nat, up : BOOLEAN, kept : BOOLEAN]
    BY <1>2 DEF OnGameStart, IInv, TypeInv, ApiTypes
  <2> QED
    BY <2>1 DEF Posts
<1>3. CASE screen' = screen
  BY <1>3 DEF Posts
<1>4. OnPrepareFrame \/ (\E kind \in Kinds : OnGameStart(kind)) \/ screen' = screen
  BY DEF Next, Handshake, Disconnect, MaybeDeclare, NoSession, AnswerStatus, OnGameEnd, IdentityChanges,
         CommitGameStart, CommitGameEnd, MachineEnds, Tick, ghostVars
<1> QED
  BY <1>1, <1>2, <1>3, <1>4

\* With StatusNotices 1 no notice comes up in a game, and one that was up is taken down.
THEOREM StaysQuiet == Spec => QuietInGame
<1>1. IInv /\ IInv' /\ [Next]_vars => [NoneComesUp /\ TakenDown]_vars
  <2> SUFFICES ASSUME IInv, IInv', Next PROVE NoneComesUp /\ TakenDown
    BY DEF NoneComesUp, TakenDown
  <2>1. NoneComesUp
    <3> SUFFICES ASSUME Posts, Quiet, IF authored THEN nf.authoredGame ELSE playing /\ ~excused PROVE FALSE
      BY DEF NoneComesUp, Quiet
    <3>1. Act.kind = "Post" /\ OnPrepareFrame
      BY PostsIsPost
    <3>2. ~Act.n.inGame /\ Act.n.inGame = NowIn(Seeing, setting.notices, authored, now)
      BY <3>1, ActFacts DEF FrameDone, FramePosts, FrameTypes, Followed
    <3>3. /\ Seeing.authoredGame = nf.authoredGame
          /\ historyTable = table /\ history.romGame => Seeing.current = posted
      BY SeeingFacts
    <3>4. CASE authored
      BY <3>2, <3>3, <3>4 DEF NowIn, Quiet
    <3>5. CASE ~authored
      <4>1. historyTable = table /\ RomGameInProgress(record, history, now)
        BY <3>5 DEF IInv, PlayInv, GameKept
      <4>2. Seeing.current = posted /\ posted.rec = record /\ posted.hist = history
        BY <3>3, <4>1 DEF RomGameInProgress, IInv, HistoryInv, Whole
      <4> QED
        BY <3>2, <3>5, <4>1, <4>2 DEF NowIn, Quiet
    <3> QED
      BY <3>4, <3>5
  <2>2. TakenDown
    BY DEF TakenDown, IInv, ScreenInv
  <2> QED
    BY <2>1, <2>2
<1> QED
  BY <1>1, NoticeInvariant, PTL DEF Spec, QuietInGame

\* The trouble of a game is told at the first frame after it that may show notices, and only trouble
\* of that game is told as such.
THEOREM TellsTrouble == Spec => TroubleTold
<1>1. ASSUME IInv, IInv', OnPrepareFrame PROVE nf'.inGame \/ ~trouble'
  <2> SUFFICES ASSUME ~nf'.inGame, trouble' PROVE FALSE
    OBVIOUS
  <2>1. Quiet' /\ authored' = authored /\ history' = history
    BY <1>1, FrameStep DEF Quiet, tableVars, workerVars
  <2>2. nf' = Act.n /\ Followed(Seeing, nf', setting.notices, authored, now)
    BY <1>1, FrameStep, ActFacts DEF FrameDone, FrameTypes
  <2>3. /\ nf'.authoredLast = authored /\ nf'.authoredGames = Seeing.authoredGames
        /\ nf'.seenStarts = IF authored THEN Seeing.authoredGames ELSE Seeing.current.hist.romGames
    BY <2>2 DEF Followed, StartsOf
  <2>4. Seeing.current.hist.romGames = history.romGames
    BY <1>1, SeeingFacts
  <2>5. authored \in BOOLEAN
    BY <1>1 DEF IInv, TypeInv, ApiTypes
  <2>6. /\ authored => AuthoredStarted'
        /\ ~authored => RomStarted'
    BY <1>1, <2>1, <2>5 DEF IInv, TroubleInv
  <2>7. CASE authored
    BY <2>3, <2>5, <2>6, <2>7 DEF AuthoredStarted
  <2>8. CASE ~authored
    BY <2>1, <2>3, <2>4, <2>5, <2>6, <2>8 DEF RomStarted
  <2> QED
    BY <2>7, <2>8
<1>2. ASSUME IInv, Next, Posts, screen'.text[2] = "during the game", screen'.text[3] # "no connection"
      PROVE  ScriptStatus.hist.warnings > gameFrom[authored]
  <2> DEFINE n == Seeing
             begins == Begins(n, setting.notices, authored, now)
             atStart == Act.n.warningsAtStart
  <2>1. OnPrepareFrame /\ Act.kind = "Post" /\ Act.text[2] = "during the game" /\ Act.text[3] # "no connection"
    BY <1>2, PostsIsPost
  <2>2. FrameTypes(n, setting, authored, now, Act) /\ FramePosts(n, Act, now)
    BY <1>2, ActFacts DEF FrameDone
  <2>3. n.current.hist.warnings # atStart
    BY <2>1, <2>2 DEF FramePosts
  <2>4. n.inGame \/ StartedSince(n, setting.notices, authored)
    BY <2>1, <2>2 DEF FrameTypes
  <2>5. /\ atStart = IF ~begins THEN n.warningsAtStart
                     ELSE IF authored THEN n.authoredStartWarnings ELSE n.current.hist.warningsAtGameStart
    BY <2>2 DEF FrameTypes, Followed
  <2>6. /\ n.inGame = nf.inGame /\ n.warningsAtStart = nf.warningsAtStart
        /\ n.authoredStartWarnings = nf.authoredStartWarnings
        /\ n.current.hist.warningsAtGameStart = history.warningsAtGameStart
        /\ n.current.hist.warnings = history.warnings
    BY <1>2, SeeingFacts DEF KeptFields
  <2>7. n.inGame \in BOOLEAN /\ authored \in BOOLEAN /\ gameFrom \in [BOOLEAN -> 0 .. MaxStatuses]
    BY <1>2, <2>6 DEF IInv, TypeInv, ApiTypes, NotifierType
  <2>8. begins \/ n.inGame
    BY <2>4, <2>7 DEF Begins
  <2> DEFINE from == gameFrom[authored]
  <2>9. from <= atStart /\ atStart <= history.warnings /\ atStart \in Nat
    <3>1. CASE begins /\ authored
      <4>1. from <= nf.authoredStartWarnings /\ nf.authoredStartWarnings <= history.warnings
        BY <1>2, <2>7, <3>1 DEF IInv, CountInv
      <4>2. nf.authoredStartWarnings \in Nat
        BY <1>2, NumbersTyped DEF IInv
      <4> QED
        BY <2>5, <2>6, <3>1, <4>1, <4>2
    <3>2. CASE begins /\ ~authored
      <4>1. from <= history.warningsAtGameStart /\ history.warningsAtGameStart <= history.warnings
        BY <1>2, <2>7, <3>2 DEF IInv, CountInv, HistoryInv
      <4>2. history.warningsAtGameStart \in Nat
        BY <1>2, NumbersTyped DEF IInv
      <4> QED
        BY <2>5, <2>6, <3>2, <4>1, <4>2
    <3>3. CASE ~begins
      <4>1. from <= nf.warningsAtStart /\ nf.warningsAtStart <= history.warnings
        BY <1>2, <2>6, <2>8, <3>3 DEF IInv, CountInv
      <4>2. nf.warningsAtStart \in Nat
        BY <1>2, NumbersTyped DEF IInv
      <4> QED
        BY <2>5, <2>6, <3>3, <4>1, <4>2
    <3> QED
      BY <3>1, <3>2, <3>3
  <2>10. from \in Nat /\ history.warnings \in Nat
    <3>1. from \in 0 .. MaxStatuses
      BY <2>7
    <3>2. TypeInv
      BY <1>2 DEF IInv
    <3>3. history.warnings \in Nat
      BY <3>2, NumbersTyped
    <3>4. 0 .. MaxStatuses \subseteq Nat
      BY Times
    <3> QED
      BY <3>1, <3>3, <3>4
  <2>11. ScriptStatus.hist.warnings = history.warnings
    BY <1>2 DEF ScriptStatus, IInv, HistoryInv, Whole
  <2> HIDE DEF from, atStart, n
  <2>12. from < history.warnings
    BY <2>3, <2>6, <2>9, <2>10
  <2> QED
    BY <2>10, <2>11, <2>12 DEF from
<1>3. IInv /\ IInv' /\ [Next]_vars => [ToldAfterwards /\ EarlierIsTrue]_vars
  <2> SUFFICES ASSUME IInv, IInv', Next PROVE ToldAfterwards /\ EarlierIsTrue
    OBVIOUS
  <2>1. ToldAfterwards
    BY <1>1 DEF ToldAfterwards
  <2>2. EarlierIsTrue
    BY <1>2 DEF EarlierIsTrue
  <2> QED
    BY <2>1, <2>2
<1> QED
  BY <1>3, NoticeInvariant, PTL DEF Spec, TroubleTold

\* The light and the words say the same of the record posted last.
LEMMA Agrees ==
  ASSUME posted \in WholeType, now \in Nat
  PROVE  LightAgrees
<1> DEFINE c == posted
           s == c.rec.status
           view == LightFor(c, now, DarkLight)
           caption == CaptionFor(c, now)
           odd == s.session = "unknown" /\ s.auth \in {"not authenticated", "failed"}
<1>1. s \in StatusType /\ c.rec.inSession \in BOOLEAN /\ c.rec.haveStatus \in BOOLEAN
  <2>1. c.rec \in RecordType
    BY DEF WholeType
  <2>2. NoStatus \in StatusType
    BY DEF NoStatus, StatusType, SessionStates, SystemStates, AuthStates
  <2> QED
    BY <2>1, <2>2, StatusesAssumption DEF RecordType
<1>2. SUFFICES /\ (c.rec.inSession /\ odd) \/ (view.glyph = "problem" <=> IsProblem(caption))
               /\ Hidden(c) => ~view.visible /\ caption = NoText
  BY DEF LightAgrees, ScriptStatus
\* A dark light, and no words.
<1>7. /\ view = DarkLight => view.glyph # "problem" /\ ~view.visible
      /\ caption = NoText => ~IsProblem(caption)
  <2> HIDE DEF view, caption
  <2>1. DarkLight.glyph = "none" /\ DarkLight.visible = FALSE
    BY DEF DarkLight
  <2>2. "none" # "problem"
    OBVIOUS
  <2> QED
    BY <2>1, <2>2, NoTextFacts
<1> HIDE DEF c
<1>3. CASE ~c.rec.inSession
  <2>1. ~Hidden(c)
    BY <1>3 DEF Hidden
  <2>2. CASE now - c.rec.since < NO_SESSION_AFTER
    <3>1. view = DarkLight
      BY <1>3, <2>2 DEF LightFor
    <3>2. caption = NoText
      <4>1. ~(now - c.rec.since >= NO_SESSION_AFTER)
        <5>1. c.rec.since \in Nat
          BY Times DEF WholeType, RecordType, c
        <5> QED
          BY <2>2, <5>1, Times
      <4> QED
        BY <1>3, <2>1, <4>1 DEF CaptionFor, Want
    <3> QED
      BY <1>7, <2>1, <3>1, <3>2
  <2>3. CASE ~(now - c.rec.since < NO_SESSION_AFTER)
    <3>1. view.glyph = "problem"
      BY <1>3, <2>3 DEF LightFor
    <3>2. caption = DescribeNoSession
      <4>1. now - c.rec.since >= NO_SESSION_AFTER
        <5>1. c.rec.since \in Nat
          BY Times DEF WholeType, RecordType, c
        <5> QED
          BY <2>3, <5>1, Times
      <4> QED
        BY <1>3, <2>1, <4>1 DEF CaptionFor, Want
    <3> QED
      BY <2>1, <3>1, <3>2, NoSessionFacts
  <2> QED
    BY <2>2, <2>3
<1>4. CASE c.rec.inSession /\ ~c.rec.haveStatus
  <2>1. view = DarkLight /\ caption = NoText /\ ~Hidden(c)
    BY <1>4 DEF LightFor, CaptionFor, Want, Hidden
  <2> QED
    BY <1>7, <2>1
<1>5. CASE Hidden(c)
  <2>1. view = DarkLight /\ caption = NoText
    BY <1>5 DEF LightFor, CaptionFor, Hidden
  <2> QED
    BY <1>7, <2>1
<1>6. CASE c.rec.inSession /\ c.rec.haveStatus /\ ~Hidden(c)
  <2>1. s.session # "hidden"
    BY <1>6 DEF Hidden
  <2>2. caption = Describe(s) /\ (IsProblem(caption) <=> Marker(s) = "[!]")
    <3>1. caption = Describe(s)
      BY <1>6 DEF CaptionFor, Want
    <3> QED
      BY <1>1, <2>1, <3>1, DescribeFacts DEF IsProblem
  <2> DEFINE unauthorized == s.auth \in {"not authenticated", "failed"}
             system == IF s.auth = "unpaired" /\ s.system = "ok" THEN "unpaired" ELSE s.system
             known == unauthorized \/ s.session # "unknown"
  <2>3. view.glyph = IF system = "unknown" \/ ~known THEN "unknown"
                     ELSE IF unauthorized \/ s.auth = "unpaired" \/ system # "ok" \/ s.session = "no data" THEN "problem"
                     ELSE "none"
    BY <1>6, <2>1 DEF LightFor
  <2>4. ~odd => (view.glyph = "problem" <=> Marker(s) = "[!]")
    <3> HIDE DEF view, s
    <3>1. s.auth \in AuthStates /\ s.system \in SystemStates /\ s.session \in SessionStates
      BY <1>1 DEF StatusType
    <3> QED
      BY <2>3, <3>1 DEF Marker, AuthProblem, AuthStates, SystemStates, SessionStates
  <2> QED
    BY <1>6, <2>2, <2>4
<1> QED
  BY <1>1, <1>3, <1>4, <1>5, <1>6

\* A problem that holds is told on every surface: by the notice, renewed before it expires, and by
\* the light and its caption.
THEOREM TellsTruly == Spec => ToldTruly
<1>1. ASSUME IInv, OnPrepareFrame, MayShow(nf'), ~nf'.inGame, IsProblem(Want(nf'.current, now))
      PROVE  screen'.text = Want(nf'.current, now) /\ now - screen'.at < REFRESH_EVERY
  <2> DEFINE want == Want(nf'.current, now)
  <2>1. nf' = Act.n /\ FrameTypes(Seeing, setting, authored, now, Act)
        /\ FrameTells(Seeing, setting, authored, now, Act) /\ ScreenAfter
    BY <1>1, FrameStep, ActFacts, ScreenStep DEF FrameDone
  <2>2. nf'.current = Seeing.current /\ Seeing.posted = nf.posted /\ Seeing.postedAt = nf.postedAt
    BY <1>1, <2>1, SeeingFacts DEF FrameTypes, Followed, KeptFields
  <2>3. Shows(Seeing, setting)
    BY <1>1, <2>2 DEF MayShow, Shows
  <2>4. \/ Act.kind = "Post" /\ Act.text = want
        \/ Act.kind = "None" /\ nf.posted = want /\ now - nf.postedAt < REFRESH_EVERY
    BY <1>1, <2>1, <2>2, <2>3 DEF FrameTells
  <2>5. CASE Act.kind = "Post" /\ Act.text = want
    <3>1. now - now < REFRESH_EVERY
      BY <1>1, NumbersTyped, Times DEF IInv
    <3> QED
      BY <2>1, <2>5, <3>1 DEF ScreenAfter
  <2>6. CASE Act.kind = "None" /\ nf.posted = want /\ now - nf.postedAt < REFRESH_EVERY
    BY <1>1, <2>1, <2>6 DEF ScreenAfter, IInv, ScreenInv
  <2> QED
    BY <2>4, <2>5, <2>6
<1>2. IInv => LightAgrees
  BY Agrees, NumbersTyped DEF IInv, TypeInv, WorkerTypes
<1>5. IInv /\ LightAgrees' /\ [Next]_vars => [StaysTold /\ LightAgrees']_vars
  BY <1>1 DEF StaysTold
<1> QED
  BY <1>2, <1>5, NoticeInvariant, PTL DEF Spec, ToldTruly

=============================================================================
