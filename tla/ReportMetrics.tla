---------------------------- MODULE ReportMetrics ----------------------------
(***************************************************************************)
(* The numbers a studio is shown: the blocks of a test's report, the lists   *)
(* beside them, the cards of its games and the KPIs of its Home.  Each comes *)
(* from queries of its own over the rows that play, validation, forms and    *)
(* reviews leave, so what is modelled is the queries, and rows that change   *)
(* as those operations change them.  One organisation.  A participation has  *)
(* at most one session (SessionLifecycle), which goes by its id here.        *)
(* An average is the rows it is taken over; durations are left out.           *)
(***************************************************************************)
EXTENDS Integers, SequencesExt, FiniteSetsExt

CONSTANTS
    Users, Games, Tests, UserOf, TestOf, GameOf,
    Parts,                    \* ids of participations
    Published,                \* tests in status published
    StartDay, NoDay,          \* of a test: coalesce(starts_at, published_at)
    Days, SinceDay,           \* SinceDay: the first of the last DASHBOARD_STATS_DAYS
    Profile,                  \* of a user: age bracket, archetype, tier
    Questions, QuestionsOf, QuestionOf,   \* the form of a test
    Forms,                    \* what a player may send: sequences of answers
    MaxRating                 \* RATING_SCALE_BOUNDS is 0..MaxRating

VARIABLES joined, session, day, verdict,
          response,   \* form_responses with its form_answers, by question
          legacy,     \* responses stored before answers were checked
          review, deleted

vars == <<joined, session, day, verdict, response, legacy, review, deleted>>

Null == -1
NoResponse == [sent |-> FALSE]

Init ==
    /\ joined = {}
    /\ session = [p \in Parts |-> "none"]
    /\ day = [p \in Parts |-> NoDay]
    /\ verdict = [p \in Parts |-> "none"]
    /\ response = [p \in Parts |-> NoResponse]
    /\ legacy = {}
    /\ review = [u \in Users |-> [g \in Games |-> Null]]
    /\ deleted = {}

-----------------------------------------------------------------------------
(* Rows and what the queries count in them. *)
Ratio(part, whole) == IF whole > 0 THEN <<part, whole>> ELSE Null
Total(f) == FoldFunction(+, 0, f)
PartsOf(T) == {p \in joined : TestOf[p] \in T}
SessionsOf(T) == {p \in PartsOf(T) : session[p] # "none"}
Completed(T) == {p \in SessionsOf(T) : session[p] = "completed"}
Valid(T) == {p \in SessionsOf(T) : verdict[p] = "valid"}
Ended(T) == {p \in SessionsOf(T) : session[p] # "open"}
UsersOf(P) == {UserOf[p] : p \in P}
TestsOf(G) == {t \in Tests : GameOf[t] \in G}

(* form_answers of a question, joined to responses, sessions and questions. *)
AnswersTo(t, q) ==
    {p \in SessionsOf({t}) : response[p].sent /\ q \in DOMAIN response[p].answers}
Value(p, q) == response[p].answers[q]
Rating(q) == QuestionOf[q].type \in {"scale", "nps"}
RatingInScale(v) == v.kind = "number" /\ v.n \in 0..MaxRating
Numbers(t, q) == {p \in AnswersTo(t, q) : Value(p, q).kind = "number"}

-----------------------------------------------------------------------------
(* checkFormAnswers: the first answer to a question counts, a blank one as     *)
(* none; a foreign, repeated or unfitting one, or a missing required one, is  *)
(* a field error, and one error rejects the form.                            *)
Blank(v) == (v.kind = "text" /\ v.size = "blank") \/ (v.kind = "list" /\ v.ids = <<>>)
ScaleOf(q) == (IF QuestionOf[q].min = Null THEN 0 ELSE QuestionOf[q].min)
              ..(IF QuestionOf[q].max = Null THEN MaxRating ELSE QuestionOf[q].max)

FitsAnyNumber(q, v) == v.kind = "number"    \* mutant: the range is not checked
Fits(q, v) ==
    CASE QuestionOf[q].type = "open_text" -> v.kind = "text" /\ v.size # "long"
      [] QuestionOf[q].type = "boolean"   -> v.kind = "boolean"
      [] Rating(q)                        -> v.kind = "number" /\ v.n \in ScaleOf(q)
      [] QuestionOf[q].type = "single_choice" ->
            \/ /\ v.kind = "option" /\ v.id \in QuestionOf[q].options
            \/ /\ v.kind = "list" /\ Len(v.ids) = 1 /\ v.ids[1] \in QuestionOf[q].options
      [] QuestionOf[q].type = "multiple_choice" ->
            v.kind = "list" /\ IsInjective(v.ids) /\ ToSet(v.ids) \subseteq QuestionOf[q].options

CheckFormAnswers(t, raw) ==
    LET first    == {i \in DOMAIN raw : \A j \in 1..(i - 1) : raw[j].q # raw[i].q}
        own      == {i \in first : raw[i].q \in QuestionsOf[t]}
        given    == {i \in own : ~Blank(raw[i].value)}
        accepted == {i \in given : Fits(raw[i].q, raw[i].value)}
        Stored(v) == IF v.kind = "option" THEN [kind |-> "list", ids |-> <<v.id>>] ELSE v IN
    [errors  |-> \/ own # DOMAIN raw \/ accepted # given
                 \/ \E q \in QuestionsOf[t] :
                       QuestionOf[q].required /\ \A i \in accepted : raw[i].q # q,
     answers |-> [q \in {raw[i].q : i \in accepted} |->
                     Stored(raw[CHOOSE i \in accepted : raw[i].q = q].value)]]

-----------------------------------------------------------------------------
(* The blocks of a report. *)
AverageRating(t) == UNION {Numbers(t, q) \X {q} : q \in {x \in Questions : Rating(x)}}
Overview(t) ==
    [totalParticipations |-> Cardinality(PartsOf({t})),
     testersCount        |-> Cardinality(UsersOf(PartsOf({t}))),
     completedSessions   |-> Cardinality(Completed({t})),
     validSessions       |-> Cardinality(Valid({t})),
     completionRate      |-> Ratio(Cardinality(Completed({t})), Cardinality(PartsOf({t}))),
     averageRating       |-> AverageRating(t)]

GroupEvolutionByWeek(points, start) ==
    LET base == IF start = NoDay THEN Min(DOMAIN points) ELSE start
        WeekOf(d) == Max({1, (d - base) \div 7 + 1}) IN
    IF DOMAIN points = {} THEN <<>>
    ELSE [w \in 1..Max({WeekOf(d) : d \in DOMAIN points}) |->
            [startDay |-> base + (w - 1) * 7,
             sessions |-> Total([d \in {x \in DOMAIN points : WeekOf(x) = w} |-> points[d]])]]

Evolution(t) ==
    LET points == [d \in {day[p] : p \in SessionsOf({t})} |->
                      Cardinality({p \in SessionsOf({t}) : day[p] = d})] IN
    [points |-> points, weeks |-> GroupEvolutionByWeek(points, StartDay[t])]

InScale(t, q) == {p \in Numbers(t, q) : RatingInScale(Value(p, q))}
RatingDistribution(t) ==
    LET rated == UNION {InScale(t, q) \X {q} : q \in {x \in Questions : Rating(x)}} IN
    [n \in 0..MaxRating |-> Cardinality({a \in rated : Value(a[1], a[2]).n = n})]

(* Users are grouped by archetype and tier, and the groups tallied per key;   *)
(* the tier "all", which the column allows, is no key.                       *)
Archetypes == {"achiever", "explorer", "socializer", "killer", "unknown"}
Tiers == {"casual", "experienced", "trained", "qa", "unknown"}
TesterProfile(t) ==
    LET users == UsersOf(PartsOf({t}))
        Key(u) == <<Profile[u].archetype, Profile[u].tier>>
        profileRows == [r \in {Key(u) : u \in users} |-> Cardinality({u \in users : Key(u) = r})]
        Tally(R) == Total([r \in R |-> profileRows[r]]) IN
    [ageBrackets |-> [b \in {Profile[u].bracket : u \in users} |->
                         Cardinality({u \in users : Profile[u].bracket = b})],
     archetypes  |-> [k \in Archetypes |-> Tally({r \in DOMAIN profileRows : r[1] = k})],
     playerTiers |-> [k \in Tiers |-> Tally({r \in DOMAIN profileRows : r[2] = k})]]

(* The values of a rating question, laid out over its own scale if that has   *)
(* two ends, given or met, not further apart than the widest scale.          *)
Distribution(t, q) ==
    LET rated == InScale(t, q)
        met == {Value(p, q).n : p \in rated}
        ends == [min |-> QuestionOf[q].min # Null \/ met # {},
                 max |-> QuestionOf[q].max # Null \/ met # {}]
        lo == IF QuestionOf[q].min # Null THEN QuestionOf[q].min ELSE Min(met)
        hi == IF QuestionOf[q].max # Null THEN QuestionOf[q].max ELSE Max(met)
        shown == IF ends.min /\ ends.max /\ hi - lo <= MaxRating THEN lo..hi ELSE met IN
    IF Rating(q) THEN [n \in shown |-> Cardinality({p \in rated : Value(p, q).n = n})] ELSE <<>>

SampleSize == 3
QuestionSummary(t, q) ==
    LET f == QuestionOf[q]
        choices == {p \in AnswersTo(t, q) : Value(p, q).kind = "list"}
        texts == {p \in AnswersTo(t, q) : Value(p, q).kind = "text" /\ ~Blank(Value(p, q))} IN
    [responsesCount |-> Cardinality(AnswersTo(t, q)),
     average        |-> IF Rating(q) THEN Numbers(t, q) ELSE {},
     distribution   |-> Distribution(t, q),
     options        |-> [o \in f.options |->
                            Cardinality({c \in choices \X (1..Cardinality(f.options)) :
                                            /\ c[2] \in DOMAIN Value(c[1], q).ids
                                            /\ Value(c[1], q).ids[c[2]] = o})],
     samples        |-> IF f.type = "open_text"
                        THEN Min({SampleSize, Cardinality(texts)}) ELSE 0]

Evaluations(t) ==
    LET answered == {p \in SessionsOf({t}) : response[p].sent} IN
    [questionsCount |-> Cardinality(QuestionsOf[t]),
     responsesCount |-> Cardinality(answered),
     dropoutRate    |-> Ratio(Cardinality(Ended({t}) \ answered), Cardinality(Ended({t}))),
     questions      |-> [q \in QuestionsOf[t] |-> QuestionSummary(t, q)]]

-----------------------------------------------------------------------------
(* How many sessions are listed; their pages are in ListPages. *)
CountSessions(t) == Cardinality(SessionsOf({t}))

(* What a session's evaluation shows of a question. *)
SessionEvaluation(p) == IF response[p].sent THEN response[p].answers ELSE <<>>

-----------------------------------------------------------------------------
(* Cards of games, the benchmark, and the Home. *)
RatingOf(G) == {a \in Users \X G : review[a[1]][a[2]] # Null}
Live == Games \ deleted

MetricsByGameId(g) ==
    [testsTotal    |-> Cardinality(TestsOf({g})),
     testsActive   |-> Cardinality(TestsOf({g}) \cap Published),
     sessionsValid |-> Cardinality(Valid(TestsOf({g}))),
     playersTotal  |-> Cardinality(UsersOf(PartsOf(TestsOf({g})))),
     averageRating |-> RatingOf({g})]

GameBenchmark(g) ==
    LET T == TestsOf({g}) IN
    [participationsTotal |-> Cardinality(PartsOf(T)),
     sessionsCompleted   |-> Cardinality(Completed(T)),
     playersTotal        |-> Cardinality(UsersOf(PartsOf(T))),
     averageRating       |-> RatingOf({g}),
     completionRate      |-> Ratio(Cardinality(Completed(T)), Cardinality(PartsOf(T)))]

RatedGamesAll == Games    \* mutant: reviews of removed games count at Home
RatedGames == Live
KpiCounts ==
    [gamesTotal          |-> Cardinality(Live),
     testsTotal          |-> Cardinality(Tests),
     testsActive         |-> Cardinality(Published),
     sessionsValid       |-> Cardinality(Valid(Tests)),
     sessionsCompleted   |-> Cardinality(Completed(Tests)),
     participationsTotal |-> Cardinality(PartsOf(Tests)),
     playersTotal        |-> Cardinality(UsersOf(PartsOf(Tests))),
     averageRating       |-> RatingOf(RatedGames)]

Kpis == [completionRate |-> Ratio(KpiCounts.sessionsCompleted, KpiCounts.participationsTotal)]

ValidSessionsPerDay ==
    [d \in {day[p] : p \in {x \in Valid(Tests) : day[x] >= SinceDay}} |->
        Cardinality({p \in Valid(Tests) : day[p] = d})]

-----------------------------------------------------------------------------
(* What writes the rows: SessionLifecycle's operations, as far as the queries  *)
(* tell them apart.                                                          *)
Join(p) ==
    /\ p \notin joined
    /\ \A o \in joined : UserOf[o] = UserOf[p] /\ TestOf[o] = TestOf[p] => verdict[o] = "invalid"
    /\ joined' = joined \cup {p}
    /\ UNCHANGED <<session, day, verdict, response, legacy, review, deleted>>

Start(p, d) ==
    /\ p \in joined /\ session[p] = "none"
    /\ session' = [session EXCEPT ![p] = "open"]
    /\ day' = [day EXCEPT ![p] = d]
    /\ UNCHANGED <<joined, verdict, response, legacy, review, deleted>>

(* finish, or the sweep's timeout. *)
Ends(p, status) ==
    /\ session[p] = "open"
    /\ session' = [session EXCEPT ![p] = status]
    /\ UNCHANGED <<joined, day, verdict, response, legacy, review, deleted>>

Judge(p, v) ==
    /\ verdict[p] = "none"
    /\ session[p] \in (IF v = "valid" THEN {"processing"} ELSE {"processing", "invalidated"})
    /\ verdict' = [verdict EXCEPT ![p] = v]
    /\ session' = [session EXCEPT ![p] = IF v = "valid" THEN "completed" ELSE "invalidated"]
    /\ UNCHANGED <<joined, day, response, legacy, review, deleted>>

(* rateSession marks a valid session, or takes that back (ReportCaches). *)
Rate(p, from, to) ==
    /\ verdict[p] = from
    /\ verdict' = [verdict EXCEPT ![p] = to]
    /\ UNCHANGED <<joined, session, day, response, legacy, review, deleted>>

(* submitFormResponse looks at no status: a form may come before the end. *)
Submit(p, raw) ==
    /\ session[p] # "none" /\ ~response[p].sent
    /\ ~CheckFormAnswers(TestOf[p], raw).errors
    /\ response' = [response EXCEPT ![p] =
                       [sent |-> TRUE, answers |-> CheckFormAnswers(TestOf[p], raw).answers]]
    /\ UNCHANGED <<joined, session, day, verdict, legacy, review, deleted>>

(* Rows from before answers were checked: any number for a rating. *)
SubmitUnchecked(p, raw) ==
    /\ session[p] # "none" /\ ~response[p].sent
    /\ raw # <<>> /\ CheckFormAnswers(TestOf[p], raw).errors
    /\ \A i, j \in DOMAIN raw : raw[i].q \in QuestionsOf[TestOf[p]] /\ (raw[i].q = raw[j].q => i = j)
    /\ \A i \in DOMAIN raw : Rating(raw[i].q) /\ raw[i].value.kind = "number"
    /\ response' = [response EXCEPT ![p] =
                       [sent |-> TRUE,
                        answers |-> [q \in {raw[i].q : i \in DOMAIN raw} |->
                                        raw[CHOOSE i \in DOMAIN raw : raw[i].q = q].value]]]
    /\ legacy' = legacy \cup {p}
    /\ UNCHANGED <<joined, session, day, verdict, review, deleted>>

(* One review per player and game, once a session of it was found valid. *)
CreateReview(u, g, rating) ==
    /\ g \in Live
    /\ \E p \in Valid(TestsOf({g})) : UserOf[p] = u
    /\ review[u][g] = Null
    /\ review' = [review EXCEPT ![u][g] = rating]
    /\ UNCHANGED <<joined, session, day, verdict, response, legacy, deleted>>

RemoveGame(g) ==
    /\ g \in Live
    /\ deleted' = deleted \cup {g}
    /\ UNCHANGED <<joined, session, day, verdict, response, legacy, review>>

Next ==
    \/ \E p \in Parts :
          \/ Join(p)
          \/ \E d \in Days : Start(p, d)
          \/ \E s \in {"processing", "invalidated"} : Ends(p, s)
          \/ \E v \in {"valid", "invalid"} : Judge(p, v)
          \/ Rate(p, "valid", "studio") \/ Rate(p, "studio", "valid")
          \/ \E raw \in Forms : Submit(p, raw) \/ SubmitUnchecked(p, raw)
    \/ \E g \in Games :
          \/ RemoveGame(g)
          \/ \E u \in Users, r \in 1..5 : CreateReview(u, g, r)

Spec == Init /\ [][Next]_vars

-----------------------------------------------------------------------------
(* The blocks of a report tell one story: the weeks and the days hold the       *)
(* sessions that the list counts; the profile charts hold the testers of the  *)
(* overview; a question's summary holds what the sessions' evaluations show;   *)
(* and the rating distribution is that of the rating questions together, of   *)
(* which only an answer from before answers were checked may be missing.      *)
WeeksAddUp(t) ==
    LET e == Evolution(t) IN
    /\ Total(e.points) = CountSessions(t)
    /\ Total([w \in DOMAIN e.weeks |-> e.weeks[w].sessions]) = CountSessions(t)
    /\ \A w \in DOMAIN e.weeks :
          /\ w > 1 => e.weeks[w].startDay = e.weeks[w - 1].startDay + 7
          /\ w = Len(e.weeks) /\ w > 1 => e.weeks[w].sessions > 0
ProfilesAddUp(t) ==
    LET profile == TesterProfile(t)
        testers == Overview(t).testersCount IN
    /\ Total(profile.ageBrackets) = testers
    /\ Total(profile.archetypes) = testers
    /\ Total(profile.playerTiers) =
          Cardinality({u \in UsersOf(PartsOf({t})) : Profile[u].tier # "all"})
RatingsAddUp(t) ==
    LET ev == Evaluations(t)
        rating == {q \in QuestionsOf[t] : Rating(q)}
        shown == Total([q \in rating |-> Total(ev.questions[q].distribution)]) IN
    /\ shown <= Total(RatingDistribution(t))
    /\ legacy \cap PartsOf({t}) = {} =>
          /\ shown = Total(RatingDistribution(t))
          /\ shown = Total([q \in rating |-> ev.questions[q].responsesCount])
          /\ shown = Cardinality(AverageRating(t))
QuestionsAddUp(t) ==
    LET summary == Evaluations(t).questions IN
    \A q \in QuestionsOf[t] :
        summary[q].responsesCount =
            Cardinality({p \in SessionsOf({t}) : q \in DOMAIN SessionEvaluation(p)})
BlocksAddUp ==
    \A t \in Tests :
        WeeksAddUp(t) /\ ProfilesAddUp(t) /\ QuestionsAddUp(t) /\ RatingsAddUp(t)

(* "So the Home never disagrees with the game and report screens": the Home's  *)
(* sessions and participations are those of the reports together and of the   *)
(* cards of all games; the benchmark of a game is that of its tests; and what *)
(* the cards of the games still listed lack is what the tests of removed     *)
(* games hold, which the Home goes on counting.                              *)
HomeAgrees ==
    LET home == KpiCounts
        report == [t \in Tests |-> Overview(t)]
        card == [g \in Live |-> MetricsByGameId(g)] IN
    /\ home.sessionsValid = Total([t \in Tests |-> report[t].validSessions])
    /\ home.sessionsCompleted = Total([t \in Tests |-> report[t].completedSessions])
    /\ home.participationsTotal = Total([t \in Tests |-> report[t].totalParticipations])
    /\ Total(ValidSessionsPerDay) <= home.sessionsValid
    /\ home.sessionsValid - Cardinality(Valid(TestsOf(deleted)))
          = Total([g \in Live |-> card[g].sessionsValid])
    /\ home.testsTotal - Cardinality(TestsOf(deleted)) = Total([g \in Live |-> card[g].testsTotal])
    /\ home.averageRating = UNION {card[g].averageRating : g \in Live}
    /\ \A g \in Live :
          LET benchmark == GameBenchmark(g) IN
          /\ benchmark.playersTotal = card[g].playersTotal
          /\ benchmark.averageRating = card[g].averageRating
          /\ benchmark.sessionsCompleted >= card[g].sessionsValid
          /\ benchmark.sessionsCompleted
                = Total([t \in TestsOf({g}) |-> report[t].completedSessions])

-----------------------------------------------------------------------------
(* What the constants are, and what holds of the rows, for the sums above.     *)
DataFits ==
    /\ IsFiniteSet(Users) /\ IsFiniteSet(Games) /\ IsFiniteSet(Tests) /\ IsFiniteSet(Parts)
    /\ UserOf \in [Parts -> Users] /\ TestOf \in [Parts -> Tests] /\ GameOf \in [Tests -> Games]
    /\ Days \subseteq Int /\ StartDay \in [Tests -> Int] /\ NoDay \in Int /\ SinceDay \in Int
    /\ \A u \in Users : Profile[u].archetype \in Archetypes /\ Profile[u].tier \in Tiers \cup {"all"}
    /\ "all" \notin Tiers
    /\ IsFiniteSet(Questions) /\ QuestionsOf \in [Tests -> SUBSET Questions]
    /\ MaxRating \in Nat
    /\ \A q \in Questions : Rating(q) =>
          QuestionOf[q].min \in {Null} \cup (0..MaxRating) /\ QuestionOf[q].max \in {Null} \cup (0..MaxRating)

RowsInv ==
    /\ joined \subseteq Parts /\ deleted \subseteq Games
    /\ \A p \in Parts :
          /\ session[p] # "none" => day[p] \in Days
          /\ session[p] \in {"none", "open"} => verdict[p] = "none"
          /\ verdict[p] \in {"valid", "studio"} => session[p] = "completed"
          /\ response[p].sent /\ p \notin legacy =>
                \A q \in DOMAIN response[p].answers :
                    /\ q \in QuestionsOf[TestOf[p]]
                    /\ Rating(q) => Value(p, q).kind = "number" /\ Value(p, q).n \in ScaleOf(q)
=============================================================================
