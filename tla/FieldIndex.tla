------------------------------ MODULE FieldIndex ------------------------------
(***************************************************************************)
(* Optical field queries: AnalyticsService.field_index and field_dates of   *)
(* services/analytics.py, over the repositories that ingestion fills while  *)
(* requests are being answered.  A request reads the catalogue once, then   *)
(* looks at one candidate scene after another; field_dates does so twice    *)
(* for a date that has nothing to offer, the second time for a reason.      *)
(*                                                                          *)
(* Days and percentages are whole numbers.  What a scene holds for the one  *)
(* field asked about is a constant of the scene.                            *)
(***************************************************************************)
EXTENDS Integers, FiniteSets, FiniteSetsExt

CONSTANTS
    Requests,       \* requests answered at once (the API's worker threads)
    Scenes,         \* what ingestion will register of one source
    Row,            \* what the row of each scene says
    Mask,           \* the class of each pixel of the field within its image
    Valued,         \* those for which its index raster has a value
    Dates,          \* the days that are asked for
    WindowDays,     \* _field_index_window_days of the source
    MaxCandidates,  \* settings.max_candidate_scenes, or fewer
    MinPixels,      \* settings.field_min_usable_pixels
    MinCoverage,    \* settings.field_min_coverage_percentage
    CloudLimits,    \* the maxCloudPercentage values asked for
    MaxOutages,     \* bound: times an object cannot be read
    NoScene

\* _mask_class_policy: what the classes of the source's mask stand for.
MaskClasses == {"usable", "cloud", "shadow", "other", "nodata"}

ASSUME SeenAssumption ==
    \A s \in Scenes :
        /\ Row[s] \in [day : Int, acquired : Int, cloud : Nat, product : Nat, composite : BOOLEAN]
        /\ IsFiniteSet(DOMAIN Mask[s])
        /\ \A x \in DOMAIN Mask[s] : Mask[s][x] \in MaskClasses
        /\ Valued[s] \subseteq DOMAIN Mask[s]

ASSUME BoundsAssumption ==
    /\ IsFiniteSet(Scenes) /\ NoScene \notin Scenes
    /\ Dates \subseteq Int /\ IsFiniteSet(Dates) /\ CloudLimits \subseteq Nat
    /\ WindowDays \in Nat /\ MaxCandidates \in Nat \ {0} /\ MaxOutages \in Nat
    /\ MinPixels \in Nat /\ MinCoverage \in Nat

_percentage(part, whole) == IF whole = {} THEN 0 ELSE (100 * Cardinality(part)) \div Cardinality(whole)

\* Of the field only the pixels within the image are counted.
categorical_mask_stats(mask) ==
    LET field == DOMAIN mask
        Of(classes) == {x \in field : mask[x] \in classes}
    IN  [onField |-> field # {},
         usablePixels |-> Cardinality(Of({"usable"})),
         usable |-> _percentage(Of({"usable"}), field),
         coverage |-> _percentage(Of(MaskClasses \ {"nodata"}), field),
         obscured |-> _percentage(Of({"cloud", "shadow"}), field)]

raster_stats(valued, field) ==
    [validPixels |-> Cardinality(valued), usable |-> _percentage(valued, field)]

\* What a scene is judged by: the lower of what its mask and its raster give.
Measured(s) ==
    LET mask == categorical_mask_stats(Mask[s])
        raster == raster_stats(Valued[s], DOMAIN Mask[s])
    IN  [onField |-> mask.onField, coverage |-> mask.coverage, obscured |-> mask.obscured,
         pixels |-> Min({mask.usablePixels, raster.validPixels}),
         usable |-> Min({mask.usable, raster.usable})]

Seen ==
    [s \in Scenes |->
        LET row == Row[s]
            field == Measured(s)
        IN  [day |-> row.day, acquired |-> row.acquired, cloud |-> row.cloud,
             product |-> row.product, composite |-> row.composite,
             onField |-> field.onField, coverage |-> field.coverage,
             obscured |-> field.obscured, pixels |-> field.pixels, usable |-> field.usable]]

VARIABLES
    registered,     \* provider_scenes: the scenes of the source
    derived,        \* the scenes whose index raster has its row and its mask
    unreadable,     \* the scenes whose objects cannot be read now
    outages,        \* how often that has begun
    call            \* the requests in flight

vars == <<registered, derived, unreadable, outages, call>>

Rejections ==
    {"CLOUD_THRESHOLD_EXCEEDED", "PROCESSING_FAILED", "PROCESSING_PENDING",
     "INSUFFICIENT_FIELD_COVERAGE", "NO_FIELD_INTERSECTION"}

\* Mutant: a tile that is off the field comes before one that is too cloudy.
OffFieldFirst ==
    [r \in Rejections |-> IF r = "NO_FIELD_INTERSECTION" THEN 0 ELSE 1]

priority ==
    [r \in Rejections |->
        CASE r = "CLOUD_THRESHOLD_EXCEEDED"    -> 0
          [] r = "PROCESSING_FAILED"           -> 1
          [] r = "PROCESSING_PENDING"          -> 2
          [] r = "INSUFFICIENT_FIELD_COVERAGE" -> 3
          [] r = "NO_FIELD_INTERSECTION"       -> 4]

Unanswered == [status |-> "", scene |-> NoScene]

\* A request that is not there.  derived0 is what was derived when it began and
\* unsure what could not be read at some time since: only the properties ask.
Idle ==
    [pc |-> "idle", kind |-> "", date |-> 0, dates |-> {}, limit |-> 0, queue |-> {},
     options |-> {}, failures |-> 0, rejections |-> {},
     answer |-> [d \in Dates |-> Unanswered], derived0 |-> {}, unsure |-> {}]

Init ==
    /\ registered = {} /\ derived = {} /\ unreadable = {}
    /\ outages = 0
    /\ call = [r \in Requests |-> Idle]
-----------------------------------------------------------------------------
\* Keys are compared field by field, as tuples are.
Precedes(key, other) ==
    \E i \in DOMAIN key : key[i] < other[i] /\ \A j \in 1..(i - 1) : key[j] = other[j]

_date_distance_days(s, date) ==
    IF Seen[s].day >= date THEN Seen[s].day - date ELSE date - Seen[s].day

\* ORDER BY distance, newest acquisition first LIMIT: of the whole source, with no
\* regard to the field, the area or max_cloud_percentage.
ListedBefore(t, s, date) ==
    Precedes(<<_date_distance_days(t, date), -Seen[t].acquired>>,
             <<_date_distance_days(s, date), -Seen[s].acquired>>)

InWindow(date, window) == {s \in registered : _date_distance_days(s, date) <= window}

\* The first rows of a query are as many as its limit, or all; which of the rows
\* that the order leaves equal, the database decides, each time anew.
FirstOf(rows, date) ==
    {listed \in SUBSET rows :
        /\ Cardinality(listed) = Min({MaxCandidates, Cardinality(rows)})
        /\ \A s \in listed, t \in rows \ listed : ~ListedBefore(t, s, date)}

\* Mutant: the candidates of any day.
CandidatesOfAnyDay(date, window) == FirstOf(registered, date)

list_candidates(date, window) == FirstOf(InWindow(date, window), date)

\* The order in which candidates are looked at.
_candidate_prefilter_key(s, date) ==
    <<_date_distance_days(s, date), Seen[s].cloud, Seen[s].product>>

\* Mutant: the day comes after the quality.
QualityBeforeDay(s, date) ==
    <<-Seen[s].usable, -Seen[s].coverage, Seen[s].obscured,
      _date_distance_days(s, date), Seen[s].product>>

\* The order in which the accepted ones are preferred.
_candidate_quality_key(s, date) ==
    <<_date_distance_days(s, date), -Seen[s].usable, -Seen[s].coverage,
      Seen[s].obscured, Seen[s].product>>

\* The gates of _candidate_options, once a scene has been read.
Eligible(s, limit) ==
    /\ Seen[s].pixels >= MinPixels
    /\ Seen[s].coverage >= MinCoverage
    /\ Seen[s].obscured <= limit

\* Why _field_date_rejection turns a scene away; {} if it has no objection.
RejectionOf(s, limit) ==
    CASE s \notin derived -> {"PROCESSING_PENDING"}
      [] s \in derived \cap unreadable -> {"PROCESSING_FAILED"}
      [] s \in derived \ unreadable ->
            CASE ~Seen[s].onField -> {"NO_FIELD_INTERSECTION"}
              [] Seen[s].onField /\ Seen[s].coverage < MinCoverage -> {"INSUFFICIENT_FIELD_COVERAGE"}
              [] Seen[s].onField /\ Seen[s].coverage >= MinCoverage
                     /\ Seen[s].obscured > limit -> {"CLOUD_THRESHOLD_EXCEEDED"}
              [] Seen[s].onField /\ Seen[s].coverage >= MinCoverage
                     /\ Seen[s].obscured <= limit ->
                    IF Seen[s].pixels < MinPixels THEN {"PROCESSING_FAILED"} ELSE {}
-----------------------------------------------------------------------------
\* Ingestion goes on while requests are answered.  A scene is registered before
\* its outputs; of a ResourceSat date only the composite ever has any.
Register(s) ==
    /\ s \in Scenes \ registered
    /\ registered' = registered \cup {s}
    /\ UNCHANGED <<derived, unreadable, outages, call>>

Derive(s) ==
    /\ s \in registered \ derived /\ Seen[s].composite
    /\ derived' = derived \cup {s}
    /\ UNCHANGED <<registered, unreadable, outages, call>>

\* The object store refuses a scene's objects for a while.
BecomeUnreadable(s) ==
    /\ s \in derived \ unreadable /\ outages < MaxOutages
    /\ unreadable' = unreadable \cup {s} /\ outages' = outages + 1
    /\ call' = [r \in Requests |->
                   IF call[r].pc \in {"idle", "done"} THEN call[r]
                   ELSE [call[r] EXCEPT !.unsure = @ \cup {s}]]
    /\ UNCHANGED <<registered, derived>>

BecomeReadable(s) ==
    /\ s \in unreadable
    /\ unreadable' = unreadable \ {s}
    /\ UNCHANGED <<registered, derived, outages, call>>
-----------------------------------------------------------------------------
Begin(r, kind, date, dates, limit) ==
    /\ call[r].pc = "idle"
    /\ call' = [call EXCEPT ![r] =
          [Idle EXCEPT !.pc = "list", !.kind = kind, !.date = date, !.dates = dates,
                       !.limit = limit, !.derived0 = derived, !.unsure = unreadable]]
    /\ UNCHANGED <<registered, derived, unreadable, outages>>

field_index(r, date, limit) == Begin(r, "index", date, {}, limit)

\* Dates are answered one by one, the latest first.
field_dates(r, dates, limit) == Begin(r, "dates", Max(dates), dates, limit)

Window(c) == IF c.kind = "index" THEN WindowDays ELSE 0

\* _candidate_options: the candidates are listed once ...
ListOptions(r) ==
    LET c == call[r] IN
    /\ c.pc = "list"
    /\ \E listed \in list_candidates(c.date, Window(c)) :
          call' = [call EXCEPT ![r] = [c EXCEPT !.pc = "examine", !.queue = listed,
                                                !.options = {}, !.failures = 0]]
    /\ UNCHANGED <<registered, derived, unreadable, outages>>

ExaminedBefore(t, s, date) ==
    Precedes(_candidate_prefilter_key(t, date), _candidate_prefilter_key(s, date))

\* ... and each is read in its turn: without a raster it is no candidate, and
\* what cannot be read counts as a failure.
Examined(c, s) ==
    LET readable == Seen[s].composite /\ s \in derived IN
    [c EXCEPT !.queue = @ \ {s},
              !.failures = IF readable /\ s \in unreadable THEN @ + 1 ELSE @,
              !.options = IF readable /\ s \notin unreadable /\ Eligible(s, c.limit)
                          THEN @ \cup {s} ELSE @]

Examine(r) ==
    /\ call[r].pc = "examine"
    /\ \E s \in call[r].queue :
          /\ \A t \in call[r].queue : ~ExaminedBefore(t, s, call[r].date)
          /\ call' = [call EXCEPT ![r] = Examined(call[r], s)]
    /\ UNCHANGED <<registered, derived, unreadable, outages>>

\* min(options): the first of the best, if several are.
BetterOption(t, s, date) ==
    Precedes(_candidate_quality_key(t, date), _candidate_quality_key(s, date))

Selected(c) == {s \in c.options : \A t \in c.options : ~BetterOption(t, s, c.date)}

\* A date is settled: the next one is begun, or the request is answered.
Settled(c, status, scene) ==
    LET rest == {d \in c.dates : d < c.date}
    IN  [c EXCEPT !.pc = IF rest = {} THEN "done" ELSE "list",
                  !.date = IF rest = {} THEN @ ELSE Max(rest),
                  !.answer = [@ EXCEPT ![c.date] = [status |-> status, scene |-> scene]],
                  !.queue = {}, !.options = {}, !.rejections = {}, !.failures = 0]

Settle(r, status, scene) ==
    /\ call' = [call EXCEPT ![r] = Settled(call[r], status, scene)]
    /\ UNCHANGED <<registered, derived, unreadable, outages>>

Select(r) ==
    /\ call[r].pc = "examine" /\ call[r].queue = {}
    /\ \E s \in Selected(call[r]) : Settle(r, "AVAILABLE", s)

\* field_index without an option: an error if something could not be read.
SelectNothing(r) ==
    /\ call[r].pc = "examine" /\ call[r].queue = {} /\ call[r].options = {}
    /\ call[r].kind = "index"
    /\ Settle(r, IF call[r].failures > 0 THEN "RASTER_UNAVAILABLE" ELSE "UNAVAILABLE", NoScene)

\* _field_date_rejection: a failure above is the reason; else the candidates are
\* listed again.
DateFailed(r) ==
    /\ call[r].pc = "examine" /\ call[r].queue = {} /\ call[r].options = {}
    /\ call[r].kind = "dates" /\ call[r].failures > 0
    /\ Settle(r, "PROCESSING_FAILED", NoScene)

ListRejections(r) ==
    LET c == call[r] IN
    /\ c.pc = "examine" /\ c.queue = {} /\ c.options = {} /\ c.kind = "dates" /\ c.failures = 0
    /\ \E listed \in list_candidates(c.date, 0) :
          \/ listed = {} /\ Settle(r, "NO_FIELD_INTERSECTION", NoScene)
          \/ /\ listed # {}
             /\ call' = [call EXCEPT ![r] = [c EXCEPT !.pc = "explain", !.queue = listed]]
             /\ UNCHANGED <<registered, derived, unreadable, outages>>

Explain(r) ==
    LET c == call[r] IN
    /\ c.pc = "explain"
    /\ \E s \in c.queue :
          /\ \A t \in c.queue : ~ListedBefore(t, s, c.date)
          /\ call' = [call EXCEPT ![r] =
                [c EXCEPT !.queue = @ \ {s}, !.rejections = @ \cup RejectionOf(s, c.limit)]]
    /\ UNCHANGED <<registered, derived, unreadable, outages>>

\* min(rejections) by priority; without one, the day is said to be pending.
Blamed(rejections) ==
    IF rejections = {} THEN "PROCESSING_PENDING"
    ELSE CHOOSE x \in rejections : \A y \in rejections : priority[x] <= priority[y]

Reject(r) ==
    /\ call[r].pc = "explain" /\ call[r].queue = {}
    /\ Settle(r, Blamed(call[r].rejections), NoScene)

\* The answer is sent, and the thread takes another request.
Send(r) ==
    /\ call[r].pc = "done"
    /\ call' = [call EXCEPT ![r] = Idle]
    /\ UNCHANGED <<registered, derived, unreadable, outages>>

Next ==
    \/ \E s \in Scenes : Register(s) \/ Derive(s) \/ BecomeUnreadable(s) \/ BecomeReadable(s)
    \/ \E r \in Requests :
          \/ \E limit \in CloudLimits :
                \/ \E date \in Dates : field_index(r, date, limit)
                \/ \E dates \in (SUBSET Dates) \ {{}} : field_dates(r, dates, limit)
          \/ ListOptions(r)
          \/ Examine(r)
          \/ Select(r)
          \/ SelectNothing(r)
          \/ DateFailed(r)
          \/ ListRejections(r)
          \/ Explain(r)
          \/ Reject(r)
          \/ Send(r)

Spec == Init /\ [][Next]_vars
-----------------------------------------------------------------------------
Statuses == Rejections \cup {"", "AVAILABLE", "UNAVAILABLE", "RASTER_UNAVAILABLE"}

\* Every variable keeps its type, an output has its scene, and an option of a
\* request is a scene it could have listed.
TypeOK ==
    /\ derived \subseteq registered /\ registered \subseteq Scenes
    /\ unreadable \subseteq derived /\ outages \in 0..MaxOutages
    /\ \A r \in Requests :
          LET c == call[r] IN
          /\ c.pc \in {"idle", "list", "examine", "explain", "done"}
          /\ c.pc # "idle" => c.date \in Dates /\ c.dates \subseteq Dates /\ c.limit \in CloudLimits
          /\ c.queue \cup c.options \subseteq InWindow(c.date, Window(c))
          /\ c.failures \in 0..MaxCandidates /\ c.rejections \subseteq Rejections
          /\ \A d \in Dates :
                /\ c.answer[d].status \in Statuses
                /\ c.answer[d].scene \in Scenes \cup {NoScene}
                /\ c.answer[d].scene \in Scenes <=> c.answer[d].status = "AVAILABLE"

Asked(c) == IF c.kind = "index" THEN {c.date} ELSE c.dates

\* The scenes that a request cannot have missed: processed before it began,
\* readable ever since, and on every list whatever was registered meanwhile.
Sure(c, date) ==
    {s \in InWindow(date, Window(c)) :
        /\ Seen[s].composite /\ s \in c.derived0 \ c.unsure
        /\ Cardinality({t \in InWindow(date, Window(c)) \ {s} : ~ListedBefore(s, t, date)})
              < MaxCandidates}

Preferred(t, s, date) ==
    LET T == Seen[t]
        S == Seen[s]
        Same(field) == T[field] = S[field]
    IN
    \/ _date_distance_days(t, date) < _date_distance_days(s, date)
    \/ /\ _date_distance_days(t, date) = _date_distance_days(s, date)
       /\ \/ T.usable > S.usable
          \/ Same("usable") /\ T.coverage > S.coverage
          \/ Same("usable") /\ Same("coverage") /\ T.obscured < S.obscured
          \/ Same("usable") /\ Same("coverage") /\ Same("obscured") /\ T.product < S.product

\* An answer is the best there was: its scene passes the gates, within the
\* window, and no scene that the request cannot have missed is to be preferred
\* (the requested day first, then the quality on the field); without a scene to
\* offer there was none.  A scene can be missed that ties with others at the end
\* of the list: two requests on one catalogue may select different scenes then.
AnswerIsBest ==
    \A r \in Requests : call[r].pc = "done" =>
        \A d \in Asked(call[r]) :
            LET c == call[r]
                chosen == c.answer[d].scene
                sure == {s \in Sure(c, d) : Eligible(s, c.limit)}
            IN  IF c.answer[d].status = "AVAILABLE"
                THEN /\ Eligible(chosen, c.limit) /\ Seen[chosen].composite
                     /\ _date_distance_days(chosen, d) <= Window(c)
                     /\ \A t \in sure : ~Preferred(t, chosen, d)
                ELSE sure = {}

\* The reason given for a date without field data is true: something was still
\* to be processed, or could not be read, or no tile lies on the field; and a
\* tile that covers the field but is too cloudy is what the date is blamed on,
\* whatever other tiles there are, unless one of them could not be read.  The
\* second listing of a day must hold the scenes of the first for that: it does
\* where the list never ends among scenes of one instant, as in the instance,
\* whose list leaves out scenes of different instants only.  Elsewhere a day that
\* was processed can be called pending.
RejectionIsTrue ==
    \A r \in Requests : call[r].pc = "done" /\ call[r].kind = "dates" =>
        \A d \in Asked(call[r]) :
            LET c == call[r]
                status == c.answer[d].status
                OfDay == {s \in registered : Seen[s].day = d}
                TooCloudy == {s \in Sure(c, d) :
                                 /\ Seen[s].onField /\ Seen[s].coverage >= MinCoverage
                                 /\ Seen[s].obscured > c.limit}
            IN
            /\ status = "PROCESSING_PENDING" => OfDay \ c.derived0 # {}
            /\ status = "PROCESSING_FAILED" =>
                  c.unsure # {} \/ \E s \in OfDay : Seen[s].pixels < MinPixels
            /\ status = "NO_FIELD_INTERSECTION" => \A s \in Sure(c, d) : ~Seen[s].onField
            /\ TooCloudy # {} =>
                  \/ status \in {"AVAILABLE", "CLOUD_THRESHOLD_EXCEEDED"}
                  \/ status = "PROCESSING_FAILED" /\ c.unsure # {}

\* What the answer says in words: no optical scene with valid field pixels and
\* coverage within the window.
UnavailableMeansNone ==
    \A r \in Requests : call[r].pc = "done" /\ call[r].kind = "index" =>
        LET c == call[r] IN
        c.answer[c.date].status = "UNAVAILABLE" =>
            ~\E s \in c.derived0 \ c.unsure :
                /\ _date_distance_days(s, c.date) <= WindowDays
                /\ Seen[s].composite /\ Eligible(s, c.limit)
=============================================================================
