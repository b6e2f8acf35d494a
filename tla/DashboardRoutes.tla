--------------------------- MODULE DashboardRoutes ---------------------------
(***************************************************************************)
(* The handlers of the routers that mostly read: dashboards, rankings,     *)
(* views, search, administration.  The dependencies of a handler (its user *)
(* and most rate limits) come before its first step and are left out, and  *)
(* so is the storing of an answer by @cached, after which nothing can fail.*)
(***************************************************************************)
EXTENDS ServiceRoutes

Answers == <<>>                                     \* a fixed answer, no database
\* A method that the service does not have, or not with these parameters.
NoSuchMethod == Fails
\* RedisClient has no sorted sets and no setex: what the rate limiter of a handler,
\* the token cache or the blacklist asks of it raises, is caught and logged, and so
\* every request passes, no token is cached and none is revoked.
NoSuchCommand == Try(Fails)

-----------------------------------------------------------------------------
(* api/routes/leaderboards.py and services/analytics/leaderboard_service.py *)
CachedRankings == <<Query, MayReturn>>
CalculateAgentRankings == <<Query>>
CacheRankings == <<Change, Change, Save>>
AgentRanking == <<Validate>> \o CachedRankings \o CalculateAgentRankings \o CacheRankings
CalculateUserRankings == <<Query>>
UserRanking == <<Validate>> \o CalculateUserRankings
CalculateWorkspaceRankings == <<Query>>
WorkspaceRanking == CalculateWorkspaceRankings
\* One ranking for each timeframe and criterion, gathered; failures are dropped.
RefreshAllRankings ==
  TryAll(CalculateAgentRankings \o CacheRankings) \o TryAll(CalculateUserRankings)

LeaderboardHandler(steps) == WithId(Tries(steps, ValueIs400))
GetAgentLeaderboard == LeaderboardHandler(AgentRanking)
GetUserLeaderboard == LeaderboardHandler(UserRanking)
GetWorkspaceLeaderboard == Tries(WorkspaceRanking, ValueIs400)
RefreshLeaderboards == LeaderboardHandler(RefreshAllRankings)
GetMyAgentRank == WithId(Tries(AgentRanking, Masked))
LeaderboardRoutes ==
  {GetAgentLeaderboard, GetUserLeaderboard, GetWorkspaceLeaderboard, RefreshLeaderboards, GetMyAgentRank}

(* api/routes/materialized_views.py and refresh_service.py: an unknown view *)
(* is a failed refresh, not an exception.                                   *)
RefreshOneView == TryAll(<<Change, Save>>)
RefreshAllViews == RefreshOneView \o RefreshOneView
RefreshUsingFunction == <<Change>>                  \* committed by get_db
RefreshStatus == <<Query>>
ViewStatistics == <<Validate, Query>>
HealthOfViews == <<Try(Query), Try(Query)>>
ViewRowCount == <<Validate, Query>>
ManagedViews == <<Query>>

RefreshMaterializedViews == Tries(RefreshAllViews, Masked)
RefreshByFunction == Tries(RefreshUsingFunction, Masked)
RefreshSingleView == Tries(RefreshOneView, Value("404", Masked))
GetViewsStatus == Tries(RefreshStatus, Masked)
GetViewStatistics == Tries(ViewStatistics \o <<Needs("404")>>, Value("404", AsRaised))
CheckViewsHealth == Tries(HealthOfViews, Masked)
GetViewRowCount == Tries(ViewRowCount, Value("404", Masked))
ListAvailableViews == Bare(Answers)
\* The 409 is a response the handler returns; its session ends as after a 200.
ValidateManagedViews == Tries(ManagedViews, Masked)
ViewRoutes ==
  {RefreshMaterializedViews, RefreshByFunction, RefreshSingleView, GetViewsStatus, GetViewStatistics,
   CheckViewsHealth, GetViewRowCount, ListAvailableViews, ValidateManagedViews}

(* api/routes/trends.py *)
TrendHandler(steps) == Passes(WorkspaceIdAndAccess \o steps)
TrendOfMetric == <<Validate, Query, Validate, Query>>   \* metric, timeframe, workspace, series
GetTrendAnalysis == Tries(WorkspaceIdAndAccess \o Within(TrendOfMetric), Timeout(AsRaised))
GetTrendsOverview == TrendHandler(<<Try(Query), Try(Query)>>)
GetMetricForecast == TrendHandler(TrendOfMetric)
GetMetricPatterns == TrendHandler(TrendOfMetric)
GetMetricInsights == TrendHandler(TrendOfMetric)
ClearTrendCache == TrendHandler(<<Change, Save>>)
TrendRoutes ==
  {GetTrendAnalysis, GetTrendsOverview, GetMetricForecast, GetMetricPatterns, GetMetricInsights, ClearTrendCache}

(* api/routes/user_activity.py and services/analytics/retention_analysis.py *)
RetentionCurve == <<Query>>
RetentionCohorts == <<Query>>
ChurnAnalysis == <<Query>>
ActivityHandler(steps) == Passes(<<Access>> \o steps)
DatedHandler(steps) == Tries(<<Access, Validate>> \o steps, ValueIs400Passes)
GetUserActivity == ActivityHandler(<<Query>>)
GetRetentionCurve == DatedHandler(RetentionCurve)
GetCohortAnalysis == DatedHandler(RetentionCohorts)
GetAdvancedCohorts == DatedHandler(<<Needs("400"), Query>>)
GetChurnAnalysis == ActivityHandler(ChurnAnalysis)
TrackActivity == ActivityHandler(<<Add, Save>>)
ActivityRoutes ==
  {GetUserActivity, GetRetentionCurve, GetCohortAnalysis, GetAdvancedCohorts, GetChurnAnalysis, TrackActivity}

(* api/routes/errors.py and services/analytics/error_tracking_service.py *)
ReadErrors == <<Query>>
\* Its inserts bind ":name::type", which is not a parameter: they are refused.
InsertError == <<Query, Fails>>
ResolveRow == <<Change, Save>>
IgnoreRow == <<Change, Save>>
GetErrorTracking == Tries(ReadErrors, Masked)
TrackError == Tries(InsertError, Masked)
ResolveError == Tries(ResolveRow, Masked)
IgnoreError == Tries(IgnoreRow, Masked)
ErrorRoutes == {GetErrorTracking, TrackError, ResolveError, IgnoreError}

(* api/routes/search.py; SearchService answers with examples.              *)
SearchHandler(steps) == Tries(<<Needs("400")>> \o steps, Masked)
FilteredSearch(steps) == Tries(<<Needs("400"), Validate>> \o steps, ValueIs400)
GlobalSearch == SearchHandler(Answers)
AdvancedSearch == SearchHandler(Answers)
SearchUsers == SearchHandler(Answers)
SearchAgents == SearchHandler(Answers)
SearchActivities == SearchHandler(Answers)
SearchMetrics == SearchHandler(Answers)
SearchAlerts == FilteredSearch(Answers)
SearchReports == FilteredSearch(Answers)
GetSearchSuggestions == SearchHandler(Answers)
GetSearchHistory == SearchHandler(Answers)
ClearSearchHistory == SearchHandler(Answers)
SaveSearch == SearchHandler(Answers)
GetSavedSearches == SearchHandler(Answers)
GetSearchAnalytics == SearchHandler(Answers)
SearchRoutes ==
  {GlobalSearch, AdvancedSearch, SearchUsers, SearchAgents, SearchActivities, SearchMetrics, SearchAlerts,
   SearchReports, GetSearchSuggestions, GetSearchHistory, ClearSearchHistory, SaveSearch, GetSavedSearches,
   GetSearchAnalytics}

(* api/routes/moving_averages.py and services/analytics/moving_averages.py  *)
MetricWithAverage == <<Validate, Query>>
CompareAverages == <<Validate>> \o MetricWithAverage \o MetricWithAverage
AverageHandler(steps) ==
  Tries(WorkspaceIdAndAccess \o <<Needs("400")>> \o Within(steps), Timeout(ValueIs400Passes))
GetMovingAverage == AverageHandler(MetricWithAverage)
CompareMovingAverages == AverageHandler(CompareAverages)
CalculateCustomAverage == AverageHandler(<<Validate>>)
AverageRoutes == {GetMovingAverage, CompareMovingAverages, CalculateCustomAverage}

(* api/routes/metrics.py *)
MetricsHandler(steps) == Passes(<<Access>> \o steps)
GetMetricsSummary == Bare(Answers)
GetMetricsTrends == Bare(Answers)
CompareTotals == Bare(Answers)
GetRealtimeMetrics == Bare(Answers)
GetExecutionMetrics == MetricsHandler(<<Query>>)
CheckRateLimit == NoSuchCommand
GetExecutionRealtime == Passes(<<CheckRateLimit, Access, Query>>)
GetExecutionThroughput == MetricsHandler(<<Query>>)
GetExecutionLatency == MetricsHandler(<<Query>>)
\* It passes user_id to an analyze_trend that has no such parameter.
GetMetricsTrendAnalysis == Tries(<<CheckRateLimit, Access, NoSuchMethod>>, Timeout(ValueIs400Passes))
MetricsRoutes ==
  {GetMetricsSummary, GetMetricsTrends, CompareTotals, GetRealtimeMetrics, GetExecutionMetrics,
   GetExecutionRealtime, GetExecutionThroughput, GetExecutionLatency, GetMetricsTrendAnalysis}

(* api/routes/executive.py and services/metrics/executive_service.py *)
ApplyRateLimit == CheckRateLimit
SampleMetrics == Answers                            \* gathered, but of constants
ExecutiveHandler(steps) == Bare(<<Needs("400")>> \o WorkspaceIdAndAccess \o steps)
GetExecutiveDashboard == Passes(<<ApplyRateLimit, Needs("400")>> \o WorkspaceIdAndAccess \o SampleMetrics)
GetExecutiveOverview == ExecutiveHandler(<<Try(Query)>>)      \* zeros on error
GetRevenueMetrics == ExecutiveHandler(<<Try(Query)>>)
GetKeyPerformanceIndicators == ExecutiveHandler(<<Try(Query)>>)
ExecutiveRoutes ==
  {GetExecutiveDashboard, GetExecutiveOverview, GetRevenueMetrics, GetKeyPerformanceIndicators}

(* api/routes/credits.py *)
CreditHandler(steps) == Passes(<<Access>> \o steps)
GetCreditConsumption == CreditHandler(<<Query>>)
GetCreditStatus == CreditHandler(<<Query>>)
GetConsumptionBreakdown == CreditHandler(<<Query>>)
GetConsumptionTrends == CreditHandler(<<Query>>)
GetBudgetStatus == CreditHandler(<<Query>>)
GetOptimizations == CreditHandler(<<Query>>)
GetUsageForecast == CreditHandler(<<Query>>)
CreditRoutes ==
  {GetCreditConsumption, GetCreditStatus, GetConsumptionBreakdown, GetConsumptionTrends, GetBudgetStatus,
   GetOptimizations, GetUsageForecast}

(* api/routes/analytics.py *)
AnalyticsHandler(steps) == Passes(<<Access>> \o steps)
RangedHandler(steps) == AnalyticsHandler(<<Needs("400")>> \o steps)
GetAggregatedMetrics == RangedHandler(Answers)
GetTimeseriesMetrics == RangedHandler(Answers)
\* TrendAnalysisService of trend_analysis_service.py, with its cache in a table.
CachedAnalysis == <<Try(Query), MayReturn, Query, MayReturn>> \o TryAll(<<Change, Save>>)
DetectTrends == RangedHandler(CachedAnalysis)
GetSeasonalPatterns == AnalyticsHandler(Answers)
CreateForecast == AnalyticsHandler(Answers)
GetForecastResults == AnalyticsHandler(Answers)
DetectByConfig == AnalyticsHandler(<<NoSuchMethod>>)
GetDetectionRules == AnalyticsHandler(<<NoSuchMethod>>)
CreateCohort == AnalyticsHandler(<<NoSuchMethod>>)
GetCohortRetention == Passes(<<NoSuchMethod>>)
CreateFunnel == AnalyticsHandler(<<NoSuchMethod>>)
GetFunnelAnalysis == Passes(<<NoSuchMethod>>)       \* called without workspace_id
ComparePeriodTotals == AnalyticsHandler(<<NoSuchMethod>>)
GetMetricDistribution == AnalyticsHandler(Answers)
AnalyticsRoutes ==
  {GetAggregatedMetrics, GetTimeseriesMetrics, DetectTrends, GetSeasonalPatterns, CreateForecast,
   GetForecastResults, DetectByConfig, GetDetectionRules, CreateCohort, GetCohortRetention, CreateFunnel,
   GetFunnelAnalysis, ComparePeriodTotals, GetMetricDistribution}

(* api/routes/dashboard.py: sample data behind the access check *)
SampleHandler == Passes(<<Access>>)
GetExecutiveSummary == SampleHandler
GetExecutiveTrends == SampleHandler
GetAgentPerformance == SampleHandler
GetAgentUsage == SampleHandler
GetUserActivitySample == SampleHandler
GetUserEngagement == SampleHandler
GetWorkspaceOverview == SampleHandler
GetWorkspaceComparison == Passes(<<Access, Access>>)
GetLeaderboardSample == SampleHandler
ExportDashboardData == SampleHandler                \* the id of no job
GetDashboardExportStatus == Passes(Answers)         \* always completed
RealtimeEventsStream == SampleHandler
DashboardSamples ==
  {GetExecutiveSummary, GetExecutiveTrends, GetAgentPerformance, GetAgentUsage, GetUserActivitySample,
   GetUserEngagement, GetWorkspaceOverview, GetWorkspaceComparison, GetLeaderboardSample,
   ExportDashboardData, GetDashboardExportStatus, RealtimeEventsStream}

(* api/routes/admin.py and services/admin_service.py *)
DatabaseHealth == Try(Query)
RedisHealth == Try(Query)
SystemHealth == <<DatabaseHealth, RedisHealth>>
DependencyChecks == <<Try(Query), Try(Query)>>
SlowQueries == <<Try(Query)>>
FlushPattern == <<Query, Outside, Query>>           \* memory before, delete, memory after
CacheStats == <<Query>>
DatabaseStats == <<Query>>
GetSystemHealth == Bare(SystemHealth)
CheckDependencies == Bare(DependencyChecks)
GetPerformanceMetrics == Bare(Answers)
GetSlowQueries == Bare(SlowQueries)
ClearCache == Bare(FlushPattern)
GetCacheStatistics == Bare(CacheStats)
GetSystemUsers == Bare(Answers)
UpdateUserStatus == Bare(Answers)
GetSystemConfiguration == Bare(Answers)
UpdateSystemConfiguration == Bare(Answers)
GetBackgroundJobs == Bare(Answers)
RetryFailedJob == Bare(Answers)
VacuumDatabase == Bare(Answers)
GetDatabaseStatistics == Bare(DatabaseStats)
GetAuditLog == Bare(<<Query>>)                      \* a malformed date is not caught
AdminRoutes ==
  {GetSystemHealth, CheckDependencies, GetPerformanceMetrics, GetSlowQueries, ClearCache, GetCacheStatistics,
   GetSystemUsers, UpdateUserStatus, GetSystemConfiguration, UpdateSystemConfiguration, GetBackgroundJobs,
   RetryFailedJob, VacuumDatabase, GetDatabaseStatistics, GetAuditLog}

(* api/routes/health.py *)
\* db.execute of a plain string is refused, so the database is always unhealthy ...
CheckDatabase == <<Try(Fails)>>
CheckRedis == <<Try(Query)>>
CheckWebsocket == <<Try(Query)>>
HealthCheck == Bare(Answers)
DetailedHealthCheck == Bare(CheckDatabase \o CheckRedis \o CheckWebsocket)
\* ... and a Response cannot be made of the dict that says so.
ReadinessCheck == Bare(CheckDatabase \o <<Fails>>)
HealthRoutes == {HealthCheck, DetailedHealthCheck, ReadinessCheck}

(* api/routes/workspaces.py, agents.py and users.py *)
VerifyWorkspaceAccess == <<Find, Query, Needs("403")>>
GetWorkspaceAnalytics == Tries(<<Needs("401")>> \o VerifyWorkspaceAccess \o <<Query>>, ValueIs400Passes)
GetAgentAnalytics == Bare(<<Needs("400"), Needs("400"), Query>>)
GetWorkspaceDetails == Bare(Answers)
GetAgentDetails == Bare(<<Needs("400")>>)
GetUserDetails == Bare(<<Needs("400")>>)
EntityRoutes ==
  {GetWorkspaceAnalytics, GetAgentAnalytics, GetWorkspaceDetails, GetAgentDetails, GetUserDetails}

(* api/routes/auth.py: it calls an AsyncSession as if it were a Session.    *)
\* An expired token is a ValueError.  For any other flaw the next except clause
\* names jwt.InvalidAudienceError, which jose does not have: an AttributeError.
CacheDecodedToken == NoSuchCommand
TokenCheck == <<Does("look", {"value", "error"}), CacheDecodedToken>>
VerifyToken == Tries(TokenCheck \o <<Needs("401"), Needs("403")>>, Value("401", AsRaised))
ExchangeToken == Tries(TokenCheck, Value("401", AsRaised))
RefreshToken == Bare(<<Needs("401")>>)
BlacklistToken == NoSuchCommand
\* A token that cannot be decoded is not logged out, with the same answer.
Logout == Bare(<<[Query EXCEPT !.skips = 3], BlacklistToken, Try(Outside)>>)
GetUserPermissions == Bare(<<Needs("403")>>)
\* commit() and refresh() are not awaited, so the key has no creation date yet.
CreateApiKey == Passes(<<Add, Fails>>)
\* An AsyncSession has no query().
ListApiKeys == Passes(<<Fails>>)
RevokeApiKey == Passes(<<Fails>>)
GetActiveSessions == Passes(<<Fails>>)
TerminateSession == Passes(<<Fails>>)
AuthRoutes ==
  {VerifyToken, ExchangeToken, RefreshToken, Logout, GetUserPermissions, CreateApiKey, ListApiKeys, RevokeApiKey,
   GetActiveSessions, TerminateSession}

-----------------------------------------------------------------------------
AllRoutes ==
  ExportRoutes \cup ReportRoutes \cup NotificationRoutes \cup AlertRoutes \cup AnomalyRoutes
  \cup FunnelRoutes \cup PredictionRoutes \cup LeaderboardRoutes \cup ViewRoutes \cup TrendRoutes
  \cup ActivityRoutes \cup ErrorRoutes \cup SearchRoutes \cup AverageRoutes \cup MetricsRoutes
  \cup ExecutiveRoutes \cup CreditRoutes \cup AnalyticsRoutes \cup DashboardSamples \cup AdminRoutes
  \cup HealthRoutes \cup EntityRoutes \cup AuthRoutes

-----------------------------------------------------------------------------
\* Handlers that can answer an error after they have committed or done
\* something: they go on with a refresh, a second commit, a task, the answer of
\* that task, the storing of the answer in Redis, or were interrupted while they
\* committed.
CanFailAfterwards ==
  {CreateExportJob, CreateExportTemplate, CreateScheduledExport, CreateBulkExport, ConvertExportFormat,
   ValidateExport, DeleteExport, DownloadReport, UpdatePreference, UpdateAlertRule, CreateEscalationPolicy,
   CreateAlertSuppression, AcknowledgeAnomaly, TrainBaseline, CreateFunnelDefinition,
   UpdateFunnelDefinition, AnalyzeFunnelDefinition, ClearCache, GetConsumptionPrediction, GetChurnPrediction,
   GetGrowthPrediction, GetErrorRatePrediction}
  \cup {GeneratePrediction(p) : p \in {PredictCreditConsumption, PredictUserChurn, PredictGrowthMetrics,
                                      PredictErrorRates}}

\* Handlers that answer 200 whatever became of their changes: those that count
\* failures in the answer, and the one whose commit is left to get_db.
AnswersAnyway ==
  {SendNotification, SendBulkNotification, RefreshLeaderboards, RefreshMaterializedViews, RefreshSingleView,
   RefreshByFunction, DetectTrends}

\* Handlers whose "except Exception" catches their own HTTPException.
CatchesItsOwn == AnomalyRoutes \cup SearchRoutes \cup {AnalyzeFunnelDefinition}

\* The lists are exact: all other handlers, and none of these, keep to an order of
\* their steps that rules this out.
ASSUME HandlersAssumption ==
  \A r \in Routes :
    /\ r \notin CanFailAfterwards <=> ActsLast(r)
    /\ r \notin AnswersAnyway <=> SavesItsChanges(r)
    /\ r \notin CatchesItsOwn <=> KeepsStatuses(r)
    /\ r # CreateBulkExport <=> SendsAfterSave(r)
    /\ r = ValidateExport <=> Asks(r)
    /\ AwaitsItsTask(r)

-----------------------------------------------------------------------------
(* Properties. *)

\* An error tells the client that nothing happened: nothing of what the handler
\* of a request that was answered with an error did is committed, sent to a
\* worker or written to Redis or a disk, unless it can fail after it has.
ErrorLeavesNothing ==
  (answer \in Statuses /\ route \notin CanFailAfterwards) => ~stored /\ ~outside

\* What a client was told is done is not rolled back after all, even though
\* get_db ends the session when the response is already sent.
DoneIsStored == (answer = "200" /\ route \notin AnswersAnyway) => ~lost

\* The status that a handler chooses for its HTTPException is the one the client
\* gets, unless the handler catches it itself.
ChosenStatusArrives ==
  (answer # "none" /\ raised \in Statuses /\ route \notin CatchesItsOwn) => answer = raised

\* A worker that takes the task of a request finds the row it is about in the
\* database.  A bulk export sends its tasks before it commits their rows; and
\* only a validation is about a row that its handler has not seen, whose client
\* is not told 200 unless the row was found.
TaskFindsItsRow ==
  task = "not found" =>
    \/ route = CreateBulkExport
    \/ route = ValidateExport /\ answer # "200"
=============================================================================
