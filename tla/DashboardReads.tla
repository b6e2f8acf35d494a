--------------------------- MODULE DashboardReads ---------------------------
(***************************************************************************)
(* The services that read the dashboards' data, as SharedSession sees them:*)
(* how many statements each function executes, in which order and on whose *)
(* behalf, and what it does with an exception.  SQL and arithmetic are     *)
(* left out; a loop over steps, views or rows is unrolled to two or three. *)
(***************************************************************************)
EXTENDS SharedSession, TLC

Reads(least, most) ==
  [least |-> least, most |-> most, catches |-> {}, commits |-> FALSE, rollsBack |-> FALSE]
Computed == Reads(0, 0)                                     \* no statement at all
Guarded(part_) == [part_ EXCEPT !.catches = {"statement", "data"}]
Committing(part_) == [part_ EXCEPT !.commits = TRUE]
Undoing(part_) == [part_ EXCEPT !.rollsBack = TRUE]

Then(first, rest, waits) ==
  [parts |-> first \o rest, alone |-> Len(first), waits |-> waits, critical |-> {}]
InTurn(parts) == Then(parts, <<>>, TRUE)
Together(parts) == Then(<<>>, parts, TRUE)                  \* return_exceptions=True
Abandoning(first, parts) == Then(first, parts, FALSE)

-----------------------------------------------------------------------------
(* services/metrics/execution_metrics.py *)
RealtimeMetrics == Reads(2, 2)
ThroughputMetrics == Reads(2, 2)
LatencyMetrics == Reads(2, 2)
ExecutionPerformance == Reads(3, 3)
ExecutionPatterns == Reads(2, 2)
ResourceUtilization == Computed
ExecutionMetrics ==
  Together(<<RealtimeMetrics, ThroughputMetrics, LatencyMetrics, ExecutionPerformance,
             ExecutionPatterns, ResourceUtilization>>)

(* services/metrics/workspace_analytics_service.py: a SQLAlchemyError is    *)
(* passed on, any other exception becomes a default.                        *)
PassingSqlErrors(part_) == [part_ EXCEPT !.catches = {"data"}]
WorkspaceOverview == PassingSqlErrors(Reads(3, 3))
MemberAnalytics == PassingSqlErrors(Reads(1, 1))
AgentUsage == PassingSqlErrors(Reads(1, 1))
ResourceConsumption == PassingSqlErrors(Reads(1, 1))
ActivityTrends == PassingSqlErrors(Reads(1, 1))
WorkspaceAnalytics ==
  Together(<<WorkspaceOverview, MemberAnalytics, AgentUsage, ResourceConsumption, ActivityTrends>>)

(* services/analytics/user_activity.py *)
SegmentUsers == Reads(1, 1)
ActivityByDate == 1          \* statements of the helpers of the next part
EngagementScore == 1
ActivityByHour == 1
ActivityByDayOfWeek == 1
SessionsPerUser == 1
ActivityMetrics ==
  LET n == 3 + ActivityByDate + EngagementScore + ActivityByHour + ActivityByDayOfWeek + SessionsPerUser
  IN Reads(n, n)
DeviceBreakdown == 1
SessionAnalytics == Reads(1 + DeviceBreakdown, 1 + DeviceBreakdown)
FeatureUsage == Reads(2, 2)
EntryPoints == Reads(1, 1)
RetentionData == Computed
UserSegments == Reads(1, 1)
UserActivity ==
  <<ActivityMetrics, SessionAnalytics, FeatureUsage, EntryPoints, RetentionData, UserSegments>>

(* services/analytics/error_tracking_service.py *)
ErrorOverview == Reads(1, 1)
ErrorCategories == Reads(2, 2)
ErrorTimeline == Reads(2, 2)
ErrorList == Reads(1, 1)
TopErrors == Reads(3, 3)
ErrorCorrelations == Computed
RecoveryAnalysis == Computed
ErrorTracking ==
  Together(<<ErrorOverview, ErrorCategories, ErrorTimeline, ErrorList, TopErrors,
             ErrorCorrelations, RecoveryAnalysis>>)

(* services/analytics/agent_analytics_service.py: the first two parts are   *)
(* critical.                                                                *)
AgentPerformance == Reads(1, 1)
AgentResources == Reads(1, 2)
ErrorPatterns == 1
ErrorAnalysis == Reads(3 + ErrorPatterns, 3 + ErrorPatterns)
UsageByHour == 1
UsageByDayOfWeek == 1
TopUsers == 1
RecentFeedback == 1
AgentUserMetrics == Reads(1, 1 + UsageByHour + UsageByDayOfWeek + TopUsers + RecentFeedback)
AgentComparison == Reads(5, 5)
GeneratedSuggestions == 1
OptimizationSuggestions == Reads(1, 1 + GeneratedSuggestions)
AgentTrends == Reads(2, 2)
AgentAnalytics ==
  [Together(<<AgentPerformance, AgentResources, ErrorAnalysis, AgentUserMetrics, AgentComparison,
              OptimizationSuggestions, AgentTrends>>) EXCEPT !.critical = {1, 2}]

(* services/analytics/credit_consumption.py *)
CurrentStatus == Reads(1, 1)
ConsumptionBreakdown == Reads(3, 3)
ConsumptionTrends == Reads(3, 3)
BudgetStatus == Reads(1, 2)
CostAnalysis == Reads(1, 1)
OptimizationRecommendations == Reads(2, 2)
ForecastUsage == Reads(1, 1)
CreditConsumption ==
  Abandoning(<<>>, <<CurrentStatus, ConsumptionBreakdown, ConsumptionTrends, BudgetStatus, CostAnalysis,
                     OptimizationRecommendations, ForecastUsage>>)

(* services/analytics/cohort_analysis.py: the two gathers inside a cohort   *)
(* add no order that the connection does not already impose.                *)
CohortUsers == 1
RetentionPeriods == 1
CohortMetrics == 3
SegmentRetention == 1
AnalyzeCohort ==                                            \* an empty cohort ends early
  Reads(CohortUsers, CohortUsers + RetentionPeriods + CohortMetrics + SegmentRetention)
CohortAnalysis == Abandoning(<<>>, <<AnalyzeCohort, AnalyzeCohort, AnalyzeCohort>>)

(* services/analytics/trend_analysis.py and api/routes/trends.py: one       *)
(* analysis for each of four metrics.                                       *)
WorkspaceExists == 1
TimeSeries == 1
AnalyzeTrend == Reads(WorkspaceExists + TimeSeries, WorkspaceExists + TimeSeries)
TrendOverview == Together(<<AnalyzeTrend, AnalyzeTrend, AnalyzeTrend, AnalyzeTrend>>)

(* services/analytics/trend_analysis_service.py: with a cache in a table.   *)
GetCachedAnalysis == Guarded(Reads(1, 1))
MetricSeries == Reads(1, 1)
CacheAnalysis == Guarded(Committing(Reads(2, 2)))
CachedTrend == InTurn(<<GetCachedAnalysis>>)
UncachedTrend == InTurn(<<GetCachedAnalysis, MetricSeries, CacheAnalysis>>)

(* services/metrics/executive_service.py *)
DailyActiveUsers == Guarded(Reads(1, 1))
WeeklyActiveUsers == Guarded(Reads(1, 1))
MonthlyActiveUsers == Guarded(Reads(1, 1))
TotalExecutions == Guarded(Reads(1, 1))
SuccessRate == Guarded(Reads(1, 2))
AvgExecutionTime == Guarded(Reads(1, 1))
TotalCredits == Guarded(Reads(1, 1))
TotalUsers == Guarded(Reads(1, 1))
ActiveAgents == Guarded(Reads(1, 1))
ExecutiveOverview ==
  InTurn(<<DailyActiveUsers, WeeklyActiveUsers, MonthlyActiveUsers, TotalExecutions, SuccessRate>>)
KeyPerformanceIndicators ==
  InTurn(<<TotalUsers, ActiveAgents, TotalExecutions, SuccessRate, AvgExecutionTime, TotalCredits>>)

(* services/comparison_service.py *)
AgentMetrics == Reads(3, 3)
PeriodMetrics == Reads(1, 1)
WorkspaceMetrics == Reads(1, 1)
MetricEntities == Reads(1, 2)
CompareAgents == InTurn(<<AgentMetrics>>)
ComparePeriods == InTurn(<<PeriodMetrics, PeriodMetrics>>)
CompareWorkspaces == InTurn(<<WorkspaceMetrics>>)
\* The correlations fetch the metric again and then the others, one by one.
MetricCorrelations == <<Guarded(MetricEntities), Guarded(MetricEntities), Guarded(MetricEntities)>>
CompareMetrics == InTurn(<<MetricEntities>> \o MetricCorrelations)

(* services/analytics/funnel_analysis.py: a failed step counts no user.     *)
FunnelDefinition == Reads(1, 1)
FunnelStep == Guarded(Reads(1, 1))
StoreAnalysisResults == <<Committing(Reads(2, 2)), Reads(1, 1)>>
AnalyzeFunnel == InTurn(<<FunnelDefinition, FunnelStep, FunnelStep>> \o StoreAnalysisResults)

(* services/materialized_views/refresh_service.py *)
RefreshView == Undoing(Guarded(Committing(Reads(2, 2))))
RefreshAll == InTurn(<<RefreshView, RefreshView, RefreshView>>)
RowCount == 1
ViewHealth == Guarded(Reads(1, 1 + RowCount))
CheckViewHealth == InTurn(<<ViewHealth, ViewHealth, ViewHealth>>)

(* services/analytics/*_predictor.py and predictive_analytics.py *)
BehavioralData == Reads(1, 1)
ChurnModel == Reads(1, 1)
StoreChurnPredictions == Undoing(Committing(Reads(3, 3)))
PredictChurn == InTurn(<<BehavioralData, ChurnModel, StoreChurnPredictions>>)
ConsumptionData == Reads(1, 1)
StorePredictions == Undoing(Committing(Reads(3, 3)))
PredictConsumption == InTurn(<<ConsumptionData, StorePredictions>>)

(* services/reports/report_service.py *)
EstimateExportSize == Guarded(Reads(1, 1))
InsertExportJob == Undoing(Committing(Reads(2, 2)))
CreateDataExportJob == InTurn(<<EstimateExportSize, InsertExportJob>>)

-----------------------------------------------------------------------------
DashboardServices ==
  ("executions" :> ExecutionMetrics) @@ ("workspace" :> WorkspaceAnalytics)
  @@ ("user activity" :> Abandoning(<<>>, UserActivity))
  @@ ("segment activity" :> Abandoning(<<SegmentUsers>>, UserActivity))
  @@ ("errors" :> ErrorTracking)
  @@ ("agent" :> AgentAnalytics) @@ ("credit consumption" :> CreditConsumption)
  @@ ("cohorts" :> CohortAnalysis) @@ ("trend overview" :> TrendOverview)
  @@ ("cached trend" :> CachedTrend) @@ ("uncached trend" :> UncachedTrend)
  @@ ("executive" :> ExecutiveOverview) @@ ("kpi" :> KeyPerformanceIndicators)
  @@ ("agents" :> CompareAgents) @@ ("periods" :> ComparePeriods)
  @@ ("workspaces" :> CompareWorkspaces) @@ ("metrics" :> CompareMetrics)
  @@ ("funnel" :> AnalyzeFunnel) @@ ("refresh" :> RefreshAll) @@ ("health" :> CheckViewHealth)
  @@ ("churn" :> PredictChurn) @@ ("consumption" :> PredictConsumption)
  @@ ("data export" :> CreateDataExportJob)
=============================================================================
