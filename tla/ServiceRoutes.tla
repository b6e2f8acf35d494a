---------------------------- MODULE ServiceRoutes ----------------------------
(***************************************************************************)
(* The handlers of the routers that create, change or delete something,    *)
(* and the service functions they call, as RequestLifecycle sees them.     *)
(* Reads that follow each other are one Query; a loop makes two rounds; a  *)
(* service function that rolls back and raises adds nothing to get_db.     *)
(***************************************************************************)
EXTENDS RequestLifecycle, TLC

WorkspaceIdAndAccess == <<Needs("400"), Access>>   \* validate_workspace_id
\* Under asyncio.wait_for every step that waits may be interrupted; a commit
\* may be interrupted when it is already done.
Within(steps) ==
  [i \in DOMAIN steps |->
     IF "error" \in steps[i].raises THEN [steps[i] EXCEPT !.raises = @ \cup {"timeout"}] ELSE steps[i]]

\* "except ValueError" answered with 400, without and with "except HTTPException: raise".
ValueIs400 == Value("400", Masked)
ValueIs400Passes == Value("400", AsRaised)
\* validate_workspace_id outside the try.
WithId(handler) == [handler EXCEPT !.bare = <<Needs("400")>>]

-----------------------------------------------------------------------------
(* api/routes/exports.py *)
EstimateExport == <<Query>>
CreateExportJob ==
  Bare(<<Needs("400")>> \o EstimateExport \o Create \o <<Enqueue, Add, Save>>)
GetExportStatus == Bare(<<Validate, Find>>)
DownloadExportFile == Bare(<<Validate, Find, Needs("400"), Find, Needs("404"), Add, Save>>)
GetExportTemplates == Bare(<<Query>>)
CreateExportTemplate == Bare(Create)
GetScheduledExports == Bare(<<Query>>)
CreateScheduledExport == Bare(<<Validate, Find>> \o Create)
\* Each job is flushed and sent; they are committed together.
CreateBulkExport == Bare(<<Change, Enqueue, Change, Enqueue, Save>>)
ConvertExportFormat == Bare(<<Validate, Query, Needs("400")>> \o Create \o <<Enqueue>>)
GetExportMetadata == Bare(<<Validate, Find, Query>>)
\* The job is the one the client names; nothing is looked up or saved before.
ValidateExport == Bare(<<Ask, Wait>>)
DeleteExport == Bare(<<Validate, Find, Query, Try(Outside), Change>> \o Delete)
\* In the handler the name of the task is the handler itself, which has no
\* delay(); a dry run returns before.
CleanupDryRun == Bare(<<>>)
CleanupOldExports == Bare(<<Fails>>)
ExportRoutes ==
  {CreateExportJob, GetExportStatus, DownloadExportFile, GetExportTemplates, CreateExportTemplate,
   GetScheduledExports, CreateScheduledExport, CreateBulkExport, ConvertExportFormat, GetExportMetadata,
   ValidateExport, DeleteExport, CleanupDryRun, CleanupOldExports}

(* api/routes/reports.py and services/reports/report_service.py *)
CreateReportJob == <<Add, Save>>
GetReportJobStatus == <<Query>>
GetTemplates == <<Query>>
CreateTemplate == <<Add, Save>>
GetSchedules == <<Query>>
CreateSchedule == <<Validate, Add, Save>>
GetReportHistory == <<Query>>
EstimateSize == <<Try(Query)>>
CreateDataExport == EstimateSize \o <<Add, Save>>
GetReportForDownload == <<Find, Add, Save>>
CreateShareLink == <<Query, Validate, Add, Save>>
GetReportAnalytics == <<Query>>
RegisterWebhook == <<Add, Save>>
GetWebhooks == <<Query>>

GenerateReport == Tries(CreateReportJob, ValueIs400)
ReportJobStatus == Passes(GetReportJobStatus \o <<Needs("404")>>)
ReportTemplates == Tries(GetTemplates, Masked)
CreateCustomTemplate == Tries(CreateTemplate, ValueIs400)
ScheduledReports == Tries(GetSchedules, Masked)
CreateScheduledReport == Tries(CreateSchedule, ValueIs400)
ReportHistory == Tries(GetReportHistory, Masked)
ExportRawData == Tries(CreateDataExport, ValueIs400)
\* The download is counted before the handler finds that there is no file.
DownloadReport == Passes(GetReportForDownload \o <<Needs("500")>>)
ShareReport == Tries(CreateShareLink, ValueIs400)
ReportAnalytics == Tries(GetReportAnalytics, Masked)
RegisterReportWebhook == Tries(RegisterWebhook, ValueIs400)
ReportWebhooks == Tries(GetWebhooks, Masked)
ReportRoutes ==
  {GenerateReport, ReportJobStatus, ReportTemplates, CreateCustomTemplate, ScheduledReports,
   CreateScheduledReport, ReportHistory, ExportRawData, DownloadReport, ShareReport, ReportAnalytics,
   RegisterReportWebhook, ReportWebhooks}

(* api/routes/notifications.py and services/notifications *)
GetNotifications == <<Query>>
MarkAsRead == <<Query, Add, Save>>
UnreadCount == <<Query>>
GetEnabledChannels == <<Query>>
QueueNotification == Create
\* For each recipient; a failure is counted in the answer.
QueueForRecipients ==
  LET each == TryAll(GetEnabledChannels \o QueueNotification) IN each \o each
TestChannel == <<Try(Outside)>>
GetUserPreferences == <<Query>>
SetPreference == <<Query>> \o Create
BuildPreview == <<Query>>
DeliveryMetrics == <<Query>>

ListNotifications == Tries(GetNotifications, Masked)
\* 404 when there was nothing to mark, and so nothing to commit.
MarkNotificationRead == Passes(<<Needs("404")>> \o MarkAsRead)
MarkNotificationsRead == Tries(MarkAsRead, Masked)
GetUnreadCount == Tries(UnreadCount, Masked)
SendNotification == Tries(QueueForRecipients, Masked)
SendBulkNotification == Tries(QueueForRecipients, Masked)
TestNotification == Tries(TestChannel, Masked)
GetPreferences == Tries(GetUserPreferences, Masked)
UpdatePreference == Tries(SetPreference, Masked)
PreviewDigest == Tries(BuildPreview, Masked)
NotificationMetrics == Tries(DeliveryMetrics, Masked)
NotificationRoutes ==
  {ListNotifications, MarkNotificationRead, MarkNotificationsRead, GetUnreadCount, SendNotification,
   SendBulkNotification, TestNotification, GetPreferences, UpdatePreference, PreviewDigest,
   NotificationMetrics}

(* api/routes/alerts.py *)
AlertEngine == Fails                               \* get on the default config, None
GetAlertRules == Passes(<<Access, Query>>)
CreateAlertRule ==
  Passes(<<Access, AlertEngine, Needs("400"), Query, Needs("409")>> \o Create)
GetAlertRule == Passes(<<Find, Access>>)
UpdateAlertRule == Passes(<<Find, Access>> \o Create)
UpdateAlertCondition == Passes(<<Find, Access, AlertEngine, Needs("400")>> \o Create)
DeleteAlertRule == Passes(<<Find, Access>> \o Delete)
GetActiveAlerts == Passes(<<Access, Query>>)
GetAlertHistory == Passes(<<Access, Query>>)
AcknowledgeAlert == Passes(<<Find, Access, Needs("400"), AlertEngine>>)
ResolveAlert == Passes(<<Find, Access, Needs("400"), AlertEngine>>)
GetEscalationPolicies == Passes(<<Access, Query>>)
CreateEscalationPolicy == Passes(<<Access>> \o Create)
CreateAlertSuppression == Passes(<<Access>> \o Create)
TestAlertRule == Passes(<<Needs("400"), AlertEngine>>)
GetAlertStats == Passes(<<Access, Query>>)
AlertRoutes ==
  {GetAlertRules, CreateAlertRule, GetAlertRule, UpdateAlertRule, UpdateAlertCondition, DeleteAlertRule,
   GetActiveAlerts, GetAlertHistory, AcknowledgeAlert, ResolveAlert, GetEscalationPolicies,
   CreateEscalationPolicy, CreateAlertSuppression, TestAlertRule, GetAlertStats}

(* api/routes/anomalies.py and services/analytics/anomaly_detection.py *)
DetectMetricAnomalies == <<Validate, Query, Validate>>
DetectUsageSpikes == DetectMetricAnomalies
DetectErrorPatterns == <<Query>>
DetectUserBehavior == <<Query>>
TrainBaselineModel == <<Validate, Query, Validate, Add, Save>>

AnomalyHandler(steps) == Tries(WorkspaceIdAndAccess \o steps, ValueIs400)
DetectionHandler(steps) == Tries(WorkspaceIdAndAccess \o Within(steps), Timeout(ValueIs400))
GetAnomalies == AnomalyHandler(<<Validate, Query>>)
DetectAnomalies == DetectionHandler(DetectMetricAnomalies)
GetUsageSpikes == DetectionHandler(DetectUsageSpikes)
GetErrorPatterns == DetectionHandler(DetectErrorPatterns)
GetUserBehavior == DetectionHandler(DetectUserBehavior)
AcknowledgeAnomaly == AnomalyHandler(<<Find>> \o Create)
GetAnomalyRules == AnomalyHandler(<<Query>>)
\* anomalies.py does not import the uuid that the id of a rule is made with.
CreateAnomalyRule == AnomalyHandler(<<Fails>>)
TrainBaseline == DetectionHandler(TrainBaselineModel)
GetBaselines == AnomalyHandler(<<Query>>)
GetAnomalySummary == AnomalyHandler(<<Query>>)
AnomalyRoutes ==
  {GetAnomalies, DetectAnomalies, GetUsageSpikes, GetErrorPatterns, GetUserBehavior, AcknowledgeAnomaly,
   GetAnomalyRules, CreateAnomalyRule, TrainBaseline, GetBaselines, GetAnomalySummary}

(* api/routes/funnels.py and services/analytics/funnel_analysis.py *)
CreateDefinition == <<Validate>> \o Create
ReadDefinition == <<Validate, Query>>
ListDefinitions == <<Validate, Query>>
UpdateDefinition == <<Validate, Query, Validate>> \o Create
AnalyzeDefinition == ReadDefinition \o <<Validate, Try(Query), Try(Query)>> \o Create
ReadJourneys == <<Validate, Query>>
ReadPerformance == <<Validate, Query>>

FunnelHandler(steps) == WithId(Tries(steps, ValueIs400))
CreateFunnelDefinition == FunnelHandler(CreateDefinition)
ListFunnelDefinitions == FunnelHandler(ListDefinitions)
GetFunnelDefinition == WithId(Tries(ReadDefinition \o <<Needs("404")>>, ValueIs400Passes))
UpdateFunnelDefinition == FunnelHandler(UpdateDefinition)
\* The 400 for a malformed date is raised inside the try.
AnalyzeFunnelDefinition == FunnelHandler(<<Needs("400")>> \o AnalyzeDefinition)
GetUserJourneys == FunnelHandler(ReadJourneys)
GetFunnelSummary == FunnelHandler(ReadPerformance)
FunnelRoutes ==
  {CreateFunnelDefinition, ListFunnelDefinitions, GetFunnelDefinition, UpdateFunnelDefinition,
   AnalyzeFunnelDefinition, GetUserJourneys, GetFunnelSummary}

(* api/routes/predictions.py, services/analytics/predictive_analytics.py    *)
(* and *_predictor.py: a cached answer, or too little data, ends it early;  *)
(* the answer is cached only after it was stored.                           *)
StorePrediction == <<Change, Save>>
CacheAnswer == <<Outside>>
PredictFrom(predictor) == <<Query, MayReturn, Query, MayReturn>> \o predictor \o CacheAnswer
ConsumptionPredictor == StorePrediction
ChurnPredictor == <<Query>> \o StorePrediction
GrowthPredictor == StorePrediction
PeakPredictor == <<>>                              \* stores nothing
ErrorRatePredictor == StorePrediction
PredictCreditConsumption == PredictFrom(ConsumptionPredictor)
PredictUserChurn == PredictFrom(ChurnPredictor)
PredictGrowthMetrics == <<Validate>> \o PredictFrom(GrowthPredictor)
PredictPeakUsage == PredictFrom(PeakPredictor)
PredictErrorRates == PredictFrom(ErrorRatePredictor)

PredictionHandler(steps) == Passes(WorkspaceIdAndAccess \o steps)
TimedPrediction(steps) == Tries(WorkspaceIdAndAccess \o Within(steps), Timeout(AsRaised))
GetConsumptionPrediction == TimedPrediction(PredictCreditConsumption)
GetChurnPrediction == TimedPrediction(PredictUserChurn)
GetGrowthPrediction == TimedPrediction(PredictGrowthMetrics)
GetPeakPrediction == TimedPrediction(PredictPeakUsage)
GetErrorRatePrediction == TimedPrediction(PredictErrorRates)
GeneratePrediction(predict) == PredictionHandler(<<Needs("400")>> \o predict)   \* unknown type
GetPredictionHistory == PredictionHandler(<<Query>>)
GetPredictionAccuracy == PredictionHandler(<<Query>>)
PredictionRoutes ==
  {GetConsumptionPrediction, GetChurnPrediction, GetGrowthPrediction, GetPeakPrediction,
   GetErrorRatePrediction, GetPredictionHistory, GetPredictionAccuracy}
  \cup {GeneratePrediction(p) : p \in {PredictCreditConsumption, PredictUserChurn, PredictGrowthMetrics,
                                      PredictPeakUsage, PredictErrorRates}}
=============================================================================
