------------------------------ MODULE MCExportJobs ------------------------------
(* ExportJobs for TLC: small instances are chosen in the configurations. *)
EXTENDS ExportJobs
=============================================================================
