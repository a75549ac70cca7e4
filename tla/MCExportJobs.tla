---------------------------- MODULE MCExportJobs ----------------------------
(* A small instance of ExportJobs for TLC. *)
EXTENDS ExportJobs
\* Nothing fails, the object storage does, the key expires (in these a job must come to
\* its end); Redis fails, or Postgres, with dropped requests.
JobFaultSets == { {}, {"s3"}, {"expiry"}, {"redis", "cancel"}, {"db", "cancel", "s3"} }
=============================================================================
