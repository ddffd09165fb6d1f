------------------------------ MODULE MCCrewRoute ------------------------------
EXTENDS CrewRoute

\* Both vendors, with and without a snapshot, and every setting.
MCJobs ==
  {[vendor |-> "codebuddy", mode |-> "read_only", wants |-> "effort"],
   [vendor |-> "codebuddy", mode |-> "patch", wants |-> "nothing"],
   [vendor |-> "qoder", mode |-> "read_only", wants |-> "model"]}
================================================================================
