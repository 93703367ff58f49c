------------------------------ MODULE MCSdJobs ------------------------------
\* Small instances of SdJobs for TLC.
EXTENDS SdJobs

=============================================================================
