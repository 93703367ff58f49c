------------------------- MODULE MCBackendRegistry -------------------------
\* Small instances of BackendRegistry for TLC.
EXTENDS BackendRegistry

Together == {{"requests", "delete", "evacuate"}, {"requests", "agent"},
             {"silence", "agent"}, {"silence", "role"}, {"silence", "delete"}}

=============================================================================
