-------------------------- MODULE MCRunPublication --------------------------
(* Small instances of RunPublication for TLC. *)
EXTENDS RunPublication

\* The dashboard's default has four formats; two show what four do.  The command line
\* splits what the user typed: a repeated format and an unknown one.
MCRequests == {<<"html", "junit">>, <<"json", "json">>, <<"sarif", "pdf">>}

\* DEFAULT_REPORT_FORMATS
MCDefault == {<<"html", "json", "junit", "sarif">>}
=============================================================================
