---------------------------- MODULE MCReportPath ----------------------------
\* ReportPath for TLC: one key is like another.
EXTENDS ReportPath, TLC

TwoKinds == <<"keyboard_input", "consumer_input">>

KeySymmetry == Permutations(Key)
=============================================================================
