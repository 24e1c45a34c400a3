\* Three versions of the driver; a request may be reported on twice; two further
\* runs of the tool follow the first, with or without a reboot between them.
SPECIFICATION FairManagerSpec
CONSTANTS
  MaxVersion = 3
  MaxCallback = 2
  MaxRun = 2
INVARIANTS
  ResumedOnce
  ExitCodeRight
PROPERTIES
  ReportEnds
CHECK_DEADLOCK FALSE
