SPECIFICATION FairSpec
CONSTANTS
  Exc <- MCExc
  Prio <- DefaultPrio
  MaxReload = 3
  MaxCount = 3
  Limits <- MCLimits
PROPERTY CsrReadsBack
