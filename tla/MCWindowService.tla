----------------------------- MODULE MCWindowService -----------------------------
EXTENDS WindowService
==============================================================================
