------------------------------ MODULE MCCursorTimer ------------------------------
EXTENDS CursorTimer
==============================================================================
