------------------------- MODULE MCWaveformAnalysis -------------------------
EXTENDS WaveformAnalysis
==============================================================================
