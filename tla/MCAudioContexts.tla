--------------------------- MODULE MCAudioContexts ---------------------------
\* The encoder with three sessions; the memories are numbers so that the next
\* free one is the same in every run.
EXTENDS AudioContexts

MCMemory == 1 .. 7
=============================================================================
