--------------------------- MODULE MCProgressLog ---------------------------
EXTENDS ProgressLog, TLC

CONSTANTS a, b

TwoRecords == {a, b}
=============================================================================
