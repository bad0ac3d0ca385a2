------------------------- MODULE MC_CommandProcessor -------------------------
EXTENDS CommandProcessor, TLC
CONSTANTS g1, g2
==============================================================================
