-------------------------------- MODULE MCConsole --------------------------------
\* Two jobs, one after the other, and two analyses, with a budget for one of them.
EXTENDS Advisor
CONSTANTS k1, k2, r1, r2
===============================================================================
