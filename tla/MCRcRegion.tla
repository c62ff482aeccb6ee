----------------------------- MODULE MCRcRegion -----------------------------
EXTENDS RcRegion
CONSTANTS e, a, b, q
=============================================================================
