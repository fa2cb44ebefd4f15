--------------------------- MODULE MCReplResync ---------------------------
EXTENDS ReplResync
CONSTANTS a, b
============================================================================
