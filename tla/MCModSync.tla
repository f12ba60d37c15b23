----------------------------- MODULE MCModSync -----------------------------
EXTENDS ModSync
=============================================================================
