------------------------------ MODULE MCBridge -------------------------------
EXTENDS Bridge, MCMemList

=============================================================================
