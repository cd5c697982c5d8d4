------------------------------ MODULE MCBrowser ------------------------------
EXTENDS Browser, TLC
=============================================================================
