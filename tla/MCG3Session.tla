---------------------------- MODULE MCG3Session ----------------------------
EXTENDS G3Session
CONSTANTS l1, l2
MCLayers == {l1, l2}
=============================================================================
