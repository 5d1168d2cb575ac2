--------------------------- MODULE MCActiveObject ---------------------------
EXTENDS ActiveObject
=============================================================================
