---------------------------- MODULE MCActivePath ----------------------------
\* ActivePath on two builds of the ROM and a killed stage.
EXTENDS ActivePath
=============================================================================
