---------------------------- MODULE MCPlayerWindow ----------------------------
\* Three seats, of which the first may blow itself up.
EXTENDS PlayerWindowProps

Table == 0..2
Wolves == {0}
=============================================================================
