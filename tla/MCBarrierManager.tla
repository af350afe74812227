-------------------------- MODULE MCBarrierManager --------------------------
EXTENDS BarrierManager

CONSTANTS c1, c2, c3

=============================================================================
