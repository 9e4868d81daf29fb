------------------------------ MODULE MCReorder ------------------------------
EXTENDS Reorder

MCItems == 1..3
MCLengths == 1..5
=============================================================================
