------------------------------ MODULE MCXhci ------------------------------
\* Instances of the xHCI driver for TLC.
EXTENDS Xhci, TLC
MCPorts == 1..2
MCSlots == 1..2
MCFrames == 1..14
MCSymmetry == Permutations(Pollers)
============================================================================
