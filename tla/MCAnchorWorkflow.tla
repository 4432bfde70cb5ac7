--------------------------- MODULE MCAnchorWorkflow ---------------------------
\* Instances of AnchorWorkflow with one receipt and with two.
EXTENDS AnchorWorkflow

CONSTANTS p1, p2

One == <<p1>>
Both == <<p1, p2>>
=============================================================================
