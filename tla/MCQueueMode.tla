----------------------------- MODULE MCQueueMode -----------------------------
EXTENDS QueueMode

CONSTANTS x1, x2, w1, w2

None == {}
One == {x1}
Two == {x1, x2}
MCWorker == {w1, w2}
=============================================================================
