------------------------ MODULE MCTickerFineTuneQueue ------------------------
\* The specification TickerFineTuneQueue.cfg model-checks.
EXTENDS TickerFineTuneQueue
=============================================================================
