-------------------------- MODULE MCRecordedStream --------------------------
\* A recording of two rows in a loop, a window of three rows and a queue of one:
\* history is deeper than the queue, and a loop seam lies in every window.
EXTENDS RecordedStream
MCSelections == {{1}, {2}}
=============================================================================
