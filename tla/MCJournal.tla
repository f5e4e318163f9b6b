---- MODULE MCJournal ----
EXTENDS Journal

\* One or two blocks, which several client transactions fit in one log entry with; and more
\* than the log takes.
Footprints == {{1}, {2}, {2, 3}, {2, 3, 4}, {1, 2, 3, 4}}
====
