------------------------- MODULE MCClickhouseWriter -------------------------
EXTENDS ClickhouseWriter

CONSTANTS t1, t2, r1, r2, r3

\* Two rows of one table, which fill a batch, and one row of another.
TwoTables == [r \in Rows |-> IF r = r3 THEN t2 ELSE t1]
=============================================================================
