------------------------------ MODULE MCWindow ------------------------------
EXTENDS Window
CONSTANTS c1, c2
MCFirstKeys == [c \in {c1, c2} |-> IF c = c1 THEN 1 ELSE 2]
=============================================================================
