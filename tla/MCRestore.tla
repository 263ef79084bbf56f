------------------------------ MODULE MCRestore ------------------------------
EXTENDS Restore
CONSTANTS f, g, d
MCFolderOf == [x \in {f, g} |-> IF x = f THEN d ELSE Root]
MCMaxSize == [x \in {f, g} |-> IF x = f THEN 2 ELSE 1]
=============================================================================
