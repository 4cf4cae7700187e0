------------------------------ MODULE MCMcatStudy ------------------------------
\* A content category with a flashcard and two problems, and a CARS skill with a
\* passage.
EXTENDS McatStudy
MCLeafOf == [c \in Cards |-> IF c = "q1" THEN "CARS1" ELSE "1A"]
================================================================================
