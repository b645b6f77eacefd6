------------------------------ MODULE MCAgentTurn ------------------------------
EXTENDS AgentTurn

\* A new ladder, one at its first rung, at its ceiling, and already revealed.
MCRows == {Ladder!NoRow} \cup
          {[level |-> l, verified |-> FALSE, ceiling |-> Ladder!Lower(l + 3, 6)] : l \in {0, 3, 6}}
MCLevels == {Ladder!Hint, Ladder!Partial, Ladder!Full}

\* No part of the answer, or what one phrase asks for.
MCRequests == {{}} \cup SectionAsks
===============================================================================
