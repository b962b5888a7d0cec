------------------------------ MODULE MCIoWait ------------------------------
EXTENDS IoWait

CONSTANTS wa, wb, fd1, fd2, r1, r2

\* Two fibers on one socket: one reading, one writing, both with a timeout.
MCWaiters == {wa, wb}
MCFdsShared == {fd1}
MCFdOfShared == [w \in MCWaiters |-> fd1]
MCEvOf == [w \in MCWaiters |-> IF w = wa THEN "READ" ELSE "WRITE"]
MCTimeout == [w \in MCWaiters |-> 1]
\* Only the reader has a timeout (the writer's fd has none set).
\* Neither fd has a timeout: only the reactor or a close ends a wait.
MCNoTimeouts == [w \in MCWaiters |-> NoTimeout]
MCTimeoutReader == [w \in MCWaiters |-> IF w = wa THEN 1 ELSE NoTimeout]

\* The same fibers on two sockets.
MCFdsApart == {fd1, fd2}
MCFdOfApart == [w \in MCWaiters |-> IF w = wa THEN fd1 ELSE fd2]

\* Which fds another fiber closes: none, or the writer's socket.
MCNoClose == {}
MCCloseFd2 == {fd2}
MCCloseFd1 == {fd1}

MCReactors1 == {r1}
MCReactors2 == {r1, r2}
=============================================================================
