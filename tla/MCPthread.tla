------------------------------ MODULE MCPthread ------------------------------
(* Programs of threads for lib/pthread.c and lib/thread.c *)
EXTENDS Pthread

MCSpaces == {<<>>, <<1>>, <<2>>, <<3>>, <<4>>, <<1, 1>>, <<1, 2>>}

Create(g) == [op |-> "create", g |-> g, fail |-> "go"]
JoinThread(k) == [op |-> "join", k |-> k, any |-> TRUE, fail |-> "go"]
InitBarrier(n) == [op |-> "barrier_init", count |-> n, fail |-> "go"]
Wait(b) == [op |-> "barrier_wait", b |-> b, fail |-> "go"]
Destroy(b) == [op |-> "barrier_destroy", b |-> b, fail |-> "go"]
Exit0 == [op |-> "exit", e |-> 0]
Do(op) == [op |-> op]

Rounds(i, j, k, l) ==
    <<InitBarrier(4), InitBarrier(4), Create("member"), Create("busy"), Create("member"),
      Create("busy"), JoinThread(i), JoinThread(j), JoinThread(k), JoinThread(l),
      Destroy(0), Exit0>>

MCCode ==
    [\* four threads, two barriers, three rounds, joined in several orders
     member |-> <<Do("write"), Wait(0), Do("write"), Wait(1), Do("write"), Wait(0),
                  [op |-> "exit", e |-> 7]>>,
     busy |-> <<Do("write"), Do("write"), Wait(0), Wait(1), Do("write"), Wait(0), Do("write"), Exit0>>,
     rounds1 |-> Rounds(1, 2, 3, 4), rounds2 |-> Rounds(2, 1, 4, 3),
     rounds3 |-> Rounds(3, 1, 2, 4), rounds4 |-> Rounds(4, 3, 2, 1),
     \* tparallel_begin, tparallel_end
     worker |-> <<Do("write"), Wait(0), Do("write"), Exit0>>,
     internal |-> TparallelInternal(2, "worker"),
     parallel |-> <<InitBarrier(2), TparallelBegin("internal"), TparallelEnd(1), Create("lone"),
                    JoinThread(2), Exit0>>,
     lone |-> <<Do("write"), Exit0>>,
     \* a master whose threads fail, one with too many, and no slot for a master
     faulty |-> TparallelInternal(2, "crash"),
     many |-> TparallelInternal(5, "lone"),
     failing |-> <<TparallelBegin("faulty"), TparallelEnd(1), Exit0>>,
     toomany |-> <<TparallelBegin("many"), TparallelEnd(1), Exit0>>,
     full |-> <<Create("lone"), Create("lone"), Create("lone"), Create("lone"),
                TparallelBegin("internal"), Exit0>>,
     \* a barrier for more threads than there are, and no free barrier
     short |-> <<InitBarrier(3), InitBarrier(2), InitBarrier(2), InitBarrier(0), Destroy(2), Create("worker"),
                 Create("worker"), JoinThread(1), Exit0>>,
     \* a thread that traps while the others are at a barrier; no free slot
     crash |-> <<Do("trap")>>,
     trap |-> <<InitBarrier(3), Create("worker"), Create("worker"), Create("crash"), Create("lone"),
                Create("lone"), JoinThread(1), JoinThread(3), Exit0>>,
     nobarrier |-> <<Create("worker"), JoinThread(1), Exit0>>,
     \* a thread at another barrier
     other |-> <<Wait(1), Exit0>>,
     wrong |-> <<InitBarrier(2), InitBarrier(2), Create("worker"), Create("other"), JoinThread(1), Exit0>>,
     \* tfork, tjoin, tresume
     twice |-> <<Do("write"), Do("ret"), Do("write"), Do("ret")>>,
     forked |-> <<[op |-> "tfork", th |-> 1, g |-> "twice"], [op |-> "tfork", th |-> 2, g |-> "lone"],
                  [op |-> "tjoin", th |-> 1], [op |-> "tresume", th |-> 1], Do("write"),
                  [op |-> "tjoin", th |-> 2], [op |-> "tjoin", th |-> 1], Exit0>>,
     forkcrash |-> <<[op |-> "tfork", th |-> 1, g |-> "crash"], [op |-> "tjoin", th |-> 1], Exit0>>,
     \* two threads at a barrier, and one that has nothing to do with it
     aside |-> <<InitBarrier(2), Create("lone"), Create("worker"), Create("worker"),
                 JoinThread(2), JoinThread(3), JoinThread(1), Exit0>>,
     \* a thread that returns a negative number
     minus |-> <<Do("write"), [op |-> "exit", e |-> -256]>>,
     negative |-> <<Create("minus"), JoinThread(1), Exit0>>]

MCProgs == DOMAIN MCCode
=============================================================================
