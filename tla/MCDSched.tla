------------------------------ MODULE MCDSched ------------------------------
(* Programs of threads for the scheduler of lib/dsthread.c *)
EXTENDS DSched

Lock(m_) == [op |-> "lock", u |-> m_]
Unlock(m_) == [op |-> "unlock", u |-> m_]
Create(g) == [op |-> "create", g |-> g, det |-> FALSE]
JoinKid(k) == [op |-> "join", k |-> k]
Await(n) == [op |-> "await", n |-> n, c |-> "c", u |-> "d"]
Do(op) == [op |-> op]
Signal == [op |-> "signal", c |-> "c"]
Broadcast == [op |-> "broadcast", c |-> "c"]

MCCode ==
    [worker |-> <<Lock("d"), Do("add"), Signal, Unlock("d"), Do("exit")>>,
     \* waits for two workers, and joins them
     gather |-> <<Create("worker"), Create("worker"), Lock("d"), Await(2), Unlock("d"),
                  JoinKid(1), JoinKid(2), Do("end")>>,
     \* two threads that wait for a third, which wakes both
     waiter |-> <<Lock("d"), Await(1), Unlock("d"), Do("exit")>>,
     wakeall |-> <<Create("waiter"), Create("waiter"), Lock("d"), Do("add"), Broadcast,
                   Signal, Unlock("d"), JoinKid(2), JoinKid(1), Do("end")>>,
     \* a detached thread, and one in the slot that another has left
     reuse |-> <<[op |-> "create", g |-> "worker", det |-> TRUE], Lock("d"), Await(1), Unlock("d"),
                 Create("worker"), JoinKid(2), Create("worker"), JoinKid(3), Do("end")>>,
     trier |-> <<[op |-> "trylock", u |-> "d", fail |-> 4], Do("add"), Unlock("d"), Do("exit")>>,
     try |-> <<Create("trier"), [op |-> "trylock", u |-> "d", fail |-> 5], Do("add"), Unlock("d"),
               JoinKid(1), Lock("d"), Do("add"), Unlock("d"), Do("end")>>,
     \* locks in opposite orders
     ba |-> <<Lock("d"), Lock("a"), Unlock("a"), Unlock("d"), Do("exit")>>,
     ab |-> <<Create("ba"), Lock("a"), Lock("d"), Unlock("d"), Unlock("a"), JoinKid(1), Do("end")>>,
     \* x read in a loop
     adder |-> <<Do("add"), Do("exit")>>,
     spin |-> <<Create("adder"), [op |-> "spin", n |-> 1], JoinKid(1), Do("end")>>,
     \* x read in a loop by the owner of a mutex that the other thread needs
     spinowner |-> <<Create("worker"), [op |-> "spin", n |-> 1], JoinKid(1), Do("end")>>,
     \* two rounds in which each of two threads waits for the other
     round |-> <<Lock("d"), Do("add"), Broadcast, Await(2), Do("add"), Broadcast, Await(4),
                 Unlock("d"), Do("exit")>>,
     rounds |-> <<Create("round"), Lock("d"), Do("add"), Broadcast, Await(2), Do("add"), Broadcast,
                  Await(4), Unlock("d"), JoinKid(1), Do("end")>>]

MCProgs == DOMAIN MCCode
=============================================================================
