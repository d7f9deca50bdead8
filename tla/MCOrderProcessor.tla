-------------------------- MODULE MCOrderProcessor --------------------------
(* Small instances of OrderProcessor for TLC. *)
EXTENDS OrderProcessor, TLC

\* Pool goroutines are interchangeable, and so are the directions of a reversed
\* order.
FlusherSymmetry == Permutations(Flushers)
FlusherDirSymmetry == FlusherSymmetry \cup Permutations(Dirs)

Fill(r, d, t)  == [type |-> "fill", order |-> r, dir |-> d, tid |-> t]
Update(r, s)   == [type |-> "update", order |-> r, dir |-> NoDir, status |-> s]

\* One order: two trades, each of which may be delivered again, its final status.
MCMsgsOne ==
    {Fill("r1", "Open Long", 1), Fill("r1", "Open Long", 2), Update("r1", "filled")}

\* A reversed order: the fills of one oid carry two directions.
MCMsgsReversed == {Fill("r1", d, 1) : d \in Dirs} \cup {Update("r1", "filled")}

\* Constraint: the second trade comes last, after the first and what may repeat it.
SecondTradeLast ==
    LET second == Fill("r1", "Open Long", 2) IN
    offered < MaxMsgs => /\ \A i \in 1 .. Len(queue) : queue[i] # second
                         /\ \A c \in Handlers : h[c].msg # second

=============================================================================
