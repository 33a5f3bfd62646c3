------------------------------- MODULE MCWings -------------------------------
(* Instances of Wings for TLC: what decisions read of the clock and of the books *)
EXTENDS Wings

Asks == { <<x, side>> : x \in 1..3, side \in Sides }

Moment(open, asks) == [open |-> open, cool |-> TRUE, lock |-> TRUE, asks |-> asks]

\* every wing is quoted, or no book is fresh while the coalescing window runs
Quoted == { Moment(FALSE, Asks), Moment(TRUE, {}) }
\* also before a leg may be retried again, and below the lock floor
Timed == Quoted \cup { [Moment(FALSE, Asks) EXCEPT !.cool = FALSE],
                       [Moment(FALSE, Asks) EXCEPT !.lock = FALSE] }
\* the NO wing of bucket 1 may miss its ask
Partial == Quoted \cup { Moment(FALSE, Asks \ {<<2, "no">>}) }
=============================================================================
