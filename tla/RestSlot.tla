------------------------------ MODULE RestSlot ------------------------------
(***************************************************************************)
(* What the V3.2 strategy promises the exchange and its owner: there is    *)
(* never a second rest on the book, whatever requests fail, and once the   *)
(* quoting of the hour is over no further rest appears.  (The ruling       *)
(* R-OVERLAP of pilot/service/v32/core.py and the pre-place check of       *)
(* v32/executor.py.)                                                       *)
(***************************************************************************)
CONSTANT Orders

VARIABLES
  resting,  \* our orders on the book
  over      \* the hour's quoting has ended: allotment filled, stood down, or past the quote end

Init == resting = {} /\ over = FALSE

\* the end of the quoting is final
EndsOnly == over => over'

Place ==
  /\ resting = {} /\ ~over
  /\ \E o \in Orders : resting' = {o}

\* the order fills, is cancelled or expires
Leave ==
  /\ resting # {} /\ resting' = {}

Next == EndsOnly /\ (Place \/ Leave \/ resting' = resting)

Spec == Init /\ [][Next]_<<resting, over>>
=============================================================================
