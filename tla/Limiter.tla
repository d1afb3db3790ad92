------------------------------- MODULE Limiter -------------------------------
(***************************************************************************)
(* The in-process concurrency limiter of the daemon (createLimiter, and     *)
(* withQuoteSlot, which repeats it): at most `max' tasks run, a caller that *)
(* finds them all taken queues, and a task that ends wakes the head of the  *)
(* queue.  The woken caller goes on in a later turn of the event loop, and  *)
(* counts itself only then: between the two a newcomer may take the slot.   *)
(***************************************************************************)
EXTENDS Naturals, Sequences

(* A fresh limiter.  `woken' counts the callers whose promise is resolved   *)
(* and which have not gone on yet.                                          *)
NewLimiter == [active |-> 0, queue |-> <<>>, woken |-> 0]

OneTooMany(l, max) == l.active > max     \* mutant: an off-by-one in the test
Full(l, max) == l.active >= max

(* A caller c arrives: it runs at once or queues.                           *)
Enter(l, max, c) == IF Full(l, max) THEN [l EXCEPT !.queue = Append(@, c)]
                                    ELSE [l EXCEPT !.active = @ + 1]

(* A woken caller goes on.  It does not look at `active' again.             *)
Resume(l) == [active |-> l.active + 1, queue |-> l.queue, woken |-> l.woken - 1]

(* Mutant: the end of a task frees its slot and wakes nobody.               *)
LeaveQuietly(l) == [l EXCEPT !.active = @ - 1]

(* A task ends, by returning or by throwing, and wakes the next caller.     *)
Leave(l) == IF l.queue = <<>> THEN [l EXCEPT !.active = @ - 1]
            ELSE [active |-> l.active - 1, queue |-> Tail(l.queue), woken |-> l.woken + 1]

(* Mutant: the promise of the waiting caller is never resolved.             *)
WokenByNobody(l) == {}

(* Who is woken when a task ends.                                           *)
WokenBy(l) == IF l.queue = <<>> THEN {} ELSE {Head(l.queue)}

(* Nobody queues while a slot is free: the tasks that run and those about   *)
(* to go on use the limiter up.                                             *)
Busy(l, max) == l.queue # <<>> => l.active + l.woken >= max
==============================================================================
