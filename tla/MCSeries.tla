---- MODULE MCSeries ----
(* A small instance of Series.                                                *)
EXTENDS Series, TLC
CONSTANTS MaxAsked, Overlapping, Starts
VARIABLE asked
\* A series starts new, with one occurrence that is settled, or stopped.
First == CHOOSE s \in Steps : \A t \in Steps : s <= t
Spent(count) == [active |-> TRUE, due |-> First, step |-> First, count |-> count, elapsed |-> 1,
                 spent |-> 0, auto |-> FALSE]
Init ==
    /\ asked = 0
    /\ \/ "new" \in Starts /\ SeriesInit /\ (tpl.auto <=> tpl.count # 0)
       \/ /\ \E count \in Counts, start \in Starts \ {"new"} :
               tpl = IF start = "spent" THEN Spent(count)
                     ELSE [Spent(count) EXCEPT !.active = FALSE, !.elapsed = 0, !.spent = -1, !.due = 0]
          /\ rows = {[no |-> 1, date |-> 0, status |-> "settled", state |-> "accepted",
                      linked |-> TRUE, byHand |-> FALSE] : n \in {1} \cap {tpl.elapsed}}
          /\ today = 0
          /\ call = [c \in Calls |-> Rest]
          /\ delivered = tpl.elapsed
          /\ resumedAt = 0
Begins == \E c \in Calls : call[c] = Rest /\ call'[c] # Rest
\* Requests that act on what they read unlocked: only those of Overlapping
\* meet other requests.
Alone(q) == q.pc \in {"generates", "resumes", "stops", "moves"} \ Overlapping
Next ==
    /\ SeriesNext
    /\ (\E c \in Calls : Alone(call[c])) => call' # call /\ ~ Begins
    /\ \A c \in Calls : Alone(call'[c]) => \A d \in Calls \ {c} : call'[d] = Rest
    /\ asked' = IF Begins \/ call' = call THEN asked + 1 ELSE asked
    /\ asked' <= MaxAsked
    /\ today' <= MaxDay - Cycle
    /\ tpl'.due <= MaxDay
====
