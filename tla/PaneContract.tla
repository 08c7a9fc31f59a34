---------------------------- MODULE PaneContract ----------------------------
(***************************************************************************)
(* What the I/O actor of a pane promises the rest of the server: who may   *)
(* use the PTY, and what happens to user input that was accepted.          *)
(***************************************************************************)
EXTENDS Naturals, Sequences

VARIABLES
    mode,      \* "serving", "silent" (leaves the PTY alone) or "gone"
    lent,      \* the server takes the pane to be in another server's hands
    accepted,  \* the writes accepted are 1 to accepted
    written,   \* those that have reached the child, in order
    lossy,     \* the PTY has refused a write
    output     \* chunks of output the child has written and nobody has read

\* A pane of this server serves it; an imported one is still the other server's.
Init ==
    /\ <<mode, lent>> \in {<<"serving", FALSE>>, <<"silent", TRUE>>}
    /\ accepted = 0 /\ written = <<>> /\ lossy = FALSE
    /\ output = 0

\* Input is refused while the pane is silent or lent; nobody notices at once that the
\* actor is gone.
Accept ==
    /\ mode # "silent" /\ ~lent
    /\ accepted' = accepted + 1
    /\ UNCHANGED <<mode, lent, written, lossy, output>>

\* Accepted writes reach the child in order, none twice, and none is skipped until the
\* PTY has refused one.
Deliver ==
    /\ mode = "serving"
    /\ \E n \in 1..accepted :
          /\ \A i \in DOMAIN written : written[i] < n
          /\ lossy \/ n = Len(written) + 1
          /\ written' = Append(written, n)
    /\ UNCHANGED <<mode, lent, accepted, lossy, output>>

Lose ==
    /\ mode = "serving"
    /\ lossy' = TRUE
    /\ UNCHANGED <<mode, lent, accepted, written, output>>

TakeOutput ==
    /\ mode = "serving" /\ output > 0
    /\ output' = output - 1
    /\ UNCHANGED <<mode, lent, accepted, written, lossy>>

ChildWrites ==
    /\ output' = output + 1
    /\ UNCHANGED <<mode, lent, accepted, written, lossy>>

\* The actor falls silent only with nothing left to deliver.
FallSilent ==
    /\ mode = "serving"
    /\ lossy \/ Len(written) = accepted
    /\ mode' = "silent"
    /\ UNCHANGED <<lent, accepted, written, lossy, output>>

\* A pane is lent only when its actor is silent, and stays silent until it is taken back.
Lend ==
    /\ mode # "serving" /\ ~lent
    /\ lent' = TRUE
    /\ UNCHANGED <<mode, accepted, written, lossy, output>>

TakeBack ==
    /\ lent
    /\ lent' = FALSE
    /\ UNCHANGED <<mode, accepted, written, lossy, output>>

ServeAgain ==
    /\ mode = "silent" /\ ~lent
    /\ mode' = "serving"
    /\ UNCHANGED <<lent, accepted, written, lossy, output>>

Leave ==
    /\ mode' = "gone"
    /\ UNCHANGED <<lent, accepted, written, lossy, output>>

Next ==
    \/ Accept \/ Deliver \/ Lose \/ TakeOutput \/ ChildWrites
    \/ FallSilent \/ Lend \/ TakeBack \/ ServeAgain \/ Leave

Spec == Init /\ [][Next]_<<mode, lent, accepted, written, lossy, output>>
=============================================================================
