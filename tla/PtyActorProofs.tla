--------------------------- MODULE PtyActorProofs ---------------------------
(* Safety of the PTY actor for every number of writers, every buffer and every bound.  *)
EXTENDS PtyActor, TLAPS

\* What the proofs use of sequences.
LEMMA SeqFacts ==
    ASSUME NEW S, NEW s \in Seq(S)
    PROVE  /\ DOMAIN s = 1..Len(s) /\ Len(s) \in Nat
           /\ \A i \in 1..Len(s) : s[i] \in S
           /\ s # <<>> => /\ 1 \in 1..Len(s) /\ Head(s) = s[1] /\ Head(s) \in S
                          /\ Tail(s) \in Seq(S) /\ Len(Tail(s)) = Len(s) - 1
                          /\ \A i \in 1..Len(Tail(s)) : Tail(s)[i] = s[i + 1]
  OBVIOUS

\* What Append does to the elements of a sequence.
LEMMA AppendFacts ==
    ASSUME NEW S, NEW s \in Seq(S), NEW e \in S
    PROVE  /\ Append(s, e) \in Seq(S)
           /\ Len(Append(s, e)) = Len(s) + 1
           /\ \A i \in 1..Len(s) : Append(s, e)[i] = s[i]
           /\ Append(s, e)[Len(s) + 1] = e
  OBVIOUS

\* A function on 1..n is a sequence.
LEMMA IsASeq ==
    ASSUME NEW S, NEW n \in Nat, NEW f \in [1..n -> S]
    PROVE  f \in Seq(S) /\ Len(f) = n
  OBVIOUS

\* Abandoning a call changes no command, only who waits for its answer.
LEMMA AbandonedFacts ==
    ASSUME ctlQ \in Seq(Commands)
    PROVE  /\ Abandoned \in Seq(Commands)
           /\ Len(Abandoned) = Len(ctlQ)
           /\ \A i \in 1..Len(ctlQ) : Abandoned[i].op = ctlQ[i].op /\ ~Abandoned[i].live
<1>1. DOMAIN ctlQ = 1..Len(ctlQ) /\ Len(ctlQ) \in Nat
  BY SeqFacts
<1>2. \A i \in 1..Len(ctlQ) : ctlQ[i] \in Commands
  BY SeqFacts
<1>3. \A i \in 1..Len(ctlQ) : Abandoned[i] = [ctlQ[i] EXCEPT !.live = FALSE]
  BY <1>1 DEF Abandoned
<1>4. Abandoned \in [1..Len(ctlQ) -> Commands]
  BY <1>1, <1>2 DEF Abandoned, Commands
<1>5. Abandoned \in Seq(Commands) /\ Len(Abandoned) = Len(ctlQ)
  BY <1>1, <1>4, IsASeq
<1>6. QED
  BY <1>2, <1>3, <1>5 DEF Commands

\* The control channel stays a sequence of commands in every way it is written.
LEMMA ChannelType ==
    ASSUME DataOK
    PROVE  /\ ctlQ \in Seq(Commands) /\ Abandoned \in Seq(Commands) /\ <<>> \in Seq(Commands)
           /\ \A op \in Ops, live \in BOOLEAN :
                 /\ Append(ctlQ, [op |-> op, live |-> live]) \in Seq(Commands)
                 /\ Append(Abandoned, [op |-> op, live |-> live]) \in Seq(Commands)
           /\ ctlQ # <<>> => Head(ctlQ) \in Commands /\ Tail(ctlQ) \in Seq(Commands)
<1>1. ctlQ \in Seq(Commands)
  BY DEF DataOK
<1>2. Abandoned \in Seq(Commands)
  BY <1>1, AbandonedFacts
<1>3. \A op \in Ops, live \in BOOLEAN : [op |-> op, live |-> live] \in Commands
  BY DEF Commands
<1>4. QED
  BY <1>1, <1>2, <1>3, SeqFacts, AppendFacts

\* Every step keeps the Boolean variables Boolean.
LEMMA FlagsStep ==
    ASSUME TypeOK, [Next]_vars
    PROVE  FlagsOK'
<1> USE DEF TypeOK, FlagsOK, DataOK, handleVars, runnerVars, serverVars, ptyVars,
            boundVars, histVars
<1>1. ASSUME NEW w \in Writers, Writer(w)
      PROVE  FlagsOK'
  BY <1>1 DEF Writer, TryWrite, AsyncWrite, Reserve, SendPermit, WakeActor, Accept, WriterTo
<1>2. ASSUME NEW size \in Sizes, NEW report \in BOOLEAN, Resize(size, report)
      PROVE  FlagsOK'
  BY <1>2 DEF Resize
<1>3. CASE Nudge \/ BeginHandoff \/ BeginRefused \/ BeginReplied \/ BeginFailed
  BY <1>3 DEF Nudge, BeginHandoff, BeginRefused, BeginReplied, BeginFailed, Send, SendFails
<1>4. CASE Rollback \/ RollbackReplied \/ RollbackUnanswered
  BY <1>4 DEF Rollback, RollbackReplied, RollbackUnanswered, Send, SendFails
<1>5. CASE Duplicate \/ DuplicateReplied \/ DuplicateFailed
  BY <1>5 DEF Duplicate, DuplicateReplied, DuplicateFailed, Send
<1>6. CASE Release \/ DropReleased \/ ClosePane
  BY <1>6 DEF Release, DropReleased, ClosePane, Shutdown, Send, SendFails
<1>7. CASE HandleControl
  <2>1. Head(ctlQ) \in [op : Ops, live : BOOLEAN]
    BY <1>7, ChannelType DEF HandleControl, Commands
  <2>2. QED BY <1>7, <2>1 DEF HandleControl, Answer
<1>8. CASE HandleStop \/ ControlDrained \/ HandleData \/ PreQuiesce \/ ApplyControls
  BY <1>8 DEF HandleStop, Answer, Exit, ControlDrained, HandleData, PreQuiesce, ApplyControls
<1>9. CASE WriteAll \/ WritePart \/ WriteBlocked \/ WriteFails \/ Flushed
  BY <1>9 DEF WriteAll, WritePart, WriteBlocked, WriteFails, Flushed
<1>10. CASE Quiesce \/ QuiesceTimesOut
  BY <1>10 DEF Quiesce, QuiesceTimesOut, Answer
<1>11. CASE PollWoken \/ PollWritable \/ PollReadable \/ PollTimesOut \/ PollFails
  BY <1>11 DEF PollWoken, PollWritable, PollReadable, PollTimesOut, PollFails, GoTo, Exit
<1>12. CASE Read \/ ReadNothing \/ ReadEof
  BY <1>12 DEF Read, ReadNothing, ReadEof, GoTo, Exit
<1>13. CASE Child
  BY <1>13 DEF Child, ChildWrites, ChildExits
<1>14. CASE UNCHANGED vars
  BY <1>14 DEF vars
<1>15. QED
  BY <1>1, <1>2, <1>3, <1>4, <1>5, <1>6, <1>7, <1>8, <1>9, <1>10, <1>11, <1>12,
     <1>13, <1>14
     DEF Next, Main, Runner

\* Every step keeps the types of the other variables.
LEMMA DataStep ==
    ASSUME TypeOK, [Next]_vars
    PROVE  DataOK'
<1>a. /\ NoResize \in [size : Nat, report : BOOLEAN]
      /\ Sizes \subseteq Nat \ {0} /\ Buffer \in Nat
  BY ConstantsAssumption DEF NoResize
<1> USE DEF TypeOK, FlagsOK, DataOK, ResizeRequests, NoResize, Response, handleVars, runnerVars, serverVars, ptyVars, boundVars, histVars
<1>1. ASSUME NEW w \in Writers, TryWrite(w)
      PROVE  DataOK'
  BY <1>a, <1>1 DEF TryWrite, Accept
<1>2. ASSUME NEW w \in Writers, AsyncWrite(w)
      PROVE  DataOK'
  BY <1>a, <1>2 DEF AsyncWrite, WriterTo
<1>3. ASSUME NEW w \in Writers, Reserve(w)
      PROVE  DataOK'
  <2>1. CASE WriterTo(w, "permit")
    BY <1>a, <1>3, <2>1 DEF Reserve, WriterTo
  <2>2. CASE WriterTo(w, "idle")
    BY <1>a, <1>3, <2>2 DEF Reserve, WriterTo
  <2>3. QED BY <1>3, <2>1, <2>2 DEF Reserve, WriterTo
<1>4. ASSUME NEW w \in Writers, SendPermit(w)
      PROVE  DataOK'
  <2>1. CASE Accept(w)
    <3>1. accepted' = accepted + 1 /\ accepted + 1 \in Nat \ {0}
      BY <2>1 DEF Accept
    <3>2. Append(dataQ, accepted + 1) \in Seq(Nat \ {0})
      BY <3>1, AppendFacts
    <3>3. dataQ' \in Seq(Nat \ {0})
      BY <2>1, <3>2 DEF Accept
    <3>4. QED BY <2>1, <3>1, <3>3 DEF Accept
  <2>2. CASE WriterTo(w, "idle")
    BY <1>a, <2>2 DEF WriterTo
  <2>3. QED BY <1>4, <2>1, <2>2 DEF SendPermit
<1>5. ASSUME NEW w \in Writers, WakeActor(w)
      PROVE  DataOK'
  BY <1>a, <1>5 DEF WakeActor
<1>6. ASSUME NEW size \in Sizes, NEW report \in BOOLEAN, Resize(size, report)
      PROVE  DataOK'
  BY <1>a, <1>6 DEF Resize
<1>7. ASSUME Nudge
      PROVE  DataOK'
  BY <1>a, <1>7 DEF Nudge
<1>8. ASSUME BeginHandoff
      PROVE  DataOK'
  <2>c. ctlQ' \in Seq(Commands)
    BY ChannelType, <1>8 DEF BeginHandoff, Send, Ops
  <2>d. QED BY <2>c, <1>8 DEF BeginHandoff, Send
<1>9. ASSUME BeginReplied
      PROVE  DataOK'
  BY <1>a, <1>9 DEF BeginReplied
<1>10. ASSUME BeginFailed
      PROVE  DataOK'
  <2>c. ctlQ' \in Seq(Commands)
    BY ChannelType, <1>10 DEF BeginFailed, NoReply, Send, SendFails, Ops
  <2>1. CASE pc = "exited"
    BY <2>c, <1>10, <2>1 DEF BeginFailed, NoReply, Send, SendFails
  <2>2. CASE pc # "exited"
    BY <2>c, <1>10, <2>2 DEF BeginFailed, NoReply, Send, SendFails
  <2>3. QED BY <1>10, <2>1, <2>2 DEF BeginFailed, NoReply, Send, SendFails
<1>11. ASSUME Rollback
      PROVE  DataOK'
  <2>c. ctlQ' \in Seq(Commands)
    BY ChannelType, <1>11 DEF Rollback, Send, SendFails, Ops
  <2>1. CASE pc = "exited"
    BY <2>c, <1>11, <2>1 DEF Rollback, Send, SendFails
  <2>2. CASE pc # "exited"
    BY <2>c, <1>11, <2>2 DEF Rollback, Send, SendFails
  <2>3. QED BY <1>11, <2>1, <2>2 DEF Rollback, Send, SendFails
<1>12. ASSUME RollbackReplied
      PROVE  DataOK'
  BY <1>a, <1>12 DEF RollbackReplied
<1>13. ASSUME RollbackUnanswered
      PROVE  DataOK'
  <2>c. ctlQ' \in Seq(Commands)
    BY ChannelType, <1>13 DEF RollbackUnanswered, NoReply, Ops
  <2>d. QED BY <2>c, <1>13 DEF RollbackUnanswered, NoReply
<1>14. ASSUME Duplicate
      PROVE  DataOK'
  <2>c. ctlQ' \in Seq(Commands)
    BY ChannelType, <1>14 DEF Duplicate, Send, Ops
  <2>d. QED BY <2>c, <1>14 DEF Duplicate, Send
<1>15. ASSUME DuplicateReplied
      PROVE  DataOK'
  BY <1>a, <1>15 DEF DuplicateReplied
<1>16. ASSUME DuplicateFailed
      PROVE  DataOK'
  <2>c. ctlQ' \in Seq(Commands)
    BY ChannelType, <1>16 DEF DuplicateFailed, NoReply, Ops
  <2>d. QED BY <2>c, <1>16 DEF DuplicateFailed, NoReply
<1>17. ASSUME Release
      PROVE  DataOK'
  <2>c. ctlQ' \in Seq(Commands)
    BY ChannelType, <1>17 DEF Release, Send, SendFails, Ops
  <2>1. CASE pc = "exited"
    BY <2>c, <1>17, <2>1 DEF Release, Send, SendFails
  <2>2. CASE pc # "exited"
    BY <2>c, <1>17, <2>2 DEF Release, Send, SendFails
  <2>3. QED BY <1>17, <2>1, <2>2 DEF Release, Send, SendFails
<1>18. ASSUME DropReleased
      PROVE  DataOK'
  <2>c. ctlQ' \in Seq(Commands)
    BY ChannelType, <1>18 DEF DropReleased, Shutdown, NoReply, Send, SendFails, Ops
  <2>1. CASE pc = "exited"
    BY <2>c, <1>18, <2>1 DEF DropReleased, Shutdown, NoReply, Send, SendFails
  <2>2. CASE pc # "exited"
    BY <2>c, <1>18, <2>2 DEF DropReleased, Shutdown, NoReply, Send, SendFails
  <2>3. QED BY <1>18, <2>1, <2>2 DEF DropReleased, Shutdown, NoReply, Send, SendFails
<1>19. ASSUME ClosePane
      PROVE  DataOK'
  <2>c. ctlQ' \in Seq(Commands)
    BY ChannelType, <1>19 DEF ClosePane, Shutdown, Send, SendFails, Ops
  <2>1. CASE pc = "exited"
    BY <2>c, <1>19, <2>1 DEF ClosePane, Shutdown, Send, SendFails
  <2>2. CASE pc # "exited"
    BY <2>c, <1>19, <2>2 DEF ClosePane, Shutdown, Send, SendFails
  <2>3. QED BY <1>19, <2>1, <2>2 DEF ClosePane, Shutdown, Send, SendFails
<1>20. ASSUME HandleControl
      PROVE  DataOK'
  BY <1>a, <1>20 DEF HandleControl, Answer
<1>21. ASSUME HandleStop
      PROVE  DataOK'
  <2>c. ctlQ' \in Seq(Commands)
    BY ChannelType, <1>21 DEF HandleStop, Answer, Exit, Ops
  <2>d. state' \in {"Running", "Quiesced", "Released"}
    BY <1>21 DEF HandleStop
  <2>g. pending' \in Seq(Nat)
    <3>1. <<>> \in Seq(Nat) OBVIOUS
    <3>2. QED BY <1>21, <3>1 DEF HandleStop
  <2>e. reply' \in {"none", "ok", "err"}
    BY <1>21 DEF HandleStop, Answer
  <2>f. QED BY <2>c, <2>d, <2>e, <2>g, <1>21 DEF HandleStop, Exit
<1>22. ASSUME ControlDrained
      PROVE  DataOK'
  BY <1>a, <1>22 DEF ControlDrained
<1>23. ASSUME HandleData
      PROVE  DataOK'
  BY <1>a, <1>23 DEF HandleData
<1>24. ASSUME PreQuiesce
      PROVE  DataOK'
  BY <1>a, <1>24 DEF PreQuiesce
<1>25. ASSUME ApplyControls
      PROVE  DataOK'
  BY <1>a, <1>25 DEF ApplyControls, WindowAfterControls
<1>26. ASSUME WriteAll
      PROVE  DataOK'
  <2>1. CASE Head(pending) = Response
    BY <1>a, <1>26, <2>1 DEF WriteAll, Flushing
  <2>2. CASE Head(pending) # Response
    BY <1>a, <1>26, <2>2 DEF WriteAll, Flushing
  <2>3. QED BY <1>26, <2>1, <2>2 DEF WriteAll, Flushing
<1>27. ASSUME WritePart
      PROVE  DataOK'
  BY <1>a, <1>27 DEF WritePart, Flushing
<1>28. ASSUME WriteBlocked
      PROVE  DataOK'
  BY <1>a, <1>28 DEF WriteBlocked, Flushing, Resume
<1>29. ASSUME WriteFails
      PROVE  DataOK'
  BY <1>a, <1>29 DEF WriteFails, Flushing, Resume
<1>30. ASSUME Flushed
      PROVE  DataOK'
  BY <1>a, <1>30 DEF Flushed, Resume
<1>31. ASSUME Quiesce
      PROVE  DataOK'
  BY <1>a, <1>31 DEF Quiesce, Answer
<1>32. ASSUME QuiesceTimesOut
      PROVE  DataOK'
  BY <1>a, <1>32 DEF QuiesceTimesOut, Answer
<1>33. ASSUME PollWoken
      PROVE  DataOK'
  BY <1>a, <1>33 DEF PollWoken, GoTo
<1>34. ASSUME PollWritable
      PROVE  DataOK'
  BY <1>a, <1>34 DEF PollWritable, GoTo
<1>35. ASSUME PollReadable
      PROVE  DataOK'
  BY <1>a, <1>35 DEF PollReadable, GoTo
<1>36. ASSUME PollTimesOut
      PROVE  DataOK'
  BY <1>a, <1>36 DEF PollTimesOut, GoTo
<1>37. ASSUME Read
      PROVE  DataOK'
  <2>1. CASE pending' = pending /\ responses' = responses
    BY <1>a, <1>37, <2>1 DEF Read
  <2>2. CASE pending' = Append(pending, Response) /\ responses' = responses + 1
    BY <1>a, <1>37, <2>2 DEF Read
  <2>3. QED BY <1>37, <2>1, <2>2 DEF Read
<1>38. ASSUME ReadNothing
      PROVE  DataOK'
  BY <1>a, <1>38 DEF ReadNothing, GoTo
<1>39. ASSUME ReadEof
      PROVE  DataOK'
  BY <1>a, <1>39 DEF ReadEof, Exit
<1>40. ASSUME ChildWrites
      PROVE  DataOK'
  BY <1>a, <1>40 DEF ChildWrites
<1>41. ASSUME ChildExits
      PROVE  DataOK'
  BY <1>a, <1>41 DEF ChildExits
<1>42. CASE BeginRefused
  BY <1>a, <1>42 DEF BeginRefused
<1>43. CASE PollFails
  BY <1>a, <1>43 DEF PollFails, Exit
<1>44. CASE UNCHANGED vars
  BY <1>a, <1>44 DEF vars
<1>45. QED
  BY <1>1, <1>2, <1>3, <1>4, <1>5, <1>6, <1>7, <1>8, <1>9, <1>10, <1>11, <1>12,
     <1>13, <1>14, <1>15, <1>16, <1>17, <1>18, <1>19, <1>20, <1>21, <1>22, <1>23, <1>24,
     <1>25, <1>26, <1>27, <1>28, <1>29, <1>30, <1>31, <1>32, <1>33, <1>34, <1>35, <1>36,
     <1>37, <1>38, <1>39, <1>40, <1>41, <1>42, <1>43, <1>44
     DEF Next, Writer, Main, Runner, Child

\* The control channel, command by command, before and after each way it is written.
LEMMA ChannelFacts ==
    ASSUME DataOK
    PROVE  /\ DOMAIN ctlQ = 1..Len(ctlQ) /\ Len(ctlQ) \in Nat
           /\ DOMAIN Abandoned = 1..Len(ctlQ) /\ DOMAIN <<>> = {}
           /\ \A i \in 1..Len(ctlQ) : Abandoned[i].op = ctlQ[i].op /\ ~Abandoned[i].live
           /\ \A c \in Commands :
                 /\ DOMAIN Append(ctlQ, c) = 1..(Len(ctlQ) + 1)
                 /\ Len(Append(ctlQ, c)) = Len(ctlQ) + 1
                 /\ Append(ctlQ, c)[Len(ctlQ) + 1] = c
                 /\ \A i \in 1..Len(ctlQ) : Append(ctlQ, c)[i] = ctlQ[i]
           /\ \A c \in Commands :
                 /\ DOMAIN Append(Abandoned, c) = 1..(Len(ctlQ) + 1)
                 /\ Len(Append(Abandoned, c)) = Len(ctlQ) + 1
                 /\ Append(Abandoned, c)[Len(ctlQ) + 1] = c
                 /\ \A i \in 1..Len(ctlQ) : Append(Abandoned, c)[i] = Abandoned[i]
           /\ ctlQ # <<>> => /\ 1 \in 1..Len(ctlQ) /\ Head(ctlQ) = ctlQ[1]
                             /\ DOMAIN Tail(ctlQ) = 1..(Len(ctlQ) - 1)
                             /\ Len(Tail(ctlQ)) = Len(ctlQ) - 1
                             /\ \A i \in 1..(Len(ctlQ) - 1) : Tail(ctlQ)[i] = ctlQ[i + 1]
<1>1. ctlQ \in Seq(Commands)
  BY DEF DataOK
<1>2. Abandoned \in Seq(Commands) /\ Len(Abandoned) = Len(ctlQ)
  BY <1>1, AbandonedFacts
<1>3. \A c \in Commands : Append(ctlQ, c) \in Seq(Commands) /\ Append(Abandoned, c) \in Seq(Commands)
  BY <1>1, <1>2, AppendFacts
<1>4. /\ DOMAIN ctlQ = 1..Len(ctlQ) /\ Len(ctlQ) \in Nat
      /\ DOMAIN Abandoned = 1..Len(ctlQ)
  BY <1>1, <1>2, SeqFacts
<1>5. \A i \in 1..Len(ctlQ) : Abandoned[i].op = ctlQ[i].op /\ ~Abandoned[i].live
  BY <1>1, AbandonedFacts
<1>6. \A c \in Commands :
         /\ DOMAIN Append(ctlQ, c) = 1..(Len(ctlQ) + 1)
         /\ Len(Append(ctlQ, c)) = Len(ctlQ) + 1
         /\ Append(ctlQ, c)[Len(ctlQ) + 1] = c
         /\ \A i \in 1..Len(ctlQ) : Append(ctlQ, c)[i] = ctlQ[i]
  BY <1>1, <1>3, AppendFacts, SeqFacts
<1>7. \A c \in Commands :
         /\ DOMAIN Append(Abandoned, c) = 1..(Len(ctlQ) + 1)
         /\ Len(Append(Abandoned, c)) = Len(ctlQ) + 1
         /\ Append(Abandoned, c)[Len(ctlQ) + 1] = c
         /\ \A i \in 1..Len(ctlQ) : Append(Abandoned, c)[i] = Abandoned[i]
  BY <1>2, <1>3, AppendFacts, SeqFacts
<1>8. ctlQ # <<>> => /\ 1 \in 1..Len(ctlQ) /\ Head(ctlQ) = ctlQ[1]
                     /\ DOMAIN Tail(ctlQ) = 1..(Len(ctlQ) - 1)
                     /\ Len(Tail(ctlQ)) = Len(ctlQ) - 1
                     /\ \A i \in 1..(Len(ctlQ) - 1) : Tail(ctlQ)[i] = ctlQ[i + 1]
  BY <1>1, SeqFacts
<1>9. QED
  BY <1>4, <1>5, <1>6, <1>7, <1>8

-----------------------------------------------------------------------------
(* Most steps do not concern the handoff: they change neither the gate, nor  *)
(* the channel and the replies, nor the runner's state, and the loop moves   *)
(* outside begin_handoff.                                                    *)

QuietStep ==
    /\ UNCHANGED <<gate, ctlQ, state, curLive, main, reply>>
    /\ pc' # pc => {pc, pc'} \cap {"predrain", "quiesce", "exited"} = {}
    /\ dataQ' = dataQ \/ gate \/ dataQ # <<>>

\* The steps that do concern it.
LoudStep ==
    \/ BeginHandoff \/ BeginRefused \/ BeginReplied \/ BeginFailed
    \/ Rollback \/ RollbackReplied \/ RollbackUnanswered
    \/ Duplicate \/ DuplicateReplied \/ DuplicateFailed
    \/ Release \/ DropReleased \/ ClosePane
    \/ HandleControl \/ HandleStop \/ (ApplyControls /\ pc = "predrain")
    \/ Quiesce \/ QuiesceTimesOut \/ PollFails \/ ReadEof

\* A step is one or the other.
LEMMA QuietOrLoud ==
    ASSUME [Next]_vars
    PROVE  QuietStep \/ LoudStep
<1> USE DEF QuietStep, handleVars, runnerVars, serverVars, ptyVars, histVars
<1>1. ASSUME NEW w \in Writers, Writer(w)
      PROVE  QuietStep
  BY <1>1 DEF Writer, TryWrite, AsyncWrite, Reserve, SendPermit, WakeActor, Accept, WriterTo
<1>2. ASSUME NEW size \in Sizes, NEW report \in BOOLEAN, Resize(size, report)
      PROVE  QuietStep
  BY <1>2 DEF Resize
<1>3. CASE Nudge
  BY <1>3 DEF Nudge
<1>4. CASE ControlDrained \/ HandleData \/ PreQuiesce
  BY <1>4 DEF ControlDrained, HandleData, PreQuiesce
<1>5. CASE ApplyControls /\ pc # "predrain"
  BY <1>5 DEF ApplyControls
<1>6. CASE WriteAll \/ WritePart
  BY <1>6 DEF WriteAll, WritePart
<1>7. CASE WriteBlocked \/ WriteFails \/ Flushed
  BY <1>7 DEF WriteBlocked, WriteFails, Flushed, Flushing, Resume
<1>8. CASE PollWoken \/ PollWritable \/ PollReadable \/ PollTimesOut \/ ReadNothing
  BY <1>8 DEF PollWoken, PollWritable, PollReadable, PollTimesOut, ReadNothing, GoTo
<1>9. CASE Read
  BY <1>9 DEF Read
<1>10. CASE Child
  BY <1>10 DEF Child, ChildWrites, ChildExits
<1>11. CASE UNCHANGED vars
  BY <1>11 DEF vars
<1>12. QED
  BY <1>1, <1>2, <1>3, <1>4, <1>5, <1>6, <1>7, <1>8, <1>9, <1>10, <1>11
     DEF Next, Main, Runner, LoudStep

\* Only the call the main thread is blocked on can still be answered.
LEMMA CallerStep ==
    ASSUME IndInv, [Next]_vars
    PROVE  CallerWaits'
<1>1. DataOK /\ CallerWaits
  BY DEF IndInv, TypeOK
<1>2. \A op \in Ops, live \in BOOLEAN : [op |-> op, live |-> live] \in Commands
  BY DEF Commands
<1> USE ChannelFacts DEF Ops, CallerWaits,
            handleVars, runnerVars, serverVars, ptyVars, boundVars, histVars
<1>3. CASE QuietStep
  BY <1>1, <1>3 DEF QuietStep
<1>4. CASE BeginHandoff
  BY <1>1, <1>2, <1>4 DEF BeginHandoff, Send
<1>5. CASE BeginReplied
  BY <1>1, <1>2, <1>5 DEF BeginReplied
<1>6. CASE BeginFailed
  BY <1>1, <1>2, <1>6 DEF BeginFailed, NoReply, Send, SendFails
<1>7. CASE Rollback
  BY <1>1, <1>2, <1>7 DEF Rollback, Send, SendFails
<1>8. CASE RollbackReplied
  BY <1>1, <1>2, <1>8 DEF RollbackReplied
<1>9. CASE RollbackUnanswered
  BY <1>1, <1>2, <1>9 DEF RollbackUnanswered, NoReply
<1>10. CASE Duplicate
  BY <1>1, <1>2, <1>10 DEF Duplicate, Send
<1>11. CASE DuplicateReplied
  BY <1>1, <1>2, <1>11 DEF DuplicateReplied
<1>12. CASE DuplicateFailed
  BY <1>1, <1>2, <1>12 DEF DuplicateFailed, NoReply
<1>13. CASE Release
  BY <1>1, <1>2, <1>13 DEF Release, Send, SendFails
<1>14. CASE DropReleased
  BY <1>1, <1>2, <1>14 DEF DropReleased, Shutdown, NoReply, Send, SendFails
<1>15. CASE ClosePane
  BY <1>1, <1>2, <1>15 DEF ClosePane, Shutdown, Send, SendFails
<1>16. CASE HandleControl
  BY <1>1, <1>2, <1>16 DEF HandleControl, Answer
<1>17. CASE HandleStop
  BY <1>1, <1>2, <1>17 DEF HandleStop, Answer, Exit
<1>18. CASE ApplyControls /\ pc = "predrain"
  BY <1>1, <1>2, <1>18 DEF ApplyControls
<1>19. CASE Quiesce
  BY <1>1, <1>2, <1>19 DEF Quiesce, Answer
<1>20. CASE QuiesceTimesOut
  BY <1>1, <1>2, <1>20 DEF QuiesceTimesOut, Answer
<1>21. CASE ReadEof
  BY <1>1, <1>2, <1>21 DEF ReadEof, Exit
<1>22. CASE BeginRefused
  BY <1>1, <1>2, <1>22 DEF BeginRefused
<1>23. CASE PollFails
  BY <1>1, <1>2, <1>23 DEF PollFails, Exit
<1>24. QED
  BY <1>3, <1>4, <1>5, <1>6, <1>7, <1>8, <1>9, <1>10, <1>11, <1>12, <1>13, <1>14,
     <1>15, <1>16, <1>17, <1>18, <1>19, <1>20, <1>21, <1>22,
     <1>23, QuietOrLoud DEF LoudStep

\* What an answer says stays true until the main thread has picked it up.
LEMMA ReplyStep ==
    ASSUME IndInv, [Next]_vars
    PROVE  ReplyStillTrue'
<1>1. DataOK /\ CallerWaits /\ ReplyStillTrue /\ GateFollowsMain
  BY DEF IndInv, TypeOK
<1>2. \A op \in Ops, live \in BOOLEAN : [op |-> op, live |-> live] \in Commands
  BY DEF Commands
<1> USE ChannelFacts DEF Ops, ReplyStillTrue, Parked, BeginOutstanding, CallerWaits,
            handleVars, runnerVars, serverVars, ptyVars, boundVars, histVars
<1>3. CASE QuietStep
  BY <1>1, <1>3 DEF QuietStep
<1>4. CASE BeginHandoff
  BY <1>1, <1>2, <1>4 DEF BeginHandoff, Send
<1>5. CASE BeginReplied
  BY <1>1, <1>2, <1>5 DEF BeginReplied
<1>6. CASE BeginFailed
  BY <1>1, <1>2, <1>6 DEF BeginFailed, NoReply, Send, SendFails
<1>7. CASE Rollback
  BY <1>1, <1>2, <1>7 DEF Rollback, Send, SendFails
<1>8. CASE RollbackReplied
  BY <1>1, <1>2, <1>8 DEF RollbackReplied
<1>9. CASE RollbackUnanswered
  BY <1>1, <1>2, <1>9 DEF RollbackUnanswered, NoReply
<1>10. CASE Duplicate
  BY <1>1, <1>2, <1>10 DEF Duplicate, Send
<1>11. CASE DuplicateReplied
  BY <1>1, <1>2, <1>11 DEF DuplicateReplied
<1>12. CASE DuplicateFailed
  BY <1>1, <1>2, <1>12 DEF DuplicateFailed, NoReply
<1>13. CASE Release
  BY <1>1, <1>2, <1>13 DEF Release, Send, SendFails
<1>14. CASE DropReleased
  BY <1>1, <1>2, <1>14 DEF DropReleased, Shutdown, NoReply, Send, SendFails
<1>15. CASE ClosePane
  BY <1>1, <1>2, <1>15 DEF ClosePane, Shutdown, Send, SendFails
<1>16. CASE HandleControl
  BY <1>1, <1>2, <1>16 DEF HandleControl, Answer
<1>17. CASE HandleStop
  BY <1>1, <1>2, <1>17 DEF HandleStop, Answer, Exit
<1>18. CASE ApplyControls /\ pc = "predrain"
  BY <1>1, <1>2, <1>18 DEF ApplyControls
<1>19. CASE Quiesce
  BY <1>1, <1>2, <1>19 DEF Quiesce, Answer
<1>20. CASE QuiesceTimesOut
  BY <1>1, <1>2, <1>20 DEF QuiesceTimesOut, Answer
<1>21. CASE ReadEof
  BY <1>1, <1>2, <1>21 DEF ReadEof, Exit
<1>22. CASE BeginRefused
  BY <1>1, <1>2, <1>22 DEF BeginRefused
<1>23. CASE PollFails
  BY <1>1, <1>2, <1>23 DEF PollFails, Exit
<1>24. QED
  BY <1>3, <1>4, <1>5, <1>6, <1>7, <1>8, <1>9, <1>10, <1>11, <1>12, <1>13, <1>14,
     <1>15, <1>16, <1>17, <1>18, <1>19, <1>20, <1>21, <1>22,
     <1>23, QuietOrLoud DEF LoudStep

\* The gate, the runner and the main thread agree on who may use the pane.
LEMMA GateStep ==
    ASSUME IndInv, [Next]_vars
    PROVE  GateFollowsMain'
<1>1. DataOK /\ CallerWaits /\ ReplyStillTrue /\ GateFollowsMain
  BY DEF IndInv, TypeOK
<1>2. \A op \in Ops, live \in BOOLEAN : [op |-> op, live |-> live] \in Commands
  BY DEF Commands
<1> USE ChannelFacts DEF Ops, GateFollowsMain, ReplyStillTrue, Paused, Parked, BeginOutstanding, CallerWaits,
            handleVars, runnerVars, serverVars, ptyVars, boundVars, histVars
<1>3. CASE QuietStep
  BY <1>1, <1>3 DEF QuietStep
<1>4. CASE BeginHandoff
  BY <1>1, <1>2, <1>4 DEF BeginHandoff, Send
<1>5. CASE BeginReplied
  BY <1>1, <1>2, <1>5 DEF BeginReplied
<1>6. CASE BeginFailed
  BY <1>1, <1>2, <1>6 DEF BeginFailed, NoReply, Send, SendFails
<1>7. CASE Rollback
  BY <1>1, <1>2, <1>7 DEF Rollback, Send, SendFails
<1>8. CASE RollbackReplied
  BY <1>1, <1>2, <1>8 DEF RollbackReplied
<1>9. CASE RollbackUnanswered
  BY <1>1, <1>2, <1>9 DEF RollbackUnanswered, NoReply
<1>10. CASE Duplicate
  BY <1>1, <1>2, <1>10 DEF Duplicate, Send
<1>11. CASE DuplicateReplied
  BY <1>1, <1>2, <1>11 DEF DuplicateReplied
<1>12. CASE DuplicateFailed
  BY <1>1, <1>2, <1>12 DEF DuplicateFailed, NoReply
<1>13. CASE Release
  BY <1>1, <1>2, <1>13 DEF Release, Send, SendFails
<1>14. CASE DropReleased
  BY <1>1, <1>2, <1>14 DEF DropReleased, Shutdown, NoReply, Send, SendFails
<1>15. CASE ClosePane
  BY <1>1, <1>2, <1>15 DEF ClosePane, Shutdown, Send, SendFails
<1>16. CASE HandleControl
  BY <1>1, <1>2, <1>16 DEF HandleControl, Answer
<1>17. CASE HandleStop
  BY <1>1, <1>2, <1>17 DEF HandleStop, Answer, Exit
<1>18. CASE ApplyControls /\ pc = "predrain"
  BY <1>1, <1>2, <1>18 DEF ApplyControls
<1>19. CASE Quiesce
  BY <1>1, <1>2, <1>19 DEF Quiesce, Answer
<1>20. CASE QuiesceTimesOut
  BY <1>1, <1>2, <1>20 DEF QuiesceTimesOut, Answer
<1>21. CASE ReadEof
  BY <1>1, <1>2, <1>21 DEF ReadEof, Exit
<1>22. CASE BeginRefused
  BY <1>1, <1>2, <1>22 DEF BeginRefused
<1>23. CASE PollFails
  BY <1>1, <1>2, <1>23 DEF PollFails, Exit
<1>24. QED
  BY <1>3, <1>4, <1>5, <1>6, <1>7, <1>8, <1>9, <1>10, <1>11, <1>12, <1>13, <1>14,
     <1>15, <1>16, <1>17, <1>18, <1>19, <1>20, <1>21, <1>22,
     <1>23, QuietOrLoud DEF LoudStep

\* Which steps quiesce the runner, take output and deliver input.
LEMMA WhoWrites ==
    ASSUME [Next]_vars
    PROVE  /\ state' # "Quiesced" \/ state = "Quiesced" \/ Quiesce
           /\ output' \in {output, output + 1} \/ Read
           /\ UNCHANGED delivered \/ WriteAll
  BY DEF Next, Writer, Main, Runner, Child, TryWrite, AsyncWrite, Reserve, SendPermit,
     WakeActor, Accept, WriterTo, Resize, Nudge, BeginHandoff, BeginRefused, BeginReplied, BeginFailed,
     Rollback, RollbackReplied, RollbackUnanswered, Duplicate, DuplicateReplied,
     DuplicateFailed, Release, DropReleased, ClosePane, Shutdown, HandleControl, HandleStop,
     ControlDrained, HandleData, PreQuiesce, ApplyControls, WriteAll, WritePart,
     WriteBlocked, WriteFails, Flushed, Quiesce, QuiesceTimesOut, PollWoken, PollWritable,
     PollReadable, PollTimesOut, PollFails, GoTo, Read, ReadNothing, ReadEof, ChildWrites, ChildExits,
     vars, runnerVars, ptyVars, histVars

\* Nothing becomes pending or queued for a quiesced runner, and it quiesces only when
\* nothing is.
LEMMA DryStep ==
    ASSUME IndInv, [Next]_vars
    PROVE  QuiescedIsDry'
<1>1. /\ DataOK /\ GateFollowsMain /\ QuiescedIsDry
      /\ pending \in Seq(Nat)
  BY DEF IndInv, TypeOK, DataOK
<1> USE DEF QuiescedIsDry, Response, handleVars, runnerVars, serverVars, ptyVars, boundVars,
            histVars
<1>2. CASE state # "Quiesced" /\ state' = "Quiesced"
  <2>1. Quiesce
    BY <1>2, WhoWrites
  <2>2. pending' = <<>> /\ dataQ' = <<>>
    BY <1>1, <2>1 DEF Quiesce, GateFollowsMain
  <2>3. QED
    BY <2>2
<1>3. CASE state' # "Quiesced"
  BY <1>3
<1>4. CASE state = "Quiesced" /\ state' = "Quiesced"
  <2>1. (~gate \/ pc = "exited") /\ dataQ = <<>> /\ \A i \in DOMAIN pending : pending[i] = 0
    BY <1>1, <1>4 DEF GateFollowsMain
  <2>2. /\ \/ UNCHANGED pending
           \/ pending' = <<>>
           \/ pending # <<>> /\ pending' = Tail(pending)
           \/ pending' = Append(pending, 0)
        /\ dataQ' = <<>>
    <3>1. ASSUME NEW w \in Writers, Writer(w)
          PROVE  UNCHANGED pending /\ dataQ' = <<>>
      BY <2>1, <3>1 DEF Writer, TryWrite, AsyncWrite, Reserve, SendPermit, WakeActor, Accept,
         WriterTo
    <3>2. CASE Main
      BY <2>1, <3>2 DEF Main, Resize, Nudge, BeginHandoff, BeginRefused, BeginReplied, BeginFailed,
         Rollback, RollbackReplied, RollbackUnanswered, Duplicate, DuplicateReplied,
         DuplicateFailed, Release, DropReleased, ClosePane, Shutdown
    <3>3. CASE Runner
      BY <2>1, <3>3 DEF Runner, HandleControl, HandleStop, Exit, ControlDrained, HandleData,
         PreQuiesce, ApplyControls, WriteAll, WritePart, WriteBlocked, WriteFails, Flushed,
         Quiesce, QuiesceTimesOut, PollWoken, PollWritable, PollReadable, PollTimesOut,
         PollFails, GoTo, Read, ReadNothing, ReadEof
    <3>4. CASE Child \/ UNCHANGED vars
      BY <2>1, <3>4 DEF Child, ChildWrites, ChildExits, vars
    <3>5. QED
      BY <3>1, <3>2, <3>3, <3>4 DEF Next
  <2>3. \A i \in DOMAIN pending' : pending'[i] = 0
    <3>1. CASE UNCHANGED pending \/ pending' = <<>>
      BY <2>1, <3>1
    <3>2. CASE pending # <<>> /\ pending' = Tail(pending)
      BY <1>1, <2>1, <3>2, SeqFacts
    <3>3. CASE pending' = Append(pending, 0)
      BY <1>1, <2>1, <3>3, SeqFacts, AppendFacts
    <3>4. QED
      BY <2>2, <3>1, <3>2, <3>3
  <2>4. QED
    BY <2>2, <2>3
<1>5. QED
  BY <1>2, <1>3, <1>4

-----------------------------------------------------------------------------
(* The conduit: what was accepted, on its way to the child.                  *)

\* Complete, element by element.
LEMMA CompleteMeans ==
    ASSUME NEW k \in Nat, NEW s \in [1..k -> Nat], NEW n \in Nat
    PROVE  Complete(s, n) <=> /\ \A i \in 1..k : s[i] \in 0..n
                              /\ \A m \in 1..n : \E i \in 1..k : s[i] = m
<1>1. DOMAIN s = 1..k
  OBVIOUS
<1>2. ASSUME Complete(s, n), NEW i \in 1..k PROVE s[i] \in 0..n
  <2>1. s[i] = 0 \/ s[i] \in 1..n
    BY <1>1, <1>2 DEF Complete, Response
  <2>2. QED
    BY <2>1
<1>3. ASSUME Complete(s, n), NEW m \in 1..n PROVE \E i \in 1..k : s[i] = m
  BY <1>1, <1>3 DEF Complete
<1>4. ASSUME \A i \in 1..k : s[i] \in 0..n, \A m \in 1..n : \E i \in 1..k : s[i] = m
      PROVE  Complete(s, n)
  <2>1. ASSUME NEW x \in {s[i] : i \in 1..k} \ {0} PROVE x \in 1..n
    <3>1. PICK i \in 1..k : x = s[i]
      BY <2>1
    <3>2. x \in 0..n /\ x # 0
      BY <1>4, <2>1, <3>1
    <3>3. QED
      BY <3>2
  <2>2. ASSUME NEW m \in 1..n PROVE m \in {s[i] : i \in 1..k} \ {0}
    <3>1. m # 0
      BY <2>2
    <3>2. PICK i \in 1..k : s[i] = m
      BY <1>4
    <3>3. QED
      BY <3>1, <3>2
  <2>3. QED
    BY <1>1, <2>1, <2>2 DEF Complete, Response
<1>5. QED
  BY <1>2, <1>3, <1>4

\* t is s without some of its responses: f says where the chunks of t are in s.
Thins(k, l, s, t, f) ==
    /\ k \in Nat /\ l \in Nat
    /\ s \in [1..k -> Nat] /\ t \in [1..l -> Nat] /\ f \in [1..l -> 1..k]
    /\ \A i, j \in 1..l : i < j => f[i] < f[j]
    /\ \A i \in 1..l : t[i] = s[f[i]]
    /\ \A m \in 1..k : s[m] # Response => \E i \in 1..l : f[i] = m

\* Responses may come and go between the user's writes.
LEMMA Thinned ==
    ASSUME NEW k, NEW l, NEW s, NEW t, NEW f, NEW n \in Nat, Thins(k, l, s, t, f)
    PROVE  /\ Complete(s, n) <=> Complete(t, n)
           /\ Ordered(s) <=> Ordered(t)
<1> USE DEF Thins
<1>1. DOMAIN s = 1..k /\ DOMAIN t = 1..l
  OBVIOUS
<1>2. {s[i] : i \in 1..k} \ {Response} = {t[i] : i \in 1..l} \ {Response}
  <2>1. ASSUME NEW i \in 1..k, s[i] # Response PROVE \E j \in 1..l : t[j] = s[i]
    BY <2>1
  <2>2. ASSUME NEW j \in 1..l PROVE \E i \in 1..k : s[i] = t[j]
    OBVIOUS
  <2>3. ASSUME NEW x \in {s[i] : i \in 1..k} \ {Response}
        PROVE  x \in {t[j] : j \in 1..l} \ {Response}
    <3>1. PICK i \in 1..k : x = s[i] /\ s[i] # Response
      BY <2>3
    <3>2. QED
      BY <2>1, <2>3, <3>1
  <2>4. ASSUME NEW x \in {t[j] : j \in 1..l} \ {Response}
        PROVE  x \in {s[i] : i \in 1..k} \ {Response}
    <3>1. PICK j \in 1..l : x = t[j]
      BY <2>4
    <3>2. QED
      BY <2>2, <2>4, <3>1
  <2>5. QED
    BY <2>3, <2>4
<1>3. Complete(s, n) <=> Complete(t, n)
  BY <1>1, <1>2 DEF Complete
<1>4. Ordered(s) => Ordered(t)
  <2> SUFFICES ASSUME Ordered(s), NEW i \in 1..l, NEW j \in 1..l,
                      i < j, t[i] # Response, t[j] # Response
               PROVE  t[i] < t[j]
    BY <1>1 DEF Ordered
  <2>1. f[i] \in 1..k /\ f[j] \in 1..k /\ f[i] < f[j] /\ t[i] = s[f[i]] /\ t[j] = s[f[j]]
    OBVIOUS
  <2>2. QED
    BY <1>1, <2>1 DEF Ordered
<1>5. Ordered(t) => Ordered(s)
  <2> SUFFICES ASSUME Ordered(t), NEW a \in 1..k, NEW b \in 1..k,
                      a < b, s[a] # Response, s[b] # Response
               PROVE  s[a] < s[b]
    BY <1>1 DEF Ordered
  <2>1. PICK i \in 1..l : f[i] = a
    OBVIOUS
  <2>2. PICK j \in 1..l : f[j] = b
    OBVIOUS
  <2>3. ~(j < i)
    <3>1. j < i => f[j] < f[i]
      OBVIOUS
    <3>2. QED
      BY <2>1, <2>2, <3>1
  <2>4. i < j
    BY <2>1, <2>2, <2>3
  <2>5. t[i] = s[a] /\ t[j] = s[b]
    BY <2>1, <2>2
  <2>6. QED
    BY <1>1, <2>4, <2>5 DEF Ordered
<1>6. QED
  BY <1>3, <1>4, <1>5

\* The next accepted write goes to the end.
LEMMA Extended ==
    ASSUME NEW k \in Nat, NEW s \in [1..k -> Nat], NEW t \in [1..(k + 1) -> Nat], NEW n \in Nat,
           \A i \in 1..k : t[i] = s[i], t[k + 1] = n + 1,
           Complete(s, n), Ordered(s)
    PROVE  Complete(t, n + 1) /\ Ordered(t)
<1>1. DOMAIN s = 1..k /\ DOMAIN t = 1..(k + 1)
  OBVIOUS
<1>2. \A i \in 1..(k + 1) : i # k + 1 => i \in 1..k
  OBVIOUS
<1>3. /\ \A i \in 1..k : s[i] \in 0..n
      /\ \A m \in 1..n : \E i \in 1..k : s[i] = m
  BY CompleteMeans
<1>4. \A i \in 1..(k + 1) : t[i] \in 0..(n + 1)
  <2> TAKE i \in 1..(k + 1)
  <2>1. CASE i = k + 1
    BY <2>1
  <2>2. CASE i # k + 1
    <3>1. i \in 1..k
      BY <1>2, <2>2
    <3>2. t[i] \in 0..n
      BY <1>3, <3>1
    <3>3. QED
      BY <3>2
  <2>3. QED
    BY <2>1, <2>2
<1>5. \A m \in 1..(n + 1) : \E i \in 1..(k + 1) : t[i] = m
  <2> TAKE m \in 1..(n + 1)
  <2>1. CASE m = n + 1
    <3>1. k + 1 \in 1..(k + 1)
      OBVIOUS
    <3>2. QED
      BY <2>1, <3>1
  <2>2. CASE m # n + 1
    <3>1. m \in 1..n
      BY <2>2
    <3>2. PICK i \in 1..k : s[i] = m
      BY <1>3, <3>1
    <3>3. i \in 1..(k + 1) /\ t[i] = m
      BY <3>2
    <3>4. QED
      BY <3>3
  <2>3. QED
    BY <2>1, <2>2
<1>6. Complete(t, n + 1)
  <2>1. k + 1 \in Nat /\ n + 1 \in Nat
    OBVIOUS
  <2>2. QED
    BY <1>4, <1>5, <2>1, CompleteMeans
<1>7. Ordered(t)
  <2> SUFFICES ASSUME NEW i \in 1..(k + 1), NEW j \in 1..(k + 1), i < j,
                      t[i] # Response, t[j] # Response
               PROVE  t[i] < t[j]
    BY <1>1 DEF Ordered
  <2>1. i \in 1..k
    OBVIOUS
  <2>2. t[i] = s[i] /\ s[i] \in 0..n
    BY <1>3, <2>1
  <2>3. CASE j = k + 1
    BY <2>2, <2>3
  <2>4. CASE j # k + 1
    <3>1. j \in 1..k
      BY <1>2, <2>4
    <3>2. t[j] = s[j]
      BY <3>1
    <3>3. QED
      BY <1>1, <2>1, <2>2, <3>1, <3>2 DEF Ordered
  <2>5. QED
    BY <2>3, <2>4
<1>8. QED
  BY <1>6, <1>7

\* A sequence is a function on 1..Len.
LEMMA SeqIsFunction ==
    ASSUME NEW S, NEW s \in Seq(S)
    PROVE  s \in [1..Len(s) -> S]
  OBVIOUS

\* Where the conduit's chunks are.
Pipe(d, p, q) == d \o p \o q

LEMMA ConduitFacts ==
    ASSUME NEW d \in Seq(Nat), NEW p \in Seq(Nat), NEW q \in Seq(Nat)
    PROVE  /\ Pipe(d, p, q) \in [1..(Len(d) + Len(p) + Len(q)) -> Nat]
           /\ \A i \in 1..(Len(d) + Len(p) + Len(q)) :
                 Pipe(d, p, q)[i] = IF i <= Len(d) THEN d[i]
                                    ELSE IF i <= Len(d) + Len(p) THEN p[i - Len(d)]
                                    ELSE q[i - Len(d) - Len(p)]
<1>1. /\ d \o p \in Seq(Nat) /\ Len(d \o p) = Len(d) + Len(p)
      /\ \A i \in 1..Len(d) : (d \o p)[i] = d[i]
      /\ \A i \in 1..Len(p) : (d \o p)[Len(d) + i] = p[i]
  OBVIOUS
<1> DEFINE c == d \o p
<1>2. /\ c \o q \in Seq(Nat) /\ Len(c \o q) = Len(c) + Len(q)
      /\ \A i \in 1..Len(c) : (c \o q)[i] = c[i]
      /\ \A i \in 1..Len(q) : (c \o q)[Len(c) + i] = q[i]
  BY <1>1
<1> HIDE DEF c
<1>3. c \o q \in [1..(Len(c) + Len(q)) -> Nat]
  <2> DEFINE e == c \o q
  <2>1. e \in Seq(Nat) /\ Len(e) = Len(c) + Len(q)
    BY <1>2
  <2> HIDE DEF e
  <2>2. e \in [1..Len(e) -> Nat]
    BY <2>1, SeqIsFunction
  <2>3. e \in [1..(Len(c) + Len(q)) -> Nat]
    BY <2>1, <2>2
  <2>4. QED
    BY <2>3 DEF e
<1>4. Len(c) = Len(d) + Len(p)
  BY <1>1 DEF c
<1>5. /\ \A i \in 1..Len(d) : c[i] = d[i]
      /\ \A i \in 1..Len(p) : c[Len(d) + i] = p[i]
  BY <1>1 DEF c
<1> DEFINE e == c \o q
<1>6. /\ \A i \in 1..Len(c) : e[i] = c[i]
      /\ \A i \in 1..Len(q) : e[Len(c) + i] = q[i]
  BY <1>2
<1>7. Len(d) \in Nat /\ Len(p) \in Nat /\ Len(q) \in Nat
  OBVIOUS
<1> HIDE DEF e
<1>8. ASSUME NEW i \in 1..(Len(d) + Len(p) + Len(q))
      PROVE  e[i] = IF i <= Len(d) THEN d[i]
                    ELSE IF i <= Len(d) + Len(p) THEN p[i - Len(d)]
                    ELSE q[i - Len(d) - Len(p)]
  <2>1. CASE i <= Len(d)
    <3>1. i \in 1..Len(d) /\ i \in 1..Len(c)
      BY <1>4, <1>7, <2>1
    <3>2. QED
      BY <1>5, <1>6, <2>1, <3>1
  <2>2. CASE i > Len(d) /\ i <= Len(d) + Len(p)
    <3>1. i - Len(d) \in 1..Len(p) /\ i \in 1..Len(c) /\ i = Len(d) + (i - Len(d))
          /\ ~(i <= Len(d))
      BY <1>4, <1>7, <2>2
    <3>2. c[i] = p[i - Len(d)]
      BY <1>5, <3>1
    <3>3. QED
      BY <1>6, <2>2, <3>1, <3>2
  <2>3. CASE i > Len(d) + Len(p)
    <3>1. /\ i - Len(d) - Len(p) \in 1..Len(q) /\ i = Len(c) + (i - Len(d) - Len(p))
          /\ ~(i <= Len(d)) /\ ~(i <= Len(d) + Len(p))
      BY <1>4, <1>7, <2>3
    <3>2. QED
      BY <1>6, <3>1
  <2>4. QED
    BY <1>7, <2>1, <2>2, <2>3
<1>9. QED
  BY <1>3, <1>4, <1>8 DEF Pipe, c, e

LEMMA SameFunction ==
    ASSUME NEW k \in Nat, NEW f \in [1..k -> Nat], NEW g \in [1..k -> Nat],
           \A i \in 1..k : f[i] = g[i]
    PROVE  f = g
  OBVIOUS

\* An accepted write goes to the end.
LEMMA AcceptedLast ==
    ASSUME NEW d \in Seq(Nat), NEW p \in Seq(Nat), NEW q \in Seq(Nat), NEW n \in Nat,
           Complete(Pipe(d, p, q), n), Ordered(Pipe(d, p, q))
    PROVE  /\ Complete(Pipe(d, p, Append(q, n + 1)), n + 1)
           /\ Ordered(Pipe(d, p, Append(q, n + 1)))
<1> DEFINE r == Append(q, n + 1)
           s == Pipe(d, p, q)
           t == Pipe(d, p, r)
           k == Len(d) + Len(p) + Len(q)
<1>1. /\ r \in Seq(Nat) /\ Len(r) = Len(q) + 1 /\ r[Len(q) + 1] = n + 1
      /\ \A i \in 1..Len(q) : r[i] = q[i]
  BY AppendFacts
<1>2. Len(d) \in Nat /\ Len(p) \in Nat /\ Len(q) \in Nat /\ k \in Nat
  BY SeqFacts
<1> HIDE DEF r
<1>3. /\ s \in [1..k -> Nat]
      /\ \A i \in 1..k : s[i] = IF i <= Len(d) THEN d[i]
                                ELSE IF i <= Len(d) + Len(p) THEN p[i - Len(d)]
                                ELSE q[i - Len(d) - Len(p)]
  BY ConduitFacts
<1>4. /\ t \in [1..(Len(d) + Len(p) + Len(r)) -> Nat]
      /\ \A i \in 1..(Len(d) + Len(p) + Len(r)) :
             t[i] = IF i <= Len(d) THEN d[i]
                    ELSE IF i <= Len(d) + Len(p) THEN p[i - Len(d)]
                    ELSE r[i - Len(d) - Len(p)]
  BY <1>1, ConduitFacts
<1>5. Complete(s, n) /\ Ordered(s)
  OBVIOUS
<1>6. Len(d) + Len(p) + Len(r) = k + 1
  BY <1>1, <1>2
<1> HIDE DEF s, t
<1>7. t \in [1..(k + 1) -> Nat]
  BY <1>4, <1>6
<1>8. ASSUME NEW i \in 1..k PROVE t[i] = s[i]
  <2>1. i \in 1..(Len(d) + Len(p) + Len(r))
    BY <1>2, <1>6
  <2>2. ~(i <= Len(d) + Len(p)) => i - Len(d) - Len(p) \in 1..Len(q)
    BY <1>2
  <2>3. QED
    BY <1>1, <1>3, <1>4, <2>1, <2>2
<1>9. t[k + 1] = n + 1
  <2>1. k + 1 \in 1..(Len(d) + Len(p) + Len(r))
    BY <1>2, <1>6
  <2>2. /\ ~(k + 1 <= Len(d)) /\ ~(k + 1 <= Len(d) + Len(p))
        /\ k + 1 - Len(d) - Len(p) = Len(q) + 1
    BY <1>2
  <2>3. QED
    BY <1>1, <1>4, <2>1, <2>2
<1> HIDE DEF k
<1>10. Complete(t, n + 1) /\ Ordered(t)
  BY <1>2, <1>3, <1>5, <1>7, <1>8, <1>9, Extended
<1> QED
  BY <1>10 DEF t, r

\* A place in the first of three parts, in the second, right behind it or later.
LEMMA FourPlaces ==
    ASSUME NEW i \in Nat, NEW a \in Nat, NEW b \in Nat
    PROVE  \/ i <= a
           \/ i > a /\ i <= a + b
           \/ i = a + b + 1
           \/ i > a + b + 1
OBVIOUS

\* What is taken from the queue is where it was.
LEMMA TakenInPlace ==
    ASSUME NEW d \in Seq(Nat), NEW p \in Seq(Nat), NEW q \in Seq(Nat), q # <<>>
    PROVE  Pipe(d, Append(p, Head(q)), Tail(q)) = Pipe(d, p, q)
<1> DEFINE u == Append(p, Head(q))
           r == Tail(q)
           s == Pipe(d, p, q)
           t == Pipe(d, u, r)
           k == Len(d) + Len(p) + Len(q)
<1>1. /\ u \in Seq(Nat) /\ Len(u) = Len(p) + 1 /\ u[Len(p) + 1] = q[1]
      /\ \A i \in 1..Len(p) : u[i] = p[i]
      /\ r \in Seq(Nat) /\ Len(r) = Len(q) - 1 /\ Len(q) > 0
      /\ \A i \in 1..(Len(q) - 1) : r[i] = q[i + 1]
  BY SeqFacts, AppendFacts
<1>2. Len(d) \in Nat /\ Len(p) \in Nat /\ Len(q) \in Nat /\ k \in Nat
  BY SeqFacts
<1> HIDE DEF u, r
<1>3. u \in Seq(Nat) /\ r \in Seq(Nat)
  BY <1>1
<1>4. /\ s \in [1..k -> Nat]
      /\ \A i \in 1..k : s[i] = IF i <= Len(d) THEN d[i]
                                ELSE IF i <= Len(d) + Len(p) THEN p[i - Len(d)]
                                ELSE q[i - Len(d) - Len(p)]
  BY ConduitFacts
<1>5. /\ t \in [1..(Len(d) + Len(u) + Len(r)) -> Nat]
      /\ \A i \in 1..(Len(d) + Len(u) + Len(r)) :
             t[i] = IF i <= Len(d) THEN d[i]
                    ELSE IF i <= Len(d) + Len(u) THEN u[i - Len(d)]
                    ELSE r[i - Len(d) - Len(u)]
  BY <1>3, ConduitFacts
<1>6. Len(d) + Len(u) + Len(r) = k
  BY <1>1, <1>2
<1> HIDE DEF s, t
<1>7. t \in [1..k -> Nat]
  BY <1>5, <1>6
<1>8. ASSUME NEW i \in 1..k PROVE t[i] = s[i]
  <2>1. t[i] = IF i <= Len(d) THEN d[i]
               ELSE IF i <= Len(d) + Len(u) THEN u[i - Len(d)] ELSE r[i - Len(d) - Len(u)]
    BY <1>5, <1>6
  <2>2. s[i] = IF i <= Len(d) THEN d[i]
               ELSE IF i <= Len(d) + Len(p) THEN p[i - Len(d)] ELSE q[i - Len(d) - Len(p)]
    BY <1>4
  <2>3. CASE i <= Len(d)
    BY <2>1, <2>2, <2>3
  <2>4. CASE i > Len(d) /\ i <= Len(d) + Len(p)
    <3>1. i - Len(d) \in 1..Len(p) /\ ~(i <= Len(d)) /\ i <= Len(d) + Len(u)
      BY <1>1, <1>2, <2>4
    <3>2. u[i - Len(d)] = p[i - Len(d)]
      BY <1>1, <3>1
    <3>3. QED
      BY <2>1, <2>2, <2>4, <3>1, <3>2, Zenon
  <2>5. CASE i = Len(d) + Len(p) + 1
    <3>1. /\ i - Len(d) = Len(p) + 1 /\ ~(i <= Len(d)) /\ i <= Len(d) + Len(u)
          /\ ~(i <= Len(d) + Len(p)) /\ i - Len(d) - Len(p) = 1
      BY <1>1, <1>2, <2>5
    <3>2. u[Len(p) + 1] = q[1]
      BY <1>1
    <3>3. QED
      BY <2>1, <2>2, <3>1, <3>2, Zenon
  <2>6. CASE i > Len(d) + Len(p) + 1
    <3>1. /\ ~(i <= Len(d)) /\ ~(i <= Len(d) + Len(u)) /\ ~(i <= Len(d) + Len(p))
          /\ i - Len(d) - Len(u) \in 1..(Len(q) - 1)
          /\ i - Len(d) - Len(p) = (i - Len(d) - Len(u)) + 1
      BY <1>1, <1>2, <2>6
    <3>2. r[i - Len(d) - Len(u)] = q[(i - Len(d) - Len(u)) + 1]
      BY <1>1, <3>1
    <3>3. QED
      BY <2>1, <2>2, <3>1, <3>2, Zenon
  <2>7. \/ i <= Len(d)
        \/ i > Len(d) /\ i <= Len(d) + Len(p)
        \/ i = Len(d) + Len(p) + 1
        \/ i > Len(d) + Len(p) + 1
    <3>1. i \in Nat
      BY <1>2
    <3> QED
      BY <1>2, <3>1, FourPlaces
  <2>8. QED
    BY <2>3, <2>4, <2>5, <2>6, <2>7, Zenon
<1> HIDE DEF k
<1>9. t = s
  BY <1>2, <1>4, <1>7, <1>8, SameFunction, Zenon
<1> QED
  BY <1>9 DEF s, t, u, r

\* So is what is delivered.
LEMMA DeliveredInPlace ==
    ASSUME NEW d \in Seq(Nat), NEW p \in Seq(Nat), NEW q \in Seq(Nat), p # <<>>
    PROVE  Pipe(Append(d, Head(p)), Tail(p), q) = Pipe(d, p, q)
<1>1. <<>> \in Seq(Nat) /\ Append(d, Head(p)) \in Seq(Nat)
  BY SeqFacts, AppendFacts
<1>2. Pipe(<<>>, Append(d, Head(p)), Tail(p)) = Pipe(<<>>, d, p)
  BY <1>1, TakenInPlace
<1>3. <<>> \o Append(d, Head(p)) = Append(d, Head(p)) /\ <<>> \o d = d
  BY <1>1
<1> QED
  BY <1>2, <1>3 DEF Pipe

\* t is s with g responses after the first c chunks.
Between(k, g, c, s, t) ==
    /\ k \in Nat /\ g \in Nat /\ c \in 0..k
    /\ s \in [1..k -> Nat] /\ t \in [1..(k + g) -> Nat]
    /\ \A i \in 1..k : t[IF i <= c THEN i ELSE i + g] = s[i]
    /\ \A i \in (c + 1)..(c + g) : t[i] = Response

\* Responses between the user's writes change nothing.
LEMMA ResponsesBetween ==
    ASSUME NEW k, NEW g, NEW c, NEW s, NEW t, NEW n \in Nat, Between(k, g, c, s, t)
    PROVE  /\ Complete(s, n) <=> Complete(t, n)
           /\ Ordered(s) <=> Ordered(t)
<1> USE DEF Between
<1> DEFINE f == [i \in 1..k |-> IF i <= c THEN i ELSE i + g]
<1>1. f \in [1..k -> 1..(k + g)]
  OBVIOUS
<1>2. \A i \in 1..k : s[i] = t[f[i]]
  OBVIOUS
<1>3. \A i, j \in 1..k : i < j => f[i] < f[j]
  OBVIOUS
<1>4. ASSUME NEW m \in 1..(k + g), t[m] # Response
      PROVE  \E i \in 1..k : f[i] = m
  <2>1. m <= c \/ m > c + g
    BY <1>4
  <2>2. CASE m <= c
    <3>1. m \in 1..k /\ f[m] = m
      BY <2>2
    <3>2. QED
      BY <3>1
  <2>3. CASE m > c + g
    <3>1. m - g \in 1..k /\ ~(m - g <= c) /\ (m - g) + g = m
      BY <2>3
    <3>2. f[m - g] = m
      BY <3>1
    <3>3. QED
      BY <3>1, <3>2
  <2>4. QED
    BY <2>1, <2>2, <2>3
<1> DEFINE l == k + g
<1>5. /\ l \in Nat /\ t \in [1..l -> Nat] /\ f \in [1..k -> 1..l]
      /\ k \in Nat /\ s \in [1..k -> Nat]
  BY <1>1
<1>6. \A m \in 1..l : t[m] # Response => \E i \in 1..k : f[i] = m
  BY <1>4
<1> HIDE DEF f, l, Between
<1>7. Thins(l, k, t, s, f)
  BY <1>2, <1>3, <1>5, <1>6, Zenon DEF Thins
<1>8. QED
  BY <1>7, Thinned

\* A response that joins the pending writes.
LEMMA RespondedBetween ==
    ASSUME NEW d \in Seq(Nat), NEW p \in Seq(Nat), NEW q \in Seq(Nat), NEW n \in Nat
    PROVE  /\ Complete(Pipe(d, p, q), n) <=> Complete(Pipe(d, Append(p, Response), q), n)
           /\ Ordered(Pipe(d, p, q)) <=> Ordered(Pipe(d, Append(p, Response), q))
<1> DEFINE u == Append(p, Response)
           s == Pipe(d, p, q)
           t == Pipe(d, u, q)
           c == Len(d) + Len(p)
           k == Len(d) + Len(p) + Len(q)
<1>1. /\ u \in Seq(Nat) /\ Len(u) = Len(p) + 1 /\ u[Len(p) + 1] = Response
      /\ \A i \in 1..Len(p) : u[i] = p[i]
  BY AppendFacts DEF Response
<1>2. Len(d) \in Nat /\ Len(p) \in Nat /\ Len(q) \in Nat
  BY SeqFacts
<1> HIDE DEF u
<1>3. /\ s \in [1..k -> Nat]
      /\ \A i \in 1..k : s[i] = IF i <= Len(d) THEN d[i]
                                ELSE IF i <= Len(d) + Len(p) THEN p[i - Len(d)]
                                ELSE q[i - Len(d) - Len(p)]
  BY ConduitFacts
<1>4. /\ t \in [1..(Len(d) + Len(u) + Len(q)) -> Nat]
      /\ \A i \in 1..(Len(d) + Len(u) + Len(q)) :
             t[i] = IF i <= Len(d) THEN d[i]
                    ELSE IF i <= Len(d) + Len(u) THEN u[i - Len(d)]
                    ELSE q[i - Len(d) - Len(u)]
  <2>1. u \in Seq(Nat)
    BY <1>1
  <2>2. QED
    BY <2>1, ConduitFacts
<1> HIDE DEF s, t
<1>5. Len(d) + Len(u) + Len(q) = k + 1 /\ k \in Nat /\ c \in 0..k /\ 1 \in Nat
  BY <1>1, <1>2
<1>6. ASSUME NEW i \in 1..k
      PROVE  t[IF i <= c THEN i ELSE i + 1] = s[i]
  <2>1. CASE i <= Len(d)
    <3>1. i <= c /\ i \in 1..(k + 1)
      BY <1>2, <2>1
    <3>2. t[i] = d[i] /\ s[i] = d[i]
      BY <1>3, <1>4, <1>5, <2>1, <3>1
    <3>3. QED
      BY <3>1, <3>2
  <2>2. CASE i > Len(d) /\ i <= c
    <3>1. /\ ~(i <= Len(d)) /\ i <= Len(d) + Len(u) /\ i \in 1..(k + 1)
          /\ i - Len(d) \in 1..Len(p)
      BY <1>1, <1>2, <2>2
    <3>2. t[i] = u[i - Len(d)] /\ s[i] = p[i - Len(d)]
      BY <1>3, <1>4, <1>5, <2>2, <3>1
    <3>3. QED
      BY <1>1, <2>2, <3>1, <3>2
  <2>3. CASE i > c
    <3>1. /\ ~(i <= Len(d)) /\ ~(i <= c) /\ i + 1 \in 1..(k + 1)
          /\ ~(i + 1 <= Len(d)) /\ ~(i + 1 <= Len(d) + Len(u))
          /\ i + 1 - Len(d) - Len(u) = i - Len(d) - Len(p)
      BY <1>1, <1>2, <2>3
    <3>2. s[i] = q[i - Len(d) - Len(p)]
      BY <1>3, <3>1
    <3>3. t[i + 1] = q[i + 1 - Len(d) - Len(u)]
      BY <1>4, <1>5, <3>1
    <3>4. QED
      BY <3>1, <3>2, <3>3
  <2>4. QED
    BY <1>2, <2>1, <2>2, <2>3
<1>7. ASSUME NEW i \in (c + 1)..(c + 1)
      PROVE  t[i] = Response
  <2>1. /\ ~(i <= Len(d)) /\ i <= Len(d) + Len(u) /\ i - Len(d) = Len(p) + 1
        /\ i \in 1..(k + 1)
    BY <1>1, <1>2
  <2>2. t[i] = u[i - Len(d)]
    BY <1>4, <1>5, <2>1
  <2>3. QED
    BY <1>1, <2>1, <2>2
<1>8. t \in [1..(k + 1) -> Nat]
  BY <1>4, <1>5
<1> HIDE DEF k, c
<1>9. Between(k, 1, c, s, t)
  BY <1>3, <1>5, <1>6, <1>7, <1>8, Zenon DEF Between
<1>10. /\ Complete(s, n) <=> Complete(t, n)
       /\ Ordered(s) <=> Ordered(t)
  BY <1>9, ResponsesBetween
<1> QED
  BY <1>10 DEF s, t, u

\* r is p without its first g chunks, which are responses.
Leaves(p, r, g) ==
    /\ p \in Seq(Nat) /\ r \in Seq(Nat) /\ g \in Nat
    /\ Len(p) = Len(r) + g
    /\ \A i \in 1..Len(r) : r[i] = p[i + g]
    /\ \A i \in 1..g : p[i] = Response

\* Pending responses that leave the conduit at its front.
LEMMA LeftAtFront ==
    ASSUME NEW d \in Seq(Nat), NEW p, NEW q \in Seq(Nat), NEW n \in Nat,
           NEW r, NEW g, Leaves(p, r, g)
    PROVE  /\ Complete(Pipe(d, r, q), n) <=> Complete(Pipe(d, p, q), n)
           /\ Ordered(Pipe(d, r, q)) <=> Ordered(Pipe(d, p, q))
<1> DEFINE s == Pipe(d, r, q)
           t == Pipe(d, p, q)
           c == Len(d)
           k == Len(d) + Len(r) + Len(q)
<1> USE DEF Leaves
<1>1. Len(d) \in Nat /\ Len(r) \in Nat /\ Len(q) \in Nat
  BY SeqFacts
<1>2. /\ s \in [1..k -> Nat]
      /\ \A i \in 1..k : s[i] = IF i <= Len(d) THEN d[i]
                                ELSE IF i <= Len(d) + Len(r) THEN r[i - Len(d)]
                                ELSE q[i - Len(d) - Len(r)]
  BY ConduitFacts
<1>3. /\ t \in [1..(Len(d) + Len(p) + Len(q)) -> Nat]
      /\ \A i \in 1..(Len(d) + Len(p) + Len(q)) :
             t[i] = IF i <= Len(d) THEN d[i]
                    ELSE IF i <= Len(d) + Len(p) THEN p[i - Len(d)]
                    ELSE q[i - Len(d) - Len(p)]
  BY ConduitFacts
<1> HIDE DEF s, t
<1>4. Len(d) + Len(p) + Len(q) = k + g /\ k \in Nat /\ c \in 0..k
  BY <1>1
<1>5. ASSUME NEW i \in 1..k
      PROVE  t[IF i <= c THEN i ELSE i + g] = s[i]
  <2>1. CASE i <= c
    <3>1. i \in 1..(k + g)
      BY <1>1
    <3>2. t[i] = d[i] /\ s[i] = d[i]
      BY <1>2, <1>3, <1>4, <2>1, <3>1
    <3>3. QED
      BY <2>1, <3>2
  <2>2. CASE i > c /\ i <= Len(d) + Len(r)
    <3>1. /\ ~(i <= c) /\ ~(i <= Len(d)) /\ i - Len(d) \in 1..Len(r)
          /\ ~(i + g <= Len(d)) /\ i + g <= Len(d) + Len(p) /\ i + g \in 1..(k + g)
          /\ i + g - Len(d) = (i - Len(d)) + g
      BY <1>1, <2>2
    <3>2. s[i] = r[i - Len(d)]
      BY <1>2, <2>2, <3>1
    <3>3. t[i + g] = p[i + g - Len(d)]
      BY <1>3, <1>4, <3>1
    <3>4. r[i - Len(d)] = p[(i - Len(d)) + g]
      BY <3>1
    <3>5. QED
      BY <3>1, <3>2, <3>3, <3>4
  <2>3. CASE i > Len(d) + Len(r)
    <3>1. /\ ~(i <= c) /\ ~(i <= Len(d)) /\ ~(i <= Len(d) + Len(r))
          /\ ~(i + g <= Len(d)) /\ ~(i + g <= Len(d) + Len(p)) /\ i + g \in 1..(k + g)
          /\ i + g - Len(d) - Len(p) = i - Len(d) - Len(r)
      BY <1>1, <2>3
    <3>2. s[i] = q[i - Len(d) - Len(r)]
      BY <1>2, <3>1
    <3>3. t[i + g] = q[i + g - Len(d) - Len(p)]
      BY <1>3, <1>4, <3>1
    <3>4. QED
      BY <3>1, <3>2, <3>3
  <2>4. QED
    BY <1>1, <2>1, <2>2, <2>3
<1>6. ASSUME NEW i \in (c + 1)..(c + g)
      PROVE  t[i] = Response
  <2>1. /\ ~(i <= Len(d)) /\ i <= Len(d) + Len(p) /\ i - Len(d) \in 1..g
        /\ i \in 1..(k + g)
    BY <1>1
  <2>2. t[i] = p[i - Len(d)]
    BY <1>3, <1>4, <2>1
  <2>3. QED
    BY <2>1, <2>2
<1>7. t \in [1..(k + g) -> Nat]
  BY <1>3, <1>4
<1> HIDE DEF k, c
<1>8. Between(k, g, c, s, t)
  BY <1>2, <1>4, <1>5, <1>6, <1>7, Zenon DEF Between
<1>9. /\ Complete(s, n) <=> Complete(t, n)
      /\ Ordered(s) <=> Ordered(t)
  BY <1>8, ResponsesBetween
<1> QED
  BY <1>9 DEF s, t

\* What a step does to the conduit: nothing, or one of the moves of a chunk through it.
Accepts ==
    /\ accepted' = accepted + 1 /\ dataQ' = Append(dataQ, accepted + 1)
    /\ UNCHANGED <<pending, delivered>>
Takes ==
    /\ dataQ # <<>> /\ dataQ' = Tail(dataQ) /\ pending' = Append(pending, Head(dataQ))
    /\ UNCHANGED <<accepted, delivered>>
Responds ==
    /\ pending' = Append(pending, Response)
    /\ UNCHANGED <<accepted, dataQ, delivered>>
Delivers ==
    /\ pending # <<>> /\ pending' = Tail(pending)
    /\ delivered' = IF Head(pending) = Response THEN delivered ELSE Append(delivered, Head(pending))
    /\ UNCHANGED <<accepted, dataQ>>
Forgets ==
    /\ pending' = <<>> /\ \A i \in DOMAIN pending : pending[i] = Response
    /\ UNCHANGED <<accepted, dataQ, delivered>>

\* As long as the runner lives and no write(2) failed, there is no other way.
LEMMA ConduitStep ==
    ASSUME IndInv, [Next]_vars, pc' # "exited", ~lost'
    PROVE  /\ pc # "exited" /\ ~lost
           /\ \/ UNCHANGED <<accepted, dataQ, pending, delivered>>
              \/ Accepts \/ Takes \/ Responds \/ Delivers \/ Forgets
<1>1. /\ dataQ # <<>> => state # "Quiesced"
      /\ state = "Released" => pc = "exited"
      /\ state \in {"Running", "Quiesced", "Released"}
  BY DEF IndInv, TypeOK, DataOK, QuiescedIsDry, GateFollowsMain
<1> USE DEF Accepts, Takes, Responds, Delivers, Forgets,
            handleVars, runnerVars, serverVars, ptyVars, boundVars, histVars
<1>2. ASSUME NEW w \in Writers, Writer(w)
      PROVE  /\ pc # "exited" /\ ~lost
             /\ UNCHANGED <<accepted, dataQ, pending, delivered>> \/ Accepts
  BY <1>2 DEF Writer, TryWrite, AsyncWrite, Reserve, SendPermit, WakeActor, Accept, WriterTo
<1>3. CASE Main
  <2>1. UNCHANGED <<pc, lost, accepted, dataQ, pending, delivered>>
    BY <1>3 DEF Main, Resize, Nudge, BeginHandoff, BeginRefused, BeginReplied, BeginFailed,
       Rollback, RollbackReplied, RollbackUnanswered, Duplicate, DuplicateReplied,
       DuplicateFailed, Release, DropReleased, ClosePane, Shutdown
  <2>2. QED
    BY <2>1
<1>4. CASE Child \/ UNCHANGED vars
  BY <1>4 DEF Child, ChildWrites, ChildExits, vars
<1>5. CASE HandleControl \/ ControlDrained \/ WritePart \/ WriteBlocked \/ Flushed
            \/ Quiesce \/ QuiesceTimesOut
  <2>1. pc # "exited" /\ UNCHANGED <<lost, accepted, dataQ, pending, delivered>>
    BY <1>5 DEF HandleControl, ControlDrained, WritePart, WriteBlocked, Flushed, Flushing,
       Quiesce, QuiesceTimesOut
  <2>2. QED
    BY <2>1
<1>6. CASE PollWoken \/ PollWritable \/ PollReadable \/ PollTimesOut \/ ReadNothing
  <2>1. pc # "exited" /\ UNCHANGED <<lost, accepted, dataQ, pending, delivered>>
    BY <1>6 DEF PollWoken, PollWritable, PollReadable, PollTimesOut, ReadNothing, GoTo
  <2>2. QED
    BY <2>1
<1>7. CASE HandleData \/ PreQuiesce
  BY <1>1, <1>7 DEF HandleData, PreQuiesce
<1>8. CASE ApplyControls \/ Read
  BY <1>8 DEF ApplyControls, Read
<1>9. CASE WriteAll
  BY <1>9 DEF WriteAll, Flushing
<1>10. CASE WriteFails
  BY <1>10 DEF WriteFails, Flushing
<1>11. CASE HandleStop \/ PollFails \/ ReadEof
  BY <1>11 DEF HandleStop, PollFails, ReadEof, Exit
<1>12. QED
  BY <1>2, <1>3, <1>4, <1>5, <1>6, <1>7, <1>8, <1>9, <1>10, <1>11 DEF Next, Runner

\* The conduit as the property wants it.
Kept(conduit, n) == Complete(conduit, n) /\ Ordered(conduit)

LEMMA KeptMoves ==
    ASSUME NEW d \in Seq(Nat), NEW p \in Seq(Nat), NEW q \in Seq(Nat), NEW n \in Nat,
           Kept(Pipe(d, p, q), n)
    PROVE  /\ Kept(Pipe(d, p, Append(q, n + 1)), n + 1)
           /\ q # <<>> => Kept(Pipe(d, Append(p, Head(q)), Tail(q)), n)
           /\ Kept(Pipe(d, Append(p, Response), q), n)
           /\ p # <<>> => IF Head(p) = Response
                          THEN Kept(Pipe(d, Tail(p), q), n)
                          ELSE Kept(Pipe(Append(d, Head(p)), Tail(p), q), n)
           /\ (\A i \in DOMAIN p : p[i] = Response) => Kept(Pipe(d, <<>>, q), n)
<1>1. Complete(Pipe(d, p, q), n) /\ Ordered(Pipe(d, p, q))
  BY DEF Kept
<1>2. Kept(Pipe(d, p, Append(q, n + 1)), n + 1)
  BY <1>1, AcceptedLast DEF Kept
<1>3. q # <<>> => Kept(Pipe(d, Append(p, Head(q)), Tail(q)), n)
  BY TakenInPlace
<1>4. Kept(Pipe(d, Append(p, Response), q), n)
  BY <1>1, RespondedBetween DEF Kept
<1>5. ASSUME p # <<>>, Head(p) = Response
      PROVE  Kept(Pipe(d, Tail(p), q), n)
  <2>1. /\ Tail(p) \in Seq(Nat) /\ Len(Tail(p)) = Len(p) - 1 /\ Len(p) \in Nat
        /\ \A i \in 1..Len(Tail(p)) : Tail(p)[i] = p[i + 1]
        /\ p[1] = Response
    BY <1>5, SeqFacts
  <2>2. Len(p) = Len(Tail(p)) + 1 /\ \A i \in 1..1 : p[i] = Response
    BY <2>1
  <2>3. Leaves(p, Tail(p), 1)
    BY <2>1, <2>2 DEF Leaves
  <2>4. QED
    BY <1>1, <2>3, LeftAtFront DEF Kept
<1>6. p # <<>> => Kept(Pipe(Append(d, Head(p)), Tail(p), q), n)
  BY DeliveredInPlace
<1>7. ASSUME \A i \in DOMAIN p : p[i] = Response
      PROVE  Kept(Pipe(d, <<>>, q), n)
  <2>1. DOMAIN p = 1..Len(p) /\ Len(p) \in Nat
    BY SeqFacts
  <2> DEFINE r == <<>>
  <2>2. r \in Seq(Nat) /\ Len(r) = 0
    OBVIOUS
  <2> HIDE DEF r
  <2>3. Len(p) = Len(r) + Len(p) /\ \A i \in 1..Len(r) : r[i] = p[i + Len(p)]
    BY <2>1, <2>2
  <2>4. \A i \in 1..Len(p) : p[i] = Response
    BY <1>7, <2>1
  <2>5. Leaves(p, r, Len(p))
    BY <2>1, <2>2, <2>3, <2>4 DEF Leaves
  <2>6. Kept(Pipe(d, r, q), n)
    BY <1>1, <2>5, LeftAtFront DEF Kept
  <2>7. QED
    BY <2>6 DEF r
<1>8. QED
  BY <1>2, <1>3, <1>4, <1>5, <1>6, <1>7

\* None of these moves loses, duplicates or reorders a write.
LEMMA ConduitKeepsOrder ==
    ASSUME DataOK, Complete(Conduit, accepted), Ordered(Conduit),
           \/ UNCHANGED <<accepted, dataQ, pending, delivered>>
           \/ Accepts \/ Takes \/ Responds \/ Delivers \/ Forgets
    PROVE  Complete(Conduit', accepted') /\ Ordered(Conduit')
<1>1. /\ delivered \in Seq(Nat) /\ pending \in Seq(Nat) /\ dataQ \in Seq(Nat)
      /\ accepted \in Nat
  BY DEF DataOK
<1>2. Kept(Pipe(delivered, pending, dataQ), accepted)
  BY DEF Conduit, Pipe, Kept
<1>3. Kept(Pipe(delivered', pending', dataQ'), accepted')
  <2>1. CASE Accepts
    BY <1>1, <1>2, <2>1, KeptMoves DEF Accepts
  <2>2. CASE Takes
    BY <1>1, <1>2, <2>2, KeptMoves DEF Takes
  <2>3. CASE Responds
    BY <1>1, <1>2, <2>3, KeptMoves DEF Responds
  <2>4. CASE Delivers
    BY <1>1, <1>2, <2>4, KeptMoves DEF Delivers
  <2>5. CASE Forgets
    BY <1>1, <1>2, <2>5, KeptMoves DEF Forgets
  <2>6. CASE UNCHANGED <<accepted, dataQ, pending, delivered>>
    BY <1>2, <2>6
  <2>7. QED
    BY <2>1, <2>2, <2>3, <2>4, <2>5, <2>6
<1>4. Conduit' = Pipe(delivered', pending', dataQ')
  BY DEF Conduit, Pipe
<1>5. QED
  BY <1>3, <1>4 DEF Kept

-----------------------------------------------------------------------------
(* The inductive invariant, and what follows from it.                        *)

\* A runner that starts Running serves, one that starts quiesced is an import.
LEMMA IndInit == Init => IndInv
<1> SUFFICES ASSUME NEW quiesced \in InitiallyQuiesced, InitWith(quiesced)
             PROVE  IndInv
  BY DEF Init
<1>1. TypeOK
  <2>1. current \in Sizes /\ winSize \in Sizes /\ quiesced \in BOOLEAN
    BY ConstantsAssumption DEF InitWith
  <2>2. nudges \in Nat
    BY ConstantsAssumption DEF InitWith
  <2>3. FlagsOK
    BY <2>1, <2>2 DEF InitWith, FlagsOK
  <2>4. DataOK
    BY <2>1, <2>2 DEF InitWith, InitialState, DataOK
  <2>5. QED
    BY <2>3, <2>4 DEF TypeOK
<1>2. ctlQ = <<>> /\ dataQ = <<>> /\ pending = <<>> /\ reply = "none" /\ ~curLive
  BY DEF InitWith
<1>3. CallerWaits /\ ReplyStillTrue /\ QuiescedIsDry
  BY <1>2 DEF CallerWaits, ReplyStillTrue, QuiescedIsDry
<1>4. GateFollowsMain
  <2>1. CASE quiesced
    <3>1. ~gate /\ main = "imported" /\ state = "Quiesced" /\ pc = "control"
      BY <2>1 DEF InitWith, InitialState
    <3>2. QED
      BY <1>2, <3>1 DEF GateFollowsMain, Paused, Parked, BeginOutstanding
  <2>2. CASE ~quiesced
    BY <1>2, <2>2 DEF InitWith, InitialState, GateFollowsMain, Paused, Parked, BeginOutstanding
  <2>3. QED
    BY <2>1, <2>2
<1>5. QED
  BY <1>1, <1>3, <1>4 DEF IndInv

\* Every step preserves the invariant.
LEMMA IndStep == IndInv /\ [Next]_vars => IndInv'
<1> SUFFICES ASSUME IndInv, [Next]_vars
             PROVE  IndInv'
  OBVIOUS
<1>1. TypeOK'
  BY FlagsStep, DataStep DEF IndInv, TypeOK
<1>2. QED
  BY <1>1, CallerStep, ReplyStep, GateStep, DryStep DEF IndInv

\* The inductive invariant holds of every pane, old or imported, in every reachable state.
THEOREM Inductive == Spec => []IndInv
  BY IndInit, IndStep, PTL DEF Spec

\* The handle, the channels, the runner and the PTY keep the types of their fields.
THEOREM TypeCorrect == Spec => []TypeOK
<1>1. IndInv => TypeOK
  BY DEF IndInv
<1>2. QED
  BY <1>1, Inductive, PTL

\* While user input is accepted the runner will write it: no handoff begun earlier, whose
\* reply may have come too late, can still quiesce it.
THEOREM GateSafety == Spec => []OpenGateMeansRunning
<1>1. IndInv => OpenGateMeansRunning
  BY DEF IndInv, GateFollowsMain, OpenGateMeansRunning
<1>2. QED
  BY <1>1, Inductive, PTL

\* No user input is left in an actor whose descriptor is being handed over.
THEOREM DryWhenQuiesced == Spec => []QuiescedIsDry
<1>1. IndInv => QuiescedIsDry
  BY DEF IndInv
<1>2. QED
  BY <1>1, Inductive, PTL

\* An empty conduit holds the first 0 writes.
LEMMA NothingAccepted == Init => InputInOrder
<1> SUFFICES ASSUME Init
             PROVE  Complete(Conduit, accepted) /\ Ordered(Conduit)
  BY DEF InputInOrder
<1>1. Conduit = <<>> /\ accepted = 0
  BY DEF Init, InitWith, Conduit
<1>2. DOMAIN Conduit = {}
  BY <1>1
<1> QED
  BY <1>1, <1>2 DEF Complete, Ordered

\* User input reaches the child once and in the order of its acceptance, for every number
\* of writers and every handoff begun, timed out and rolled back, as long as the runner
\* lives and write(2) does not fail.
THEOREM InputOrder == Spec => []InputInOrder
<1>1. IndInv /\ InputInOrder /\ [Next]_vars => InputInOrder'
  <2> SUFFICES ASSUME IndInv, InputInOrder, [Next]_vars, pc' # "exited", ~lost'
               PROVE  Complete(Conduit', accepted') /\ Ordered(Conduit')
    BY DEF InputInOrder
  <2>1. /\ pc # "exited" /\ ~lost
        /\ \/ UNCHANGED <<accepted, dataQ, pending, delivered>>
           \/ Accepts \/ Takes \/ Responds \/ Delivers \/ Forgets
    BY ConduitStep
  <2>2. Complete(Conduit, accepted) /\ Ordered(Conduit)
    BY <2>1 DEF InputInOrder
  <2>3. DataOK
    BY DEF IndInv, TypeOK
  <2>4. QED
    BY <2>1, <2>2, <2>3, ConduitKeepsOrder
<1>2. QED
  BY <1>1, NothingAccepted, Inductive, PTL DEF Spec

\* A paused or released actor neither takes the pane's output nor writes input to it, so
\* the other owner of the descriptor sees the PTY undisturbed.
THEOREM PausedSilence == Spec => PausedPaneIsSilent
<1>1. IndInv /\ [Next]_vars =>
          [(main \in Paused) => output' >= output /\ delivered' = delivered]_vars
  <2> SUFFICES ASSUME IndInv, Next, main \in Paused
               PROVE  output' >= output /\ delivered' = delivered
    OBVIOUS
  <2>1. /\ pc = "exited" \/ state = "Quiesced"
        /\ state = "Quiesced" => \A i \in DOMAIN pending : pending[i] = Response
        /\ output \in Nat /\ pending \in Seq(Nat)
    BY DEF IndInv, TypeOK, DataOK, GateFollowsMain, Parked, QuiescedIsDry
  <2>2. ~Read
    BY <2>1 DEF Read
  <2>3. WriteAll => delivered' = delivered
    <3>1. SUFFICES ASSUME WriteAll
                   PROVE  delivered' = delivered
      OBVIOUS
    <3>2. state = "Quiesced" /\ pending # <<>>
      BY <2>1, <3>1 DEF WriteAll, Flushing
    <3>3. Head(pending) = Response
      BY <2>1, <3>2, SeqFacts
    <3>4. QED
      BY <3>1, <3>3 DEF WriteAll
  <2>4. QED
    BY <2>1, <2>2, <2>3, WhoWrites
<1>2. QED
  BY <1>1, Inductive, PTL DEF Spec, PausedPaneIsSilent
-----------------------------------------------------------------------------
(* The refinement of PaneContract.                                           *)

\* All chunks of s are at most n; the writes of s come before those of t; e comes after
\* those of t, and before them.
UpTo(s, n) == \A i \in DOMAIN s : s[i] <= n
Before(s, t) ==
    \A i \in DOMAIN s, j \in DOMAIN t : s[i] # Response /\ t[j] # Response => s[i] < t[j]
Follows(t, e) == \A i \in DOMAIN t : t[i] # Response /\ e # Response => t[i] < e
Leads(e, t) == \A i \in DOMAIN t : t[i] # Response /\ e # Response => e < t[i]

\* What is left of a sequence whose head is taken.
LEMMA TailKeeps ==
    ASSUME NEW s \in Seq(Nat), NEW t \in Seq(Nat), NEW n \in Nat, s # <<>>
    PROVE  /\ Head(s) \in Nat /\ Tail(s) \in Seq(Nat)
           /\ Ordered(s) => Ordered(Tail(s)) /\ Leads(Head(s), Tail(s))
           /\ UpTo(s, n) => UpTo(Tail(s), n) /\ Head(s) <= n
           /\ Before(s, t) => Before(Tail(s), t) /\ Leads(Head(s), t)
           /\ Before(t, s) => Before(t, Tail(s)) /\ Follows(t, Head(s))
<1>1. /\ DOMAIN s = 1..Len(s) /\ Len(s) \in Nat
      /\ 1 \in 1..Len(s) /\ Head(s) = s[1] /\ Head(s) \in Nat
      /\ Tail(s) \in Seq(Nat) /\ Len(Tail(s)) = Len(s) - 1
      /\ \A i \in 1..Len(Tail(s)) : Tail(s)[i] = s[i + 1]
  BY SeqFacts
<1>2. DOMAIN Tail(s) = 1..(Len(s) - 1)
  BY <1>1, SeqFacts
<1>3. \A i \in DOMAIN Tail(s) : i + 1 \in DOMAIN s /\ 1 < i + 1 /\ Tail(s)[i] = s[i + 1]
  BY <1>1, <1>2
<1>4. \A i, j \in DOMAIN Tail(s) : i < j => i + 1 < j + 1
  BY <1>2
<1>5. Ordered(s) => Ordered(Tail(s)) /\ Leads(Head(s), Tail(s))
  BY <1>1, <1>3, <1>4 DEF Ordered, Leads
<1>6. UpTo(s, n) => UpTo(Tail(s), n) /\ Head(s) <= n
  BY <1>1, <1>3 DEF UpTo
<1>7. Before(s, t) => Before(Tail(s), t) /\ Leads(Head(s), t)
  BY <1>1, <1>3 DEF Before, Leads
<1>8. Before(t, s) => Before(t, Tail(s)) /\ Follows(t, Head(s))
  BY <1>1, <1>3 DEF Before, Follows
<1> QED
  BY <1>1, <1>5, <1>6, <1>7, <1>8

\* A sequence with one more chunk.
LEMMA AppendKeeps ==
    ASSUME NEW s \in Seq(Nat), NEW t \in Seq(Nat), NEW e \in Nat, NEW n \in Nat
    PROVE  /\ Append(s, e) \in Seq(Nat)
           /\ Ordered(s) /\ Follows(s, e) => Ordered(Append(s, e))
           /\ UpTo(s, n) /\ e <= n => UpTo(Append(s, e), n)
           /\ Before(s, t) /\ Leads(e, t) => Before(Append(s, e), t)
           /\ Before(t, s) /\ Follows(t, e) => Before(t, Append(s, e))
<1> DEFINE u == Append(s, e)
<1>1. /\ u \in Seq(Nat) /\ Len(u) = Len(s) + 1 /\ u[Len(s) + 1] = e
      /\ \A i \in 1..Len(s) : u[i] = s[i]
  BY AppendFacts
<1>2. DOMAIN s = 1..Len(s) /\ Len(s) \in Nat
  BY SeqFacts
<1> HIDE DEF u
<1>3. DOMAIN u = 1..(Len(s) + 1)
  BY <1>1, SeqFacts
<1>4. \A i \in DOMAIN u : (i \in DOMAIN s /\ u[i] = s[i]) \/ (i = Len(s) + 1 /\ u[i] = e)
  BY <1>1, <1>2, <1>3
<1>5. \A i, j \in DOMAIN u : i < j => i \in DOMAIN s
  BY <1>2, <1>3
<1>6. Ordered(s) /\ Follows(s, e) => Ordered(u)
  BY <1>4, <1>5 DEF Ordered, Follows
<1>7. UpTo(s, n) /\ e <= n => UpTo(u, n)
  BY <1>4 DEF UpTo
<1>8. Before(s, t) /\ Leads(e, t) => Before(u, t)
  BY <1>4 DEF Before, Leads
<1>9. Before(t, s) /\ Follows(t, e) => Before(t, u)
  BY <1>4 DEF Before, Follows
<1> QED
  BY <1>1, <1>6, <1>7, <1>8, <1>9 DEF u

\* Delivered, pending and queued writes are in the order of acceptance, whatever was lost.
InLine(d, p, q, n) ==
    /\ Ordered(d) /\ Ordered(p) /\ Ordered(q)
    /\ UpTo(d, n) /\ UpTo(p, n) /\ UpTo(q, n)
    /\ Before(d, p) /\ Before(d, q) /\ Before(p, q)

\* Every move of a chunk keeps that order, and so does the loss of what is pending or
\* queued.
LEMMA InLineMoves ==
    ASSUME NEW d \in Seq(Nat), NEW p \in Seq(Nat), NEW q \in Seq(Nat), NEW n \in Nat,
           InLine(d, p, q, n)
    PROVE  /\ InLine(d, p, q, n + 1)
           /\ InLine(d, p, Append(q, n + 1), n + 1)
           /\ InLine(d, Append(p, Response), q, n)
           /\ InLine(d, <<>>, q, n) /\ InLine(d, p, <<>>, n) /\ InLine(d, <<>>, <<>>, n)
           /\ q # <<>> => /\ InLine(d, p, Tail(q), n)
                          /\ InLine(d, Append(p, Head(q)), Tail(q), n)
           /\ p # <<>> => /\ InLine(d, Tail(p), q, n)
                          /\ InLine(Append(d, Head(p)), Tail(p), q, n)
<1>1. \A s \in Seq(Nat) : UpTo(s, n) => UpTo(s, n + 1) /\ Follows(s, n + 1)
  <2> SUFFICES ASSUME NEW s \in Seq(Nat), UpTo(s, n)
               PROVE  UpTo(s, n + 1) /\ Follows(s, n + 1)
    OBVIOUS
  <2>1. \A i \in DOMAIN s : s[i] \in Nat
    BY SeqFacts
  <2> QED
    BY <2>1 DEF UpTo, Follows
<1>2. n + 1 \in Nat /\ n + 1 <= n + 1 /\ Response \in Nat /\ Response <= n
  BY DEF Response
<1>3. \A s \in Seq(Nat) : Follows(s, Response) /\ Leads(Response, s)
  BY DEF Follows, Leads
<1>4. /\ DOMAIN <<>> = {}
      /\ Ordered(<<>>) /\ UpTo(<<>>, n) /\ Before(d, <<>>) /\ Before(p, <<>>) /\ Before(<<>>, q)
      /\ Before(<<>>, <<>>)
  BY DEF Ordered, UpTo, Before
<1>5. InLine(d, p, q, n + 1)
  BY <1>1 DEF InLine
<1>6. InLine(d, p, Append(q, n + 1), n + 1)
  BY <1>1, <1>2, <1>5, AppendKeeps DEF InLine
<1>7. InLine(d, Append(p, Response), q, n)
  BY <1>2, <1>3, AppendKeeps DEF InLine
<1>8. InLine(d, <<>>, q, n) /\ InLine(d, p, <<>>, n) /\ InLine(d, <<>>, <<>>, n)
  BY <1>4 DEF InLine
<1>9. ASSUME q # <<>>
      PROVE  /\ InLine(d, p, Tail(q), n)
             /\ InLine(d, Append(p, Head(q)), Tail(q), n)
  <2>1. /\ Head(q) \in Nat /\ Tail(q) \in Seq(Nat) /\ Head(q) <= n
        /\ Ordered(Tail(q)) /\ Leads(Head(q), Tail(q)) /\ UpTo(Tail(q), n)
        /\ Before(d, Tail(q)) /\ Follows(d, Head(q))
        /\ Before(p, Tail(q)) /\ Follows(p, Head(q))
    BY <1>9, TailKeeps DEF InLine
  <2>2. InLine(d, p, Tail(q), n)
    BY <2>1 DEF InLine
  <2>3. /\ Ordered(Append(p, Head(q))) /\ UpTo(Append(p, Head(q)), n)
        /\ Before(d, Append(p, Head(q))) /\ Before(Append(p, Head(q)), Tail(q))
    BY <2>1, AppendKeeps DEF InLine
  <2> QED
    BY <2>1, <2>2, <2>3 DEF InLine
<1>10. ASSUME p # <<>>
       PROVE  /\ InLine(d, Tail(p), q, n)
              /\ InLine(Append(d, Head(p)), Tail(p), q, n)
  <2>1. /\ Head(p) \in Nat /\ Tail(p) \in Seq(Nat) /\ Head(p) <= n
        /\ Ordered(Tail(p)) /\ Leads(Head(p), Tail(p)) /\ UpTo(Tail(p), n)
        /\ Before(d, Tail(p)) /\ Follows(d, Head(p))
        /\ Before(Tail(p), q) /\ Leads(Head(p), q)
    BY <1>10, TailKeeps DEF InLine
  <2>2. InLine(d, Tail(p), q, n)
    BY <2>1 DEF InLine
  <2>3. /\ Ordered(Append(d, Head(p))) /\ UpTo(Append(d, Head(p)), n)
        /\ Before(Append(d, Head(p)), Tail(p)) /\ Before(Append(d, Head(p)), q)
    BY <2>1, AppendKeeps DEF InLine
  <2> QED
    BY <2>1, <2>2, <2>3 DEF InLine
<1> QED
  BY <1>5, <1>6, <1>7, <1>8, <1>9, <1>10

\* What else may happen to the chunks when the runner is gone, quiesced or fails to write.
Drops ==
    /\ \/ accepted' = accepted + 1 /\ UNCHANGED <<pending, dataQ>>
       \/ dataQ # <<>> /\ dataQ' = Tail(dataQ) /\ UNCHANGED <<accepted, pending>>
       \/ pending' = <<>> /\ UNCHANGED <<accepted, dataQ>>
       \/ dataQ' = <<>> /\ pending' \in {pending, <<>>} /\ UNCHANGED accepted
    /\ UNCHANGED delivered

\* What any step does to the conduit.
LEMMA EveryMove ==
    ASSUME [Next]_vars
    PROVE  \/ UNCHANGED <<accepted, dataQ, pending, delivered>>
           \/ Accepts \/ Takes \/ Responds \/ Delivers \/ Drops
<1> USE DEF Accepts, Takes, Responds, Delivers, Drops,
            handleVars, runnerVars, serverVars, ptyVars, boundVars, histVars
<1>1. ASSUME NEW w \in Writers, Writer(w)
      PROVE  UNCHANGED <<accepted, dataQ, pending, delivered>> \/ Accepts \/ Drops
  BY <1>1 DEF Writer, TryWrite, AsyncWrite, Reserve, SendPermit, WakeActor, Accept, WriterTo
<1>2. CASE Main
  BY <1>2 DEF Main, Resize, Nudge, BeginHandoff, BeginRefused, BeginReplied, BeginFailed,
     Rollback, RollbackReplied, RollbackUnanswered, Duplicate, DuplicateReplied,
     DuplicateFailed, Release, DropReleased, ClosePane, Shutdown
<1>3. CASE Child \/ UNCHANGED vars
  BY <1>3 DEF Child, ChildWrites, ChildExits, vars
<1>4. CASE \/ HandleControl \/ ControlDrained \/ WritePart \/ WriteBlocked \/ Flushed
           \/ Quiesce \/ QuiesceTimesOut
  BY <1>4 DEF HandleControl, ControlDrained, WritePart, WriteBlocked, Flushed,
     Quiesce, QuiesceTimesOut
<1>5. CASE PollWoken \/ PollWritable \/ PollReadable \/ PollTimesOut \/ ReadNothing
  BY <1>5 DEF PollWoken, PollWritable, PollReadable, PollTimesOut, ReadNothing, GoTo
<1>6. CASE HandleData \/ PreQuiesce
  BY <1>6 DEF HandleData, PreQuiesce
<1>7. CASE ApplyControls \/ Read
  BY <1>7 DEF ApplyControls, Read
<1>8. CASE WriteAll \/ WriteFails
  BY <1>8 DEF WriteAll, WriteFails
<1>9. CASE HandleStop \/ PollFails \/ ReadEof
  BY <1>9 DEF HandleStop, PollFails, ReadEof, Exit
<1> QED
  BY <1>1, <1>2, <1>3, <1>4, <1>5, <1>6, <1>7, <1>8, <1>9 DEF Next, Runner

\* x is delivered, pending or queued.
Somewhere(x, d, p, q) ==
    \/ \E i \in DOMAIN d : d[i] = x
    \/ \E i \in DOMAIN p : p[i] = x
    \/ \E i \in DOMAIN q : q[i] = x

\* What is in a complete conduit is in one of its parts.
LEMMA InSomePart ==
    ASSUME NEW d \in Seq(Nat), NEW p \in Seq(Nat), NEW q \in Seq(Nat), NEW n \in Nat,
           Complete(Pipe(d, p, q), n)
    PROVE  \A x \in 1..n : Somewhere(x, d, p, q)
<1> SUFFICES ASSUME NEW x \in 1..n
             PROVE  Somewhere(x, d, p, q)
  OBVIOUS
<1> DEFINE s == Pipe(d, p, q)
           k == Len(d) + Len(p) + Len(q)
<1>1. /\ Len(d) \in Nat /\ DOMAIN d = 1..Len(d)
      /\ Len(p) \in Nat /\ DOMAIN p = 1..Len(p)
      /\ Len(q) \in Nat /\ DOMAIN q = 1..Len(q)
  BY SeqFacts
<1>2. /\ s \in [1..k -> Nat]
      /\ \A i \in 1..k : s[i] = IF i <= Len(d) THEN d[i]
                                ELSE IF i <= Len(d) + Len(p) THEN p[i - Len(d)]
                                ELSE q[i - Len(d) - Len(p)]
  BY ConduitFacts
<1>3. x \in {s[i] : i \in DOMAIN s}
  BY DEF Complete
<1> HIDE DEF s
<1>4. DOMAIN s = 1..k
  BY <1>2
<1>5. PICK m \in 1..k : s[m] = x
  BY <1>3, <1>4
<1>6. \/ m <= Len(d) /\ m \in 1..Len(d)
      \/ ~(m <= Len(d)) /\ m <= Len(d) + Len(p) /\ m - Len(d) \in 1..Len(p)
      \/ ~(m <= Len(d)) /\ ~(m <= Len(d) + Len(p)) /\ m - Len(d) - Len(p) \in 1..Len(q)
  BY <1>1
<1> HIDE DEF k
<1>7. CASE m <= Len(d) /\ m \in 1..Len(d)
  BY <1>1, <1>2, <1>5, <1>7 DEF Somewhere
<1>8. CASE ~(m <= Len(d)) /\ m <= Len(d) + Len(p) /\ m - Len(d) \in 1..Len(p)
  BY <1>1, <1>2, <1>5, <1>8 DEF Somewhere
<1>9. CASE ~(m <= Len(d)) /\ ~(m <= Len(d) + Len(p)) /\ m - Len(d) - Len(p) \in 1..Len(q)
  BY <1>1, <1>2, <1>5, <1>9 DEF Somewhere
<1> QED
  BY <1>6, <1>7, <1>8, <1>9

\* Writes 1 to Len(d) have been delivered.
FirstOnes(d) == \A i \in DOMAIN d : d[i] = i

\* While none is lost the next write delivered is the first that has not been.
LEMMA NextWrite ==
    ASSUME NEW d \in Seq(Nat), NEW p \in Seq(Nat), NEW q \in Seq(Nat), NEW n \in Nat,
           Complete(Pipe(d, p, q), n), InLine(d, p, q, n), FirstOnes(d),
           p # <<>>, Head(p) # Response
    PROVE  Head(p) = Len(d) + 1
<1>1. /\ Len(d) \in Nat /\ DOMAIN d = 1..Len(d) /\ DOMAIN p = 1..Len(p)
      /\ 1 \in DOMAIN p /\ p[1] = Head(p) /\ Head(p) \in Nat /\ Head(p) > 0
  BY SeqFacts DEF Response
<1>2. Head(p) <= n
  BY <1>1 DEF InLine, UpTo
<1>3. ~(Head(p) <= Len(d))
  <2> SUFFICES ASSUME Head(p) <= Len(d)
               PROVE  FALSE
    OBVIOUS
  <2>1. Head(p) \in DOMAIN d
    BY <1>1
  <2>2. d[Head(p)] = Head(p)
    BY <2>1 DEF FirstOnes
  <2>3. d[Head(p)] < p[1]
    BY <1>1, <2>1, <2>2 DEF InLine, Before
  <2> QED
    BY <1>1, <2>2, <2>3
<1>4. \A x \in 1..n : Somewhere(x, d, p, q)
  BY InSomePart
<1>5. ~(Head(p) > Len(d) + 1)
  <2> SUFFICES ASSUME Head(p) > Len(d) + 1
               PROVE  FALSE
    OBVIOUS
  <2> DEFINE x == Len(d) + 1
  <2>1. x \in 1..n /\ x # Response /\ x \notin DOMAIN d
    BY <1>1, <1>2 DEF Response
  <2>2. x < Head(p)
    OBVIOUS
  <2> HIDE DEF x
  <2>3. ~\E i \in DOMAIN d : d[i] = x
    BY <2>1 DEF FirstOnes
  <2>4. ~\E i \in DOMAIN p : p[i] = x
    <3> SUFFICES ASSUME NEW i \in DOMAIN p, p[i] = x
                 PROVE  FALSE
      OBVIOUS
    <3>1. i = 1 \/ 1 < i
      BY <1>1
    <3>2. 1 < i => p[1] < p[i]
      BY <1>1, <2>1 DEF InLine, Ordered
    <3> QED
      BY <1>1, <2>1, <2>2, <3>1, <3>2
  <2>5. ~\E i \in DOMAIN q : q[i] = x
    <3> SUFFICES ASSUME NEW i \in DOMAIN q, q[i] = x
                 PROVE  FALSE
      OBVIOUS
    <3>1. p[1] < q[i]
      BY <1>1, <2>1 DEF InLine, Before
    <3> QED
      BY <1>1, <2>1, <2>2, <3>1
  <2> QED
    BY <1>4, <2>1, <2>3, <2>4, <2>5 DEF Somewhere
<1> QED
  BY <1>1, <1>3, <1>5

\* An empty conduit has delivered everything.
LEMMA NothingLeft ==
    ASSUME NEW d \in Seq(Nat), NEW n \in Nat,
           Complete(Pipe(d, <<>>, <<>>), n), InLine(d, <<>>, <<>>, n), FirstOnes(d)
    PROVE  Len(d) = n
<1>1. Len(d) \in Nat /\ DOMAIN d = 1..Len(d) /\ <<>> \in Seq(Nat) /\ DOMAIN <<>> = {}
  BY SeqFacts
<1>2. Len(d) <= n
  <2>1. CASE Len(d) = 0
    BY <1>1, <2>1
  <2>2. CASE Len(d) > 0
    <3>1. Len(d) \in DOMAIN d
      BY <1>1, <2>2
    <3>2. d[Len(d)] = Len(d) /\ d[Len(d)] <= n
      BY <3>1 DEF FirstOnes, InLine, UpTo
    <3> QED
      BY <3>2
  <2> QED
    BY <1>1, <2>1, <2>2
<1>3. n <= Len(d)
  <2>1. CASE n = 0
    BY <1>1, <2>1
  <2>2. CASE n > 0
    <3>1. n \in 1..n
      BY <2>2
    <3>2. Somewhere(n, d, <<>>, <<>>)
      BY <1>1, <3>1, InSomePart
    <3>3. PICK i \in DOMAIN d : d[i] = n
      BY <1>1, <3>2 DEF Somewhere
    <3>4. n \in DOMAIN d
      BY <3>3 DEF FirstOnes
    <3> QED
      BY <1>1, <3>4
  <2> QED
    BY <2>1, <2>2
<1> DEFINE k == Len(d)
<1>4. k \in Nat /\ k <= n /\ n <= k
  BY <1>1, <1>2, <1>3
<1> HIDE DEF k
<1>5. k = n
  BY <1>4
<1> QED
  BY <1>5 DEF k

\* The order that also outlives a write(2) that fails, and the prefix that does not.
RouteInv ==
    /\ InLine(delivered, pending, dataQ, accepted)
    /\ ~lost => FirstOnes(delivered)

\* The conduit holds numbers.
LEMMA ChunksAreNumbers ==
    ASSUME IndInv
    PROVE  /\ delivered \in Seq(Nat) /\ pending \in Seq(Nat) /\ dataQ \in Seq(Nat)
           /\ accepted \in Nat /\ output \in Nat
  BY DEF IndInv, TypeOK, DataOK

\* A write of the user's leaves a serving runner's hands.
LEMMA DeliveredNext ==
    ASSUME IndInv, InputInOrder, RouteInv, WriteAll, Head(pending) # Response
    PROVE  /\ pc # "exited" /\ state = "Running"
           /\ Head(pending) \in 1..accepted
           /\ \A i \in DOMAIN delivered : delivered[i] < Head(pending)
           /\ ~lost => Head(pending) = Len(delivered) + 1
<1>1. pc # "exited" /\ pending # <<>>
  BY DEF WriteAll, Flushing
<1>2. /\ DOMAIN pending = 1..Len(pending) /\ 1 \in DOMAIN pending
      /\ Head(pending) = pending[1] /\ Head(pending) \in Nat
      /\ Head(pending) > 0
  BY <1>1, ChunksAreNumbers, SeqFacts DEF Response
<1>3. state = "Running"
  <2>1. state = "Quiesced" => \A i \in DOMAIN pending : pending[i] = Response
    BY DEF IndInv, QuiescedIsDry
  <2>2. state \in {"Running", "Quiesced", "Released"} /\ (state = "Released" => pc = "exited")
    BY DEF IndInv, TypeOK, DataOK, GateFollowsMain
  <2>3. state # "Quiesced"
    BY <1>2, <2>1
  <2> QED
    BY <1>1, <2>2, <2>3
<1>4. Head(pending) \in 1..accepted
  <2>1. UpTo(pending, accepted)
    BY DEF RouteInv, InLine
  <2>2. pending[1] <= accepted
    BY <1>2, <2>1 DEF UpTo
  <2> QED
    BY <1>2, <2>2, ChunksAreNumbers
<1>5. \A i \in DOMAIN delivered : delivered[i] < Head(pending)
  <2>1. \A i \in DOMAIN delivered : delivered[i] # Response
    <3>1. delivered \in Seq(Nat \ {0})
      BY DEF IndInv, TypeOK, DataOK
    <3> QED
      BY <3>1, SeqFacts DEF Response
  <2> QED
    BY <1>2, <2>1 DEF RouteInv, InLine, Before
<1>6. ~lost => Head(pending) = Len(delivered) + 1
  <2> SUFFICES ASSUME ~lost
               PROVE  Head(pending) = Len(delivered) + 1
    OBVIOUS
  <2>1. Complete(Pipe(delivered, pending, dataQ), accepted)
    BY <1>1 DEF InputInOrder, Conduit, Pipe
  <2> QED
    BY <1>1, <2>1, ChunksAreNumbers, NextWrite DEF RouteInv
<1> QED
  BY <1>1, <1>3, <1>4, <1>5, <1>6

\* Only a write(2) that fails loses input, and what is lost stays lost.
LEMMA OnlyFailuresLose ==
    ASSUME IndInv, [Next]_vars
    PROVE  lost' = lost \/ (WriteFails /\ lost')
<1> USE DEF runnerVars, ptyVars, boundVars, histVars
<1>1. ASSUME NEW w \in Writers, Writer(w)
      PROVE  lost' = lost
  BY <1>1 DEF Writer, TryWrite, AsyncWrite, Reserve, SendPermit, WakeActor, Accept, WriterTo
<1>2. CASE Main
  BY <1>2 DEF Main, Resize, Nudge, BeginHandoff, BeginRefused, BeginReplied, BeginFailed,
     Rollback, RollbackReplied, RollbackUnanswered, Duplicate, DuplicateReplied,
     DuplicateFailed, Release, DropReleased, ClosePane, Shutdown
<1>3. CASE Child \/ UNCHANGED vars
  BY <1>3 DEF Child, ChildWrites, ChildExits, vars
<1>4. CASE WriteFails
  <2>1. lost \in BOOLEAN
    BY DEF IndInv, TypeOK, FlagsOK
  <2>2. CASE \E i \in DOMAIN pending : pending[i] # Response
    BY <1>4, <2>2 DEF WriteFails
  <2>3. CASE ~\E i \in DOMAIN pending : pending[i] # Response
    BY <1>4, <2>1, <2>3 DEF WriteFails
  <2> QED
    BY <2>2, <2>3
<1>5. CASE \/ HandleControl \/ HandleStop \/ ControlDrained \/ HandleData \/ PreQuiesce
           \/ ApplyControls \/ WriteAll \/ WritePart \/ WriteBlocked \/ Flushed
  BY <1>5 DEF HandleControl, HandleStop, ControlDrained, HandleData, PreQuiesce,
     ApplyControls, WriteAll, WritePart, WriteBlocked, Flushed
<1>6. CASE \/ Quiesce \/ QuiesceTimesOut \/ PollWoken \/ PollWritable \/ PollReadable
           \/ PollTimesOut \/ PollFails \/ Read \/ ReadNothing \/ ReadEof
  BY <1>6 DEF Quiesce, QuiesceTimesOut, PollWoken, PollWritable, PollReadable, PollTimesOut,
     PollFails, GoTo, Read, ReadNothing, ReadEof
<1> QED
  BY <1>1, <1>2, <1>3, <1>4, <1>5, <1>6 DEF Next, Runner

\* Nothing is accepted at first.
LEMMA RouteInit == Init => RouteInv
<1> SUFFICES ASSUME Init
             PROVE  RouteInv
  OBVIOUS
<1>1. delivered = <<>> /\ pending = <<>> /\ dataQ = <<>>
  BY DEF Init, InitWith
<1>2. DOMAIN <<>> = {}
  OBVIOUS
<1> QED
  BY <1>1, <1>2 DEF RouteInv, InLine, Ordered, UpTo, Before, FirstOnes

\* Every step keeps both.
LEMMA RouteStep ==
    ASSUME IndInv, InputInOrder, RouteInv, [Next]_vars
    PROVE  RouteInv'
<1>1. InLine(delivered, pending, dataQ, accepted)
  BY DEF RouteInv
<1>2. InLine(delivered', pending', dataQ', accepted')
  <2>1. CASE UNCHANGED <<accepted, dataQ, pending, delivered>>
    BY <1>1, <2>1
  <2>2. CASE Accepts
    <3>1. InLine(delivered, pending, Append(dataQ, accepted + 1), accepted + 1)
      BY <1>1, ChunksAreNumbers, InLineMoves
    <3> QED
      BY <2>2, <3>1 DEF Accepts
  <2>3. CASE Takes
    BY <1>1, <2>3, ChunksAreNumbers, InLineMoves DEF Takes
  <2>4. CASE Responds
    BY <1>1, <2>4, ChunksAreNumbers, InLineMoves DEF Responds
  <2>5. CASE Delivers
    BY <1>1, <2>5, ChunksAreNumbers, InLineMoves DEF Delivers
  <2>6. CASE Drops
    BY <1>1, <2>6, ChunksAreNumbers, InLineMoves DEF Drops
  <2> QED
    BY <2>1, <2>2, <2>3, <2>4, <2>5, <2>6, EveryMove
<1>3. ASSUME ~lost'
      PROVE  FirstOnes(delivered')
  <2>1. ~lost
    BY <1>3, OnlyFailuresLose
  <2>2. FirstOnes(delivered)
    BY <2>1 DEF RouteInv
  <2>3. CASE UNCHANGED delivered
    BY <2>2, <2>3
  <2>4. CASE WriteAll /\ Head(pending) # Response
    <3>1. Head(pending) = Len(delivered) + 1 /\ delivered' = Append(delivered, Head(pending))
      BY <2>1, <2>4, DeliveredNext DEF WriteAll
    <3>2. /\ Len(delivered') = Len(delivered) + 1 /\ delivered' \in Seq(Nat)
          /\ \A i \in 1..Len(delivered) : delivered'[i] = delivered[i]
          /\ delivered'[Len(delivered) + 1] = Len(delivered) + 1
          /\ Len(delivered) \in Nat /\ DOMAIN delivered = 1..Len(delivered)
      <4>1. Len(delivered) + 1 \in Nat /\ DOMAIN delivered = 1..Len(delivered)
        BY ChunksAreNumbers, SeqFacts
      <4> QED
        BY <3>1, <4>1, ChunksAreNumbers, AppendFacts, SeqFacts
    <3>3. DOMAIN delivered' = 1..(Len(delivered) + 1)
      BY <3>2, SeqFacts
    <3> QED
      BY <2>2, <3>2, <3>3 DEF FirstOnes
  <2> QED
    BY <2>3, <2>4, WhoWrites DEF WriteAll
<1> QED
  BY <1>2, <1>3 DEF RouteInv

\* A step the contract does not see.
Unseen == UNCHANGED <<Mode, Lent, accepted, delivered, lost, output>>

\* Writers: input is accepted while the gate is open, which is while the pane is served or
\* its runner is gone.
LEMMA WriterRefines ==
    ASSUME IndInv, NEW w \in Writers, Writer(w)
    PROVE  Unseen \/ Contract!Accept
<1> USE DEF Unseen, Mode, Lent, handleVars, runnerVars, serverVars, ptyVars, boundVars, histVars
<1>1. CASE AsyncWrite(w) \/ Reserve(w) \/ WakeActor(w) \/ WriterTo(w, "idle")
  BY <1>1 DEF AsyncWrite, Reserve, WakeActor, WriterTo
<1>2. CASE gate /\ Accept(w)
  <2>1. Mode # "silent" /\ ~Lent
    BY <1>2 DEF IndInv, GateFollowsMain, Paused
  <2>2. accepted' = accepted + 1 /\ UNCHANGED <<Mode, Lent, delivered, lost, output>>
    BY <1>2 DEF Accept
  <2> QED
    BY <2>1, <2>2 DEF Contract!Accept
<1> QED
  BY <1>1, <1>2 DEF Writer, TryWrite, SendPermit

\* The main thread touches nothing but who has the pane: it takes it to be lent only when
\* the runner is quiesced or gone.
LEMMA MainRefines ==
    ASSUME IndInv, IndInv', Main
    PROVE  Unseen \/ Contract!Lend \/ Contract!TakeBack
<1>1. UNCHANGED <<state, pc, accepted, delivered, lost, output>>
  BY DEF Main, Resize, Nudge, BeginHandoff, BeginRefused, BeginReplied, BeginFailed,
     Rollback, RollbackReplied, RollbackUnanswered, Duplicate, DuplicateReplied,
     DuplicateFailed, Release, DropReleased, ClosePane, Shutdown, handleVars, runnerVars,
     serverVars, ptyVars, boundVars, histVars
<1>2. UNCHANGED <<Mode, accepted, delivered, lost, output>>
  BY <1>1 DEF Mode
<1>3. Lent' => Mode' # "serving"
  BY DEF IndInv, GateFollowsMain, Parked, Lent, Mode
<1>4. Lent \in BOOLEAN /\ Lent' \in BOOLEAN
  BY DEF Lent
<1>5. CASE Lent' = Lent
  BY <1>2, <1>5 DEF Unseen
<1>6. CASE Lent' /\ ~Lent
  BY <1>2, <1>3, <1>4, <1>6 DEF Contract!Lend
<1>7. CASE ~Lent' /\ Lent
  BY <1>2, <1>4, <1>7 DEF Contract!TakeBack
<1> QED
  BY <1>4, <1>5, <1>6, <1>7

\* The runner: it delivers, takes output, falls silent, serves again or leaves.
LEMMA RunnerRefines ==
    ASSUME IndInv, InputInOrder, RouteInv, Runner
    PROVE  Unseen \/ Contract!Next
<1>1. /\ main \in Paused => pc = "exited" \/ Parked
      /\ state \in {"Running", "Quiesced", "Released"}
      /\ state = "Released" => pc = "exited"
      /\ pc = "quiesce" => dataQ = <<>>
      /\ state = "Quiesced" => \A i \in DOMAIN pending : pending[i] = Response
      /\ lost \in BOOLEAN
  BY DEF IndInv, TypeOK, FlagsOK, DataOK, GateFollowsMain, QuiescedIsDry
<1>2. CASE HandleControl
  <2>1. /\ pc = "control" /\ pc' # "exited"
        /\ UNCHANGED <<Lent, accepted, delivered, lost, output>>
    BY <1>2 DEF HandleControl, Lent, ptyVars, histVars
  <2>2. CASE UNCHANGED state
    BY <2>1, <2>2 DEF Unseen, Mode
  <2>3. CASE state # "Quiesced"
    <3>1. state' = "Running" \/ UNCHANGED state
      BY <1>2 DEF HandleControl
    <3> QED
      BY <2>1, <2>2, <2>3, <3>1 DEF Unseen, Mode
  <2>4. CASE state = "Quiesced" /\ state' # state
    <3>1. Head(ctlQ).op = "rollback" /\ state' = "Running" /\ ctlQ # <<>>
      BY <1>2, <2>4 DEF HandleControl
    <3>2. 1 \in DOMAIN ctlQ /\ ctlQ[1].op = "rollback"
      BY <3>1, ChannelFacts DEF IndInv, TypeOK
    <3>3. ~Lent
      BY <1>1, <2>1, <3>2 DEF Parked, Lent
    <3>4. Mode = "silent" /\ Mode' = "serving"
      BY <2>1, <2>4, <3>1 DEF Mode
    <3> QED
      BY <2>1, <3>3, <3>4 DEF Contract!ServeAgain, Contract!Next
  <2> QED
    BY <2>2, <2>3, <2>4
<1>3. CASE HandleStop \/ PollFails \/ ReadEof
  <2>1. Mode' = "gone" /\ UNCHANGED <<Lent, accepted, delivered, lost, output>>
    BY <1>3 DEF HandleStop, PollFails, ReadEof, Exit, Mode, Lent, serverVars, ptyVars, histVars
  <2> QED
    BY <2>1 DEF Contract!Leave, Contract!Next
<1>4. CASE \/ ControlDrained \/ HandleData \/ PreQuiesce \/ ApplyControls \/ WritePart
           \/ WriteBlocked \/ Flushed \/ QuiesceTimesOut
  <2>1. /\ pc # "exited" /\ pc' # "exited"
        /\ UNCHANGED <<state, main, accepted, delivered, lost, output>>
    BY <1>4 DEF ControlDrained, HandleData, PreQuiesce, ApplyControls, WritePart,
       WriteBlocked, Flushed, Flushing, Resume, QuiesceTimesOut, serverVars, ptyVars, histVars
  <2> QED
    BY <2>1 DEF Unseen, Mode, Lent
<1>5. CASE PollWoken \/ PollWritable \/ PollReadable \/ PollTimesOut \/ ReadNothing
  <2>1. /\ pc # "exited" /\ pc' # "exited"
        /\ UNCHANGED <<state, main, accepted, delivered, lost, output>>
    BY <1>5 DEF PollWoken, PollWritable, PollReadable, PollTimesOut, ReadNothing, GoTo,
       serverVars, ptyVars, histVars
  <2> QED
    BY <2>1 DEF Unseen, Mode, Lent
<1>6. CASE WriteAll
  <2>1. pc # "exited" /\ UNCHANGED <<state, pc, main, accepted, lost, output>>
    BY <1>6 DEF WriteAll, Flushing, serverVars, ptyVars
  <2>2. CASE Head(pending) = Response
    BY <1>6, <2>1, <2>2 DEF WriteAll, Unseen, Mode, Lent
  <2>3. CASE Head(pending) # Response
    <3>1. delivered' = Append(delivered, Head(pending))
      BY <1>6, <2>3 DEF WriteAll
    <3>2. Mode = "serving"
      BY <1>6, <2>3, DeliveredNext DEF Mode
    <3>3. UNCHANGED <<Mode, Lent>>
      BY <2>1 DEF Mode, Lent
    <3>4. /\ Head(pending) \in 1..accepted
          /\ \A i \in DOMAIN delivered : delivered[i] < Head(pending)
          /\ lost \/ Head(pending) = Len(delivered) + 1
      BY <1>6, <2>3, DeliveredNext
    <3>5. Contract!Deliver
      BY <2>1, <3>1, <3>2, <3>3, <3>4 DEF Contract!Deliver
    <3> QED
      BY <3>5 DEF Contract!Next
  <2> QED
    BY <2>2, <2>3
<1>7. CASE WriteFails
  <2>1. /\ pc # "exited" /\ pc' # "exited"
        /\ UNCHANGED <<state, main, accepted, delivered, output>>
    BY <1>7 DEF WriteFails, Flushing, Resume, serverVars, ptyVars
  <2>2. UNCHANGED <<Mode, Lent, accepted, delivered, output>>
    BY <2>1 DEF Mode, Lent
  <2>3. CASE \A i \in DOMAIN pending : pending[i] = Response
    <3>1. lost' = lost
      BY <1>1, <1>7, <2>3 DEF WriteFails
    <3> QED
      BY <2>2, <3>1 DEF Unseen
  <2>4. CASE ~\A i \in DOMAIN pending : pending[i] = Response
    <3>1. lost' = TRUE
      BY <1>7, <2>4 DEF WriteFails
    <3>2. Mode = "serving"
      BY <1>1, <2>1, <2>4 DEF Mode
    <3> QED
      BY <2>2, <3>1, <3>2 DEF Contract!Lose, Contract!Next
  <2> QED
    BY <2>3, <2>4
<1>8. CASE Quiesce
  <2>1. /\ pc = "quiesce" /\ pc' = "control" /\ state' = "Quiesced" /\ pending = <<>>
        /\ UNCHANGED <<main, accepted, delivered, lost, output>>
    BY <1>8 DEF Quiesce, ptyVars, histVars
  <2>2. Mode' = "silent" /\ UNCHANGED <<Lent, accepted, delivered, lost, output>>
    BY <2>1 DEF Mode, Lent
  <2>3. lost \/ Len(delivered) = accepted
    <3> SUFFICES ASSUME ~lost
                 PROVE  Len(delivered) = accepted
      OBVIOUS
    <3>1. Conduit = Pipe(delivered, <<>>, <<>>)
      BY <1>1, <2>1 DEF Conduit, Pipe
    <3>2. Complete(Pipe(delivered, <<>>, <<>>), accepted)
      BY <2>1, <3>1 DEF InputInOrder
    <3>3. InLine(delivered, <<>>, <<>>, accepted) /\ FirstOnes(delivered)
      BY <1>1, <2>1 DEF RouteInv
    <3> QED
      BY <3>2, <3>3, ChunksAreNumbers, NothingLeft
  <2>4. CASE state = "Quiesced"
    BY <2>1, <2>2, <2>4 DEF Unseen, Mode
  <2>5. CASE state # "Quiesced"
    <3>1. Mode = "serving"
      BY <2>1, <2>5 DEF Mode
    <3> QED
      BY <2>2, <2>3, <3>1 DEF Contract!FallSilent, Contract!Next
  <2> QED
    BY <2>4, <2>5
<1>9. CASE Read
  <2>1. /\ pc = "read" /\ pc' = "control" /\ state = "Running" /\ output > 0
        /\ output' = output - 1 /\ UNCHANGED <<state, main, accepted, delivered, lost>>
    BY <1>9 DEF Read, serverVars
  <2>2. Mode = "serving" /\ UNCHANGED <<Mode, Lent>>
    BY <2>1 DEF Mode, Lent
  <2> QED
    BY <2>1, <2>2 DEF Contract!TakeOutput, Contract!Next
<1> QED
  BY <1>2, <1>3, <1>4, <1>5, <1>6, <1>7, <1>8, <1>9 DEF Runner

\* The child: it writes, or ends, which nobody has noticed yet.
LEMMA ChildRefines ==
    ASSUME Child
    PROVE  Unseen \/ Contract!ChildWrites
<1>1. UNCHANGED <<state, pc, main, accepted, delivered, lost>>
  BY DEF Child, ChildWrites, ChildExits, runnerVars, serverVars, histVars
<1>2. UNCHANGED <<Mode, Lent, accepted, delivered, lost>>
  BY <1>1 DEF Mode, Lent
<1>3. output' = output + 1 \/ output' = output
  BY DEF Child, ChildWrites, ChildExits
<1> QED
  BY <1>2, <1>3 DEF Unseen, Contract!ChildWrites

\* The actor implements PaneContract: whatever replies are late and whatever handoffs fail,
\* a pane is lent only when its actor is silent or gone, stays undisturbed until it is taken
\* back, and falls silent only with every accepted write delivered once and in order.
THEOREM ContractKept == Spec => ContractSpec
<1>1. Init => Contract!Init
  <2> SUFFICES ASSUME NEW quiesced \in InitiallyQuiesced, InitWith(quiesced)
               PROVE  Contract!Init
    BY DEF Init
  <2>1. quiesced \in BOOLEAN
    BY ConstantsAssumption
  <2>2. accepted = 0 /\ delivered = <<>> /\ ~lost /\ lost = FALSE /\ output = 0
    BY DEF InitWith
  <2>3. CASE quiesced
    <3>1. Mode = "silent" /\ Lent = TRUE
      BY <2>3 DEF InitWith, InitialState, Mode, Lent, Paused
    <3> QED
      BY <2>2, <3>1 DEF Contract!Init
  <2>4. CASE ~quiesced
    <3>1. Mode = "serving" /\ Lent = FALSE
      BY <2>4 DEF InitWith, InitialState, Mode, Lent, Paused
    <3> QED
      BY <2>2, <3>1 DEF Contract!Init
  <2> QED
    BY <2>1, <2>3, <2>4
<1>2. IndInv /\ IndInv' /\ InputInOrder /\ RouteInv /\ [Next]_vars =>
          [Contract!Next]_<<Mode, Lent, accepted, delivered, lost, output>>
  <2> SUFFICES ASSUME IndInv, IndInv', InputInOrder, RouteInv, [Next]_vars
               PROVE  Unseen \/ Contract!Next
    BY DEF Unseen
  <2>1. CASE UNCHANGED vars
    BY <2>1 DEF vars, Unseen, Mode, Lent, runnerVars, serverVars, ptyVars, histVars
  <2>2. ASSUME NEW w \in Writers, Writer(w)
        PROVE  Unseen \/ Contract!Next
    BY <2>2, WriterRefines DEF Contract!Next
  <2>3. CASE Main
    BY <2>3, MainRefines DEF Contract!Next
  <2>4. CASE Runner
    BY <2>4, RunnerRefines
  <2>5. CASE Child
    BY <2>5, ChildRefines DEF Contract!Next
  <2> QED
    BY <2>1, <2>2, <2>3, <2>4, <2>5 DEF Next
<1>3. IndInv /\ InputInOrder /\ RouteInv /\ [Next]_vars => RouteInv'
  BY RouteStep
<1> QED
  BY <1>1, <1>2, <1>3, RouteInit, Inductive, InputOrder, PTL
     DEF Spec, ContractSpec, Contract!Spec

-----------------------------------------------------------------------------
(* What needs every reply in time, or no redraw nudge.                       *)

\* While no recv_timeout expires, only a main thread inside the protocol, or a runner that
\* is gone, can have left the gate closed.
ServingMeansOpen == main = "serving" /\ pc # "exited" => gate

\* A pane that was rolled back takes input again when the rollback was answered in time:
\* the one way back to serving with a closed gate is a reply that is late.
THEOREM RollbackReopens ==
    ASSUME ~CallsTimeOut
    PROVE  Spec => []RolledBackPaneAcceptsInput
<1>1. Init => ServingMeansOpen
  BY DEF Init, InitWith, ServingMeansOpen
<1>2. ServingMeansOpen /\ [Next]_vars => ServingMeansOpen'
  <2> SUFFICES ASSUME ServingMeansOpen, [Next]_vars
               PROVE  ServingMeansOpen'
    OBVIOUS
  <2> USE DEF ServingMeansOpen, NoReply, SendFails, Send,
              handleVars, runnerVars, serverVars, ptyVars, histVars
  <2>1. CASE QuietStep
    BY <2>1 DEF QuietStep
  <2>2. CASE \/ BeginHandoff \/ BeginReplied \/ BeginFailed \/ Duplicate \/ DuplicateReplied
             \/ DuplicateFailed \/ Release
    BY <2>2 DEF BeginHandoff, BeginReplied, BeginFailed, Duplicate, DuplicateReplied,
       DuplicateFailed, Release
  <2>3. CASE BeginRefused \/ Rollback \/ RollbackReplied \/ RollbackUnanswered
    BY <2>3 DEF BeginRefused, Rollback, RollbackReplied, RollbackUnanswered
  <2>4. CASE DropReleased \/ ClosePane
    BY <2>4 DEF DropReleased, ClosePane, Shutdown
  <2>5. CASE HandleControl \/ (ApplyControls /\ pc = "predrain") \/ Quiesce \/ QuiesceTimesOut
    BY <2>5 DEF HandleControl, ApplyControls, Quiesce, QuiesceTimesOut
  <2>6. CASE HandleStop \/ PollFails \/ ReadEof
    BY <2>6 DEF HandleStop, PollFails, ReadEof, Exit
  <2>7. QED
    BY <2>1, <2>2, <2>3, <2>4, <2>5, <2>6, QuietOrLoud DEF LoudStep
<1>3. ServingMeansOpen => RolledBackPaneAcceptsInput
  BY DEF ServingMeansOpen, RolledBackPaneAcceptsInput
<1>4. QED
  BY <1>1, <1>2, <1>3, PTL DEF Spec

\* Only these steps ask for a size or give the window one.
LEMMA WhoSizes ==
    ASSUME [Next]_vars
    PROVE  \/ UNCHANGED <<resizeReq, nudgeReq, nudges, current, winSize>>
           \/ \E size \in Sizes, report \in BOOLEAN : Resize(size, report)
           \/ Nudge \/ ApplyControls
<1> DEFINE Still == UNCHANGED <<resizeReq, nudgeReq, nudges, current, winSize>>
<1> USE DEF handleVars, runnerVars, serverVars, ptyVars, boundVars, histVars
<1>1. ASSUME NEW w \in Writers, Writer(w)
      PROVE  Still
  BY <1>1 DEF Writer, TryWrite, AsyncWrite, Reserve, SendPermit, WakeActor, Accept, WriterTo
<1>2. CASE \/ BeginHandoff \/ BeginRefused \/ BeginReplied \/ BeginFailed \/ Rollback
           \/ RollbackReplied \/ RollbackUnanswered
  BY <1>2 DEF BeginHandoff, BeginRefused, BeginReplied, BeginFailed, Rollback,
     RollbackReplied, RollbackUnanswered
<1>3. CASE \/ Duplicate \/ DuplicateReplied \/ DuplicateFailed \/ Release \/ DropReleased
           \/ ClosePane
  BY <1>3 DEF Duplicate, DuplicateReplied, DuplicateFailed, Release, DropReleased,
     ClosePane, Shutdown
<1>4. CASE HandleControl \/ HandleStop \/ ControlDrained \/ HandleData \/ PreQuiesce
  BY <1>4 DEF HandleControl, HandleStop, ControlDrained, HandleData, PreQuiesce
<1>5. CASE WriteAll \/ WritePart \/ WriteBlocked \/ WriteFails \/ Flushed
  BY <1>5 DEF WriteAll, WritePart, WriteBlocked, WriteFails, Flushed
<1>6. CASE \/ Quiesce \/ QuiesceTimesOut \/ PollWoken \/ PollWritable \/ PollReadable
           \/ PollTimesOut \/ ReadNothing
  BY <1>6 DEF Quiesce, QuiesceTimesOut, PollWoken, PollWritable, PollReadable, PollTimesOut,
     ReadNothing, GoTo
<1>7. CASE Read \/ PollFails \/ ReadEof
  BY <1>7 DEF Read, PollFails, ReadEof
<1>8. CASE Child \/ UNCHANGED vars
  BY <1>8 DEF Child, ChildWrites, ChildExits, vars
<1> HIDE DEF Still
<1>9. CASE Still
  BY <1>9 DEF Still
<1>10. QED
  BY <1>1, <1>2, <1>3, <1>4, <1>5, <1>6, <1>7, <1>8, <1>9 DEF Next, Main, Runner

\* A request that waits is for the size of the pane; with none waiting the window has it.
SizeFollowsPane ==
    /\ nudgeReq = 0 /\ nudges = MaxNudges
    /\ resizeReq # NoResize => resizeReq.size = current
    /\ resizeReq = NoResize => winSize = current

\* Without a redraw nudge the window ends with the size of the pane, however many resizes
\* replace each other before the runner takes one.
THEOREM WindowFollowsPane ==
    ASSUME MaxNudges = 0 \/ InitiallyQuiesced = {FALSE}
    PROVE  Spec => []WindowHasPaneSize
<1>1. Init => SizeFollowsPane
  BY DEF Init, InitWith, SizeFollowsPane
<1>2. IndInv /\ SizeFollowsPane /\ [Next]_vars => SizeFollowsPane'
  <2> SUFFICES ASSUME IndInv, SizeFollowsPane, [Next]_vars
               PROVE  SizeFollowsPane'
    OBVIOUS
  <2>1. /\ resizeReq \in ResizeRequests \cup {NoResize}
        /\ Sizes \subseteq Nat \ {0} /\ nudges \in Nat
    BY ConstantsAssumption DEF IndInv, TypeOK, DataOK
  <2>2. CASE UNCHANGED <<resizeReq, nudgeReq, nudges, current, winSize>>
    BY <2>2 DEF SizeFollowsPane
  <2>3. ASSUME NEW size \in Sizes, NEW report \in BOOLEAN, Resize(size, report)
        PROVE  SizeFollowsPane'
    BY <2>1, <2>3 DEF Resize, SizeFollowsPane, NoResize
  <2>4. ~Nudge
    BY <2>1 DEF SizeFollowsPane, Nudge
  <2>5. CASE ApplyControls
    <3>1. /\ winSize' = IF resizeReq.size # 0 THEN resizeReq.size ELSE winSize
          /\ resizeReq' = NoResize /\ nudgeReq' = 0 /\ UNCHANGED <<nudges, current>>
      BY <2>5 DEF ApplyControls, WindowAfterControls, SizeFollowsPane, serverVars, histVars,
         boundVars
    <3>2. resizeReq # NoResize => resizeReq.size # 0
      BY <2>1 DEF ResizeRequests
    <3>3. NoResize.size = 0
      BY DEF NoResize
    <3>4. QED
      BY <3>1, <3>2, <3>3 DEF SizeFollowsPane
  <2>6. QED
    BY <2>2, <2>3, <2>4, <2>5, WhoSizes
<1>3. SizeFollowsPane => WindowHasPaneSize
  BY DEF SizeFollowsPane, WindowHasPaneSize
<1>4. QED
  BY <1>1, <1>2, <1>3, Inductive, PTL DEF Spec
=============================================================================
