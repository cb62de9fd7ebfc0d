---------------------------- MODULE AccountProofs ----------------------------
(***************************************************************************)
(* What holds of linking an account for any number of callers, polls and     *)
(* relay tasks.                                                            *)
(***************************************************************************)
EXTENDS Account, FiniteSetTheorems, TLAPS

Asking    == {"ask", "answered"}
Finishing == {"save", "publish", "claim", "dial"}
Undoing   == {"stop_poll", "stop_relay", "say_off", "clear", "hide", "disown"}

\* What a thread at a step is doing, and for which handle; only the owner's own command, or
\* an answer that there is no link, undoes one.
Fits(t, r) ==
    /\ r \in ThreadRecord
    /\ r.step \in Asking \union {"idle", "giveup"} => r.doing = "none"
    /\ r.step \in {"wait", "poll"} => r.doing = "upgrade"
    /\ r.step \in Finishing => r.doing = "finalize"
    /\ r.step \in {"tell", "send"} => r.doing # "none"
    /\ r.doing = "finalize" => r.handle \in Handle
    /\ r.step \in Undoing => r.doing = "unlink" /\ (t \in Client \/ r.handle = NoHandle)

Fitting == \A t \in Thread : Fits(t, task[t])

AccountInv == TypeOK /\ OneTunnel /\ OnePoll /\ Fitting

\* Nothing in hand fits every thread.
LEMMA IdleFits == \A t \in Thread : Fits(t, Idle)
BY DEF Fits, Idle, ThreadRecord, Awaits, Link, Asking, Finishing, Undoing

\* A restored link is checked: the thread that asks begins with nothing in hand.
LEMMA AskingFits == \A t \in Thread : Fits(t, [Idle EXCEPT !.step = "ask"])
BY DEF Fits, Idle, ThreadRecord, Awaits, Link, Asking, Finishing, Undoing

\* One thread goes from a record that fits to another.
LEMMA OneMoves ==
    ASSUME AccountInv, NEW t \in Thread, NEW r, Fits(t, r),
           task' = [task EXCEPT ![t] = r], UNCHANGED pollTask,
           r.step \in Asking => task[t].step \in Asking
    PROVE  task' \in [Thread -> ThreadRecord] /\ Fitting' /\ OnePoll'
<1>1. task \in [Thread -> ThreadRecord] /\ Poll \subseteq Thread
  BY DEF AccountInv, TypeOK, Thread
<1>2. \A u \in Thread : task'[u] = IF u = t THEN r ELSE task[u]
  BY <1>1
<1>3. task' \in [Thread -> ThreadRecord]
  BY <1>1 DEF Fits
<1>4. Fitting'
  <2> SUFFICES ASSUME NEW u \in Thread PROVE Fits(u, task[u])'
    BY DEF Fitting
  <2>1. Fits(u, task'[u])
    BY <1>2 DEF AccountInv, Fitting
  <2> QED BY <2>1 DEF Fits, ThreadRecord, Awaits, Link, Asking, Finishing, Undoing
<1>5. OnePoll'
  BY <1>1, <1>2 DEF AccountInv, OnePoll, Asking
<1> QED BY <1>3, <1>4, <1>5

\* What a start reads from the settings is in order.
LEMMA AccountInvInit == Init => AccountInv
<1> SUFFICES ASSUME Init PROVE AccountInv
  OBVIOUS
<1> USE AccountAssumption
<1>1. PICK h \in Restored :
        /\ setting = [k \in {"handle", "url"} |-> h]
        /\ published = h
        /\ link = IF h \in Handle THEN h ELSE "unlinked"
        /\ \E r \in Relay :
             /\ relay = [x \in Relay |-> IF x = r /\ h \in Handle THEN "waiting" ELSE "none"]
             /\ relayTask = IF h \in Handle THEN r ELSE NoTask
        /\ task = [t \in Thread |->
             IF t = Verify /\ h \in Handle THEN [Idle EXCEPT !.step = "ask"] ELSE Idle]
  BY DEF Init
<1>2. PICK r \in Relay :
        /\ relay = [x \in Relay |-> IF x = r /\ h \in Handle THEN "waiting" ELSE "none"]
        /\ relayTask = IF h \in Handle THEN r ELSE NoTask
  BY <1>1
<1>3. Fitting
  BY <1>1, IdleFits, AskingFits DEF Fitting
<1>4. task \in [Thread -> ThreadRecord]
  BY <1>1, <1>3 DEF Fitting, Fits
<1>5. OnePoll
  <2>1. \A p \in Poll : task[p] = Idle
    BY <1>1 DEF Thread
  <2> QED BY <2>1 DEF OnePoll, Idle
<1>6. OneTunnel
  BY <1>2 DEF OneTunnel
<1>7. TypeOK
  <2>1. unlinked \in BOOLEAN /\ missed \in BOOLEAN /\ inTurn \in BOOLEAN
    BY Zenon DEF Init
  <2>2. /\ link \in Link /\ told \in Link
        /\ published \in Handle \union {NoHandle}
        /\ setting \in [{"handle", "url"} -> Handle \union {NoHandle}]
    BY <1>1 DEF Init, Link
  <2>3. relayTask \in Relay \union {NoTask} /\ relay \in [Relay -> {"none", "waiting", "busy"}]
    BY <1>2
  <2> QED BY <1>4, <2>1, <2>2, <2>3 DEF TypeOK, Init
<1> QED BY <1>3, <1>5, <1>6, <1>7 DEF AccountInv

\* The steps that move one thread and leave both tasks' handles alone.
Mover(t) ==
    \/ t \in Client /\ (BeginUpgrade(t) \/ Unlink(t) \/ Wait(t))
    \/ t \in Poll /\ (Deadline(t) \/ PollHears(t) \/ GiveUp(t))
    \/ t = Verify /\ VerifyHears
    \/ CloudAnswers(t) \/ Save(t) \/ Publish(t) \/ Claim(t)
    \/ SayOff(t) \/ Clear(t) \/ Hide(t) \/ Disown(t) \/ Tell(t) \/ Send(t)

\* Where such a step takes its thread.
Moved(t) ==
    /\ Fits(t, task'[t])
    /\ task' = [task EXCEPT ![t] = task'[t]]
    /\ task'[t].step \in Asking => task[t].step \in Asking

\* Every statement of a thread leaves it with what its next step needs.
LEMMA MoversFit == ASSUME AccountInv, NEW t \in Thread, Mover(t) PROVE Moved(t)
<1> USE AccountAssumption
<1>1. task \in [Thread -> ThreadRecord] /\ cloud \in Handle \union {NoHandle} /\ link \in Link
  BY DEF AccountInv, TypeOK
<1>2. Fits(t, task[t]) /\ task[t] \in ThreadRecord
  BY <1>1 DEF AccountInv, Fitting
<1> DEFINE r == task[t]
<1> USE DEF Moved, Fits, ThreadRecord, Awaits, Link, Asking, Finishing, Undoing, At, Goto, Idle
<1>3. CASE t \in Client /\ BeginUpgrade(t)
  BY <1>1, <1>2, <1>3 DEF BeginUpgrade
<1>4. CASE t \in Client /\ Unlink(t)
  BY <1>1, <1>2, <1>4 DEF Unlink, Unlinking
<1>5. CASE t \in Client /\ Wait(t)
  BY <1>1, <1>2, <1>5 DEF Wait
<1>6. CASE t \in Poll /\ Deadline(t)
  BY <1>1, <1>2, <1>6 DEF Deadline
<1>7. CASE t \in Poll /\ PollHears(t)
  <2>1. CASE r.handle \in Handle
    <3>1. task' = [task EXCEPT ![t] = [r EXCEPT !.step = "save", !.doing = "finalize",
                                               !.key = "handle"]]
      BY <1>7, <2>1 DEF PollHears, Finalizing
    <3> QED BY <1>1, <1>2, <2>1, <3>1
  <2>2. CASE r.handle \notin Handle
    <3>1. PICK s \in {"giveup", "ask"} : task' = [task EXCEPT ![t] = [r EXCEPT !.step = s]]
      BY <1>7, <2>2 DEF PollHears
    <3>2. r.step = "answered"
      BY <1>7 DEF PollHears
    <3> QED BY <1>1, <1>2, <3>1, <3>2
  <2> QED BY <2>1, <2>2
<1>8. CASE t \in Poll /\ GiveUp(t)
  <2>1. r.step = "giveup"
    BY <1>8 DEF GiveUp
  <2>2. CASE link = "waiting"
    <3>1. task' = [task EXCEPT ![t] = [r EXCEPT !.step = "tell", !.doing = "giveup"]]
      BY <1>8, <2>2 DEF GiveUp
    <3> QED BY <1>1, <1>2, <2>1, <3>1
  <2>3. CASE link # "waiting"
    <3>1. task' = [task EXCEPT ![t] = Idle]
      BY <1>8, <2>3 DEF GiveUp
    <3> QED BY <1>1, <1>2, <3>1
  <2> QED BY <2>2, <2>3
<1>9. CASE t = Verify /\ VerifyHears
  <2>1. CASE r.handle = NoHandle
    <3>1. task' = [task EXCEPT ![t] = [r EXCEPT !.step = "stop_poll", !.doing = "unlink",
                                               !.key = "handle"]]
      <4>1. task' = [task EXCEPT ![t] = Unlinking(t)]
        BY <1>1, <1>9, <2>1 DEF VerifyHears
      <4> QED BY <4>1 DEF Unlinking
    <3> QED BY <1>1, <1>2, <2>1, <3>1
  <2>2. CASE r.handle # NoHandle /\ r.handle \in {NoAnswer, link}
    <3>1. task' = [task EXCEPT ![t] = Idle]
      BY <1>9, <2>2 DEF VerifyHears
    <3> QED BY <1>1, <1>2, <3>1
  <2>3. CASE r.handle # NoHandle /\ r.handle \notin {NoAnswer, link}
    <3>1. task' = [task EXCEPT ![t] = [r EXCEPT !.step = "save", !.doing = "finalize",
                                               !.key = "handle"]]
      BY <1>9, <2>3 DEF VerifyHears, Finalizing
    <3>2. r.handle \in Handle
      BY <1>2, <2>3
    <3> QED BY <1>1, <1>2, <3>1, <3>2
  <2> QED BY <2>1, <2>2, <2>3
<1>10. CASE CloudAnswers(t)
  <2>1. PICK a \in {cloud, NoAnswer} :
          task' = [task EXCEPT ![t] = [r EXCEPT !.step = "answered", !.handle = a]]
    BY <1>10 DEF CloudAnswers
  <2>2. r.step = "ask" /\ a \in Handle \union {NoHandle, NoAnswer}
    BY <1>1, <1>10 DEF CloudAnswers
  <2>3. r.doing = "none"
    BY <1>2, <2>2
  <2> QED BY <1>1, <1>2, <2>1, <2>2, <2>3
<1>11. CASE Save(t) \/ Clear(t)
  BY <1>1, <1>2, <1>11 DEF Save, Clear
<1>12. CASE Publish(t) \/ Claim(t) \/ SayOff(t) \/ Hide(t) \/ Disown(t)
  BY <1>1, <1>2, <1>12 DEF Publish, Claim, SayOff, Hide, Disown
<1>13. CASE Tell(t)
  BY <1>1, <1>2, <1>13 DEF Tell
<1>14. CASE Send(t)
  BY <1>1, <1>2, <1>14 DEF Send
<1> QED BY <1>3, <1>4, <1>5, <1>6, <1>7, <1>8, <1>9, <1>10, <1>11, <1>12, <1>13, <1>14 DEF Mover

\* Aborting the relay task at its await leaves none there.
LEMMA NoneWaits ==
    ASSUME TypeOK, OneTunnel
    PROVE  /\ Aborted \in [Relay -> {"none", "waiting", "busy"}]
           /\ \A r \in Relay : Aborted[r] # "waiting"
BY AccountAssumption DEF TypeOK, OneTunnel, Aborted

\* A restart keeps what the store holds, and starts from the same states as Init does.
LEMMA StartedFits ==
    ASSUME AccountInv, Restart PROVE AccountInv'
<1> USE AccountAssumption
<1>1. setting \in [{"handle", "url"} -> Handle \union {NoHandle}] /\ cloud \in Handle \union {NoHandle}
      /\ restarts \in 0 .. MaxRestarts /\ changes \in 0 .. MaxChanges
  BY DEF AccountInv, TypeOK
<1>2. /\ published' = setting["handle"]
      /\ link' = IF setting["handle"] \in Handle THEN setting["handle"] ELSE "unlinked"
      /\ told' = link' /\ pollTask' = NoTask /\ status' = "off"
      /\ restarts < MaxRestarts /\ restarts' = restarts + 1 /\ UNCHANGED <<cloud, setting, changes>>
  BY DEF Restart, Started
<1>3. task' = [t \in Thread |-> IF t = Verify /\ setting["handle"] \in Handle
                                THEN [Idle EXCEPT !.step = "ask"] ELSE Idle]
  BY DEF Restart, Started
<1>4. PICK r \in Relay :
         IF setting["url"] = NoHandle /\ setting["handle"] = NoHandle
         THEN relay' = [x \in Relay |-> "none"] /\ relayTask' = NoTask
         ELSE relay' = [x \in Relay |-> IF x = r THEN "waiting" ELSE "none"] /\ relayTask' = r
  BY DEF Restart, Started
<1>5. \A t \in Thread : Fits(t, task'[t])
  BY <1>3, IdleFits, AskingFits
<1>6. Fitting'
  <2> SUFFICES ASSUME NEW u \in Thread PROVE Fits(u, task[u])'
    BY DEF Fitting
  <2>1. Fits(u, task'[u])
    BY <1>5
  <2> QED BY <2>1 DEF Fits, ThreadRecord, Awaits, Link, Asking, Finishing, Undoing
<1>7. task' \in [Thread -> ThreadRecord]
  BY <1>3, <1>5 DEF Fits
<1>8. OnePoll'
  <2>1. \A p \in Poll : task'[p] = Idle
    BY <1>3 DEF Thread
  <2> QED BY <2>1 DEF OnePoll, Idle
<1>9. OneTunnel' /\ relayTask' \in Relay \union {NoTask}
      /\ relay' \in [Relay -> {"none", "waiting", "busy"}]
  BY <1>4 DEF OneTunnel
<1>10. unlinked' \in BOOLEAN /\ missed' \in BOOLEAN /\ inTurn' \in BOOLEAN
  BY Zenon DEF Restart, Started
<1>11. link' \in Link /\ told' \in Link /\ published' \in Handle \union {NoHandle}
  BY <1>1, <1>2 DEF Link
<1>12. TypeOK'
  BY <1>1, <1>2, <1>7, <1>9, <1>10, <1>11 DEF TypeOK, ThreadRecord, Awaits, Link
<1> QED BY <1>6, <1>8, <1>9, <1>12 DEF AccountInv

\* What is remembered of the past stays a matter of yes or no.
LEMMA HistoryIsBoolean ==
    ASSUME TypeOK, [Next]_vars
    PROVE  unlinked' \in BOOLEAN /\ missed' \in BOOLEAN /\ inTurn' \in BOOLEAN
<1>1. unlinked \in BOOLEAN /\ missed \in BOOLEAN /\ inTurn \in BOOLEAN
  BY DEF TypeOK
<1>2. CASE UNCHANGED history \/ UNCHANGED vars
  BY <1>1, <1>2 DEF history, vars
<1>3. ASSUME NEW c \in Client, BeginUpgrade(c) \/ Unlink(c) \/ Wait(c) \/ EnsurePolling(c)
      PROVE  unlinked' \in BOOLEAN /\ missed' \in BOOLEAN /\ inTurn' \in BOOLEAN
  <2>1. CASE BeginUpgrade(c) \/ Unlink(c)
    BY <1>1, <2>1, Zenon DEF BeginUpgrade, Unlink, Begins
  <2>2. CASE Wait(c)
    BY <1>1, <2>2, Zenon DEF Wait
  <2>3. CASE EnsurePolling(c)
    <3>1. UNCHANGED <<unlinked, inTurn>>
      BY <2>3 DEF EnsurePolling
    <3>2. missed' \in BOOLEAN
      <4>1. CASE PollIsLive
        <5>1. missed' = (task[pollTask].step \in {"tell", "send", "dial"})
          BY <2>3, <4>1 DEF EnsurePolling
        <5>2. CASE task[pollTask].step \in {"tell", "send", "dial"}
          BY <5>1, <5>2
        <5>3. CASE ~(task[pollTask].step \in {"tell", "send", "dial"})
          BY <5>1, <5>3
        <5> QED BY <5>2, <5>3
      <4>2. CASE ~PollIsLive
        BY <2>3, <4>2, Zenon DEF EnsurePolling
      <4> QED BY <4>1, <4>2
    <3> QED BY <1>1, <3>1, <3>2
  <2> QED BY <1>3, <2>1, <2>2, <2>3
<1>4. ASSUME NEW p \in Poll, PollHears(p)
      PROVE  unlinked' \in BOOLEAN /\ missed' \in BOOLEAN /\ inTurn' \in BOOLEAN
  <2>1. UNCHANGED history \/ Begins(TRUE) \/ Begins(FALSE)
    BY <1>4 DEF PollHears
  <2> QED BY <1>1, <2>1, Zenon DEF Begins, history
<1>5. ASSUME VerifyHears
      PROVE  unlinked' \in BOOLEAN /\ missed' \in BOOLEAN /\ inTurn' \in BOOLEAN
  <2>1. UNCHANGED history \/ Begins(TRUE)
    BY <1>5 DEF VerifyHears
  <2> QED BY <1>1, <2>1, Zenon DEF Begins, history
<1>6. ASSUME NEW t \in Thread, Save(t) \/ Clear(t) \/ SayOff(t) \/ Send(t)
      PROVE  unlinked' \in BOOLEAN /\ missed' \in BOOLEAN /\ inTurn' \in BOOLEAN
  BY <1>1, <1>6, Zenon DEF Save, Clear, SayOff, Send
<1>7. CASE Restart
  BY <1>7, Zenon DEF Restart, Started
<1>8. \/ UNCHANGED history \/ UNCHANGED vars
      \/ \E c \in Client : BeginUpgrade(c) \/ Unlink(c) \/ Wait(c) \/ EnsurePolling(c)
      \/ \E p \in Poll : PollHears(p)
      \/ VerifyHears
      \/ \E t \in Thread : Save(t) \/ Clear(t) \/ SayOff(t) \/ Send(t)
      \/ Restart
  BY DEF Next, Command, Step, CloudAnswers, Deadline, GiveUp, Publish, Claim, Dial, StopPoll, StopRelay,
         Hide, Disown, Tell, RelayWakes, RelaySays, CloudChanges
<1> QED BY <1>2, <1>3, <1>4, <1>5, <1>6, <1>7, <1>8

\* No step parts a thread from what it has in hand, or makes a second tunnel or poll.
LEMMA AccountInvStep == AccountInv /\ [Next]_vars => AccountInv'
<1> SUFFICES ASSUME AccountInv, [Next]_vars PROVE AccountInv'
  OBVIOUS
<1> USE AccountAssumption
<1>0. TypeOK /\ OneTunnel /\ OnePoll /\ Fitting
  BY DEF AccountInv
<1>00. unlinked' \in BOOLEAN /\ missed' \in BOOLEAN /\ inTurn' \in BOOLEAN
  BY <1>0, HistoryIsBoolean
<1>1. ASSUME NEW t \in Thread, Mover(t) PROVE AccountInv'
  <2>1. Moved(t) /\ Fits(t, task[t])
    BY <1>0, <1>1, MoversFit DEF Fitting
  <2>2. UNCHANGED <<pollTask, relayTask, relay, restarts>>
    BY <1>1 DEF Mover, BeginUpgrade, Unlink, Wait, Deadline, PollHears, GiveUp, VerifyHears,
         CloudAnswers, Save, Publish, Claim, SayOff, Clear, Hide, Disown, Tell, Send, Keep
  <2>3. task' \in [Thread -> ThreadRecord] /\ Fitting' /\ OnePoll'
    <3> DEFINE r == task'[t]
    <3>1. /\ Fits(t, r) /\ task' = [task EXCEPT ![t] = r] /\ UNCHANGED pollTask
          /\ r.step \in Asking => task[t].step \in Asking
      BY <2>1, <2>2 DEF Moved
    <3> HIDE DEF r
    <3> QED BY <3>1, OneMoves
  <2>4. OneTunnel'
    BY <1>0, <2>2 DEF OneTunnel
  <2>5. setting' \in [{"handle", "url"} -> Handle \union {NoHandle}]
    <3>1. CASE UNCHANGED setting
      BY <1>0, <3>1 DEF TypeOK
    <3>2. CASE Save(t)
      <4>1. task[t].doing = "finalize" /\ task[t].handle \in Handle /\ task[t].key \in {"handle", "url"}
        BY <2>1, <3>2 DEF Fits, ThreadRecord, Save, At, Finishing
      <4> QED BY <1>0, <3>2, <4>1 DEF TypeOK, Save
    <3>3. CASE Clear(t)
      <4>1. task[t].key \in {"handle", "url"}
        BY <2>1 DEF Fits, ThreadRecord
      <4> QED BY <1>0, <3>3, <4>1 DEF TypeOK, Clear
    <3> QED BY <1>1, <3>1, <3>2, <3>3 DEF Mover, BeginUpgrade, Unlink, Wait, Deadline, PollHears,
         GiveUp, VerifyHears, CloudAnswers, Publish, Claim, SayOff, Hide, Disown, Tell, Send
  <2>6. link' \in Link /\ published' \in Handle \union {NoHandle}
    <3>1. CASE UNCHANGED <<link, published>>
      BY <1>0, <3>1 DEF TypeOK
    <3>2. CASE Publish(t) \/ Claim(t)
      <4>1. task[t].doing = "finalize" /\ task[t].handle \in Handle
        BY <2>1, <3>2 DEF Fits, Publish, Claim, At, Finishing
      <4> QED BY <1>0, <3>2, <4>1 DEF TypeOK, Publish, Claim, Link
    <3>3. CASE Wait(t) \/ GiveUp(t) \/ Hide(t) \/ Disown(t)
      BY <1>0, <3>3 DEF TypeOK, Wait, GiveUp, Hide, Disown, Link
    <3> QED BY <1>1, <3>1, <3>2, <3>3 DEF Mover, BeginUpgrade, Unlink, Deadline, PollHears,
         VerifyHears, CloudAnswers, Save, Clear, SayOff, Tell, Send
  <2>7. told' \in Link
    <3>1. CASE UNCHANGED told
      BY <1>0, <3>1 DEF TypeOK
    <3>2. CASE Send(t)
      <4>1. told' = task[t].said
        BY <3>2 DEF Send
      <4>2. task[t].said \in Link
        BY <2>1 DEF Fits, ThreadRecord
      <4> QED BY <4>1, <4>2
    <3> QED BY <1>1, <3>1, <3>2 DEF Mover, BeginUpgrade, Unlink, Wait, Deadline, PollHears, GiveUp,
         VerifyHears, CloudAnswers, Save, Publish, Claim, Clear, SayOff, Hide, Disown, Tell
  <2>8. cloud' \in Handle \union {NoHandle} /\ status' \in {"off", "on"}
    BY <1>0, <1>1 DEF TypeOK, Mover, BeginUpgrade, Unlink, Wait, Deadline, PollHears, GiveUp,
         VerifyHears, CloudAnswers, Save, Publish, Claim, SayOff, Clear, Hide, Disown, Tell, Send, Keep
  <2>9. changes' \in 0 .. MaxChanges
    <3>1. CASE BeginUpgrade(t) \/ Unlink(t)
      <4>1. changes \in 0 .. MaxChanges /\ MaxChanges \in Nat
        BY <1>0 DEF TypeOK
      <4>2. changes < MaxChanges /\ changes' = changes + 1
        BY <3>1 DEF BeginUpgrade, Unlink, Spend
      <4> QED BY <4>1, <4>2
    <3>2. CASE UNCHANGED changes
      BY <1>0, <3>2 DEF TypeOK
    <3> QED BY <1>1, <3>1, <3>2 DEF Mover, Wait, Deadline, PollHears, GiveUp, VerifyHears,
         CloudAnswers, Save, Publish, Claim, SayOff, Clear, Hide, Disown, Tell, Send, Keep
  <2>10. TypeOK'
    BY <1>0, <1>00, <2>2, <2>3, <2>5, <2>6, <2>7, <2>8, <2>9 DEF TypeOK, Link, ThreadRecord, Awaits
  <2> QED BY <2>3, <2>4, <2>10 DEF AccountInv
<1>2. ASSUME NEW c \in Client, EnsurePolling(c) PROVE AccountInv'
  <2>1. UNCHANGED <<cloud, setting, link, published, status, relayTask, relay, told, changes, restarts>>
    BY <1>2 DEF EnsurePolling, Keep
  <2>2. c \in Thread /\ c \notin Poll /\ task \in [Thread -> ThreadRecord] /\ Poll \subseteq Thread
    BY <1>0 DEF Thread, TypeOK
  <2>3. CASE PollIsLive
    <3>1. task' = [task EXCEPT ![c] = Idle] /\ UNCHANGED pollTask
      BY <1>2, <2>3 DEF EnsurePolling
    <3>2. Idle.step \notin Asking
      BY DEF Idle, Asking
    <3>3. task' \in [Thread -> ThreadRecord] /\ Fitting' /\ OnePoll'
      BY <2>2, <3>1, <3>2, IdleFits, OneMoves
    <3> QED BY <1>0, <1>00, <2>1, <3>1, <3>3 DEF AccountInv, TypeOK, OneTunnel, ThreadRecord, Awaits, Link
  <2>4. CASE ~PollIsLive
    <3>1. PICK p \in Poll :
            /\ At(p, "idle") /\ pollTask' = p
            /\ task' = [task EXCEPT ![c] = Idle, ![p] = [Idle EXCEPT !.step = "ask"]]
      BY <1>2, <2>4 DEF EnsurePolling
    <3>2. \A u \in Thread : task'[u] = IF u = p THEN [Idle EXCEPT !.step = "ask"]
                                       ELSE IF u = c THEN Idle ELSE task[u]
      BY <2>2, <3>1
    <3>3. \A u \in Thread : Fits(u, task'[u])
      BY <1>0, <3>2, IdleFits, AskingFits DEF Fitting
    <3>4. Fitting'
      <4> SUFFICES ASSUME NEW u \in Thread PROVE Fits(u, task[u])'
        BY DEF Fitting
      <4>1. Fits(u, task'[u])
        BY <3>3
      <4> QED BY <4>1 DEF Fits, ThreadRecord, Awaits, Link, Asking, Finishing, Undoing
    <3>5. task' \in [Thread -> ThreadRecord]
      BY <2>2, <3>1, <3>3 DEF Fits
    <3>6. OnePoll'
      <4> SUFFICES ASSUME NEW q \in Poll, q # p, task'[q].step \in {"ask", "answered"} PROVE FALSE
        BY <3>1 DEF OnePoll
      <4>1. task'[q] = task[q]
        BY <2>2, <3>2
      <4>2. q = pollTask /\ pollTask # NoTask
        BY <1>0, <4>1 DEF OnePoll
      <4> QED BY <2>4, <4>1, <4>2 DEF PollIsLive, At
    <3> QED BY <1>0, <1>00, <2>1, <3>1, <3>4, <3>5, <3>6
            DEF AccountInv, TypeOK, OneTunnel, ThreadRecord, Awaits, Link
  <2> QED BY <2>3, <2>4
<1>3. ASSUME NEW t \in Thread, Dial(t) \/ StopRelay(t) PROVE AccountInv'
  <2>1. UNCHANGED <<cloud, setting, link, published, status, pollTask, told, changes, restarts>>
    BY <1>3 DEF Dial, StopRelay, Keep
  <2>2. PICK r : /\ task' = [task EXCEPT ![t] = r] /\ Fits(t, r) /\ r.step \notin Asking
    <3>1. CASE Dial(t)
      <4>1. task' = [task EXCEPT ![t] = Idle]
        BY <3>1 DEF Dial
      <4>2. Idle.step \notin Asking
        BY DEF Idle, Asking
      <4> QED BY <4>1, <4>2, IdleFits
    <3>2. CASE StopRelay(t)
      <4>1. Fits(t, task[t]) /\ task[t].step = "stop_relay"
        BY <1>0, <3>2 DEF Fitting, StopRelay, At
      <4>2. Fits(t, [task[t] EXCEPT !.step = "say_off"])
        BY <4>1 DEF Fits, ThreadRecord, Awaits, Asking, Finishing, Undoing
      <4>3. [task[t] EXCEPT !.step = "say_off"].step \notin Asking
        BY <4>1 DEF Fits, ThreadRecord, Asking
      <4>4. task' = [task EXCEPT ![t] = [task[t] EXCEPT !.step = "say_off"]]
        BY <3>2 DEF StopRelay, Goto
      <4> QED BY <4>2, <4>3, <4>4
    <3> QED BY <1>3, <3>1, <3>2
  <2>3. task' \in [Thread -> ThreadRecord] /\ Fitting' /\ OnePoll'
    BY <2>1, <2>2, OneMoves
  <2>4. /\ OneTunnel' /\ relayTask' \in Relay \union {NoTask}
        /\ relay' \in [Relay -> {"none", "waiting", "busy"}]
    BY <1>0, <1>3, NoneWaits DEF Dial, StopRelay, OneTunnel
  <2> QED BY <1>0, <1>00, <2>1, <2>3, <2>4 DEF AccountInv, TypeOK, ThreadRecord, Awaits, Link
<1>4. ASSUME NEW t \in Thread, StopPoll(t) PROVE AccountInv'
  <2>1. UNCHANGED <<cloud, setting, link, published, status, relayTask, relay, told, changes, restarts>>
    BY <1>4 DEF StopPoll, Keep
  <2>2. /\ pollTask' = NoTask /\ task[t].step = "stop_poll"
        /\ task' = [u \in Thread |->
             IF u = t THEN [task[t] EXCEPT !.step = "stop_relay"]
             ELSE IF u = pollTask /\ task[u].step \in Awaits THEN Idle
             ELSE task[u]]
    BY <1>4 DEF StopPoll, At
  <2>3. Fits(t, [task[t] EXCEPT !.step = "stop_relay"])
    <3>1. Fits(t, task[t])
      BY <1>0 DEF Fitting
    <3> QED BY <2>2, <3>1 DEF Fits, ThreadRecord, Awaits, Asking, Finishing, Undoing
  <2>4. \A u \in Thread : Fits(u, task'[u])
    BY <1>0, <2>2, <2>3, IdleFits DEF Fitting
  <2>5. Fitting'
    <3> SUFFICES ASSUME NEW u \in Thread PROVE Fits(u, task[u])'
      BY DEF Fitting
    <3>1. Fits(u, task'[u])
      BY <2>4
    <3> QED BY <3>1 DEF Fits, ThreadRecord, Awaits, Link, Asking, Finishing, Undoing
  <2>6. task' \in [Thread -> ThreadRecord]
    BY <2>2, <2>4 DEF Fits
  <2>7. OnePoll'
    <3> SUFFICES ASSUME NEW p \in Poll, task'[p].step \in {"ask", "answered"} PROVE FALSE
      BY DEF OnePoll
    <3>1. p \in Thread
      BY DEF Thread
    <3>2. p # t
      BY <1>0, <2>2, <3>1 DEF TypeOK, ThreadRecord
    <3>3. CASE p = pollTask /\ task[p].step \in Awaits
      BY <2>2, <3>1, <3>2, <3>3 DEF Idle
    <3>4. CASE ~(p = pollTask /\ task[p].step \in Awaits)
      <4>1. task'[p] = task[p]
        BY <2>2, <3>1, <3>2, <3>4
      <4> QED BY <1>0, <3>4, <4>1 DEF OnePoll, Awaits
    <3> QED BY <3>3, <3>4
  <2> QED BY <1>0, <1>00, <2>1, <2>2, <2>5, <2>6, <2>7
          DEF AccountInv, TypeOK, OneTunnel, ThreadRecord, Awaits, Link
<1>5. ASSUME NEW r \in Relay, RelayWakes(r) \/ RelaySays(r) PROVE AccountInv'
  <2>1. UNCHANGED <<cloud, setting, link, published, task, pollTask, relayTask, told, changes, restarts>>
    BY <1>5 DEF RelayWakes, RelaySays, Keep
  <2>2. status' \in {"off", "on"} /\ relay' \in [Relay -> {"none", "waiting", "busy"}] /\ OneTunnel'
    BY <1>0, <1>5 DEF RelayWakes, RelaySays, TypeOK, OneTunnel
  <2> QED BY <1>0, <1>00, <2>1, <2>2 DEF AccountInv, TypeOK, OnePoll, Fitting, Fits, ThreadRecord, Awaits, Link
<1>6. ASSUME CloudChanges PROVE AccountInv'
  <2>1. UNCHANGED <<setting, link, published, status, task, pollTask, relayTask, relay, told, restarts>>
    BY <1>6 DEF CloudChanges
  <2>2. cloud' \in Handle \union {NoHandle} /\ changes' \in 0 .. MaxChanges
    BY <1>0, <1>6 DEF CloudChanges, TypeOK, Spend
  <2> QED BY <1>0, <1>00, <2>1, <2>2
          DEF AccountInv, TypeOK, OneTunnel, OnePoll, Fitting, Fits, ThreadRecord, Awaits, Link
<1>7. ASSUME UNCHANGED vars PROVE AccountInv'
  BY <1>0, <1>00, <1>7 DEF vars, AccountInv, TypeOK, OneTunnel, OnePoll, Fitting, Fits, ThreadRecord, Awaits, Link
<1>8. CASE Restart
  BY <1>8, StartedFits
<1> QED BY <1>1, <1>2, <1>3, <1>4, <1>5, <1>6, <1>7, <1>8 DEF Next, Command, Step, Mover, Thread

\* ensure_polling: "Keep exactly one poll running"; spawn_relay: "replacing any earlier task
\* rather than racing it".  However many clients press, one tunnel and one poll are at work.
THEOREM OnlyOneAlways == Spec => []OnlyOne
<1>1. Init => AccountInv
  BY AccountInvInit
<1>2. AccountInv /\ [Next]_vars => AccountInv'
  BY AccountInvStep
<1>3. AccountInv => OnlyOne
  BY DEF AccountInv, OnlyOne
<1> QED BY <1>1, <1>2, <1>3, PTL DEF Spec

\* verify_link: "Only a definite negative unlinks".  The link, the published identity, the
\* stored settings and the tunnel are lost at the steps of an unlink and nowhere else, and
\* that unlink is the owner's or follows an answer that there is none.  Only the link itself
\* has another way to go: a press of the owner's that looked before the link landed.
THEOREM OnlyANoEverUnlinks == Spec => OnlyANoUnlinks
<1> DEFINE Kept ==
       restarts' = restarts =>
         /\ link \in Handle /\ link' \notin Handle =>
              Rightly("disown") \/ (link' = "waiting" /\ \E c \in Client : At(c, "wait"))
         /\ published \in Handle /\ published' = NoHandle => Rightly("hide")
         /\ (\E key \in {"handle", "url"} : setting[key] \in Handle /\ setting'[key] = NoHandle)
              => Rightly("clear")
         /\ relayTask # NoTask /\ relayTask' = NoTask => Rightly("stop_relay")
<1>1. ASSUME AccountInv, Next, restarts' = restarts PROVE Kept
  <2> USE AccountAssumption
  <2>1. /\ \A t \in Thread : Fits(t, task[t])
        /\ setting \in [{"handle", "url"} -> Handle \union {NoHandle}]
        /\ \A t \in Thread : task[t].key \in {"handle", "url"}
    BY <1>1 DEF AccountInv, Fitting, TypeOK, Fits, ThreadRecord
  <2>2. \A t \in Thread : \A step \in Undoing : At(t, step) => Rightly(step)
    BY <2>1 DEF Fits, At, Rightly
  <2>3. ~Restart
    BY <1>1 DEF Restart, AccountInv, TypeOK
  <2>4. ASSUME link \in Handle, link' \notin Handle
        PROVE  Rightly("disown") \/ (link' = "waiting" /\ \E c \in Client : At(c, "wait"))
    <3>1. PICK t \in Thread : (t \in Client /\ Wait(t)) \/ GiveUp(t) \/ Claim(t) \/ Disown(t)
      BY <1>1, <2>3, <2>4
      DEF Next, Command, Step, BeginUpgrade, Unlink, EnsurePolling, CloudAnswers, Deadline, PollHears,
          VerifyHears, Save, Publish, Dial, StopPoll, StopRelay, SayOff, Clear, Hide, Tell, Send,
          RelayWakes, RelaySays, CloudChanges, Thread
    <3>2. CASE t \in Client /\ Wait(t)
      BY <3>2 DEF Wait
    <3>3. CASE GiveUp(t)
      BY <2>4, <3>3 DEF GiveUp
    <3>4. CASE Claim(t)
      BY <2>1, <2>4, <3>4 DEF Claim, At, Fits, Finishing
    <3>5. CASE Disown(t)
      BY <2>2, <3>5 DEF Disown, Undoing
    <3> QED BY <3>1, <3>2, <3>3, <3>4, <3>5
  <2>5. ASSUME published \in Handle, published' = NoHandle PROVE Rightly("hide")
    <3>1. PICK t \in Thread : Publish(t) \/ Hide(t)
      BY <1>1, <2>3, <2>5
      DEF Next, Command, Step, BeginUpgrade, Unlink, Wait, EnsurePolling, CloudAnswers, Deadline,
          PollHears, GiveUp, VerifyHears, Save, Claim, Dial, StopPoll, StopRelay, SayOff, Clear, Disown,
          Tell, Send, RelayWakes, RelaySays, CloudChanges, Thread
    <3>2. CASE Publish(t)
      BY <2>1, <2>5, <3>2 DEF Publish, At, Fits, Finishing
    <3>3. CASE Hide(t)
      BY <2>2, <3>3 DEF Hide, Undoing
    <3> QED BY <3>1, <3>2, <3>3
  <2>6. ASSUME NEW key \in {"handle", "url"}, setting[key] \in Handle, setting'[key] = NoHandle
        PROVE  Rightly("clear")
    <3>1. PICK t \in Thread : Save(t) \/ Clear(t)
      BY <1>1, <2>3, <2>6
      DEF Next, Command, Step, BeginUpgrade, Unlink, Wait, EnsurePolling, CloudAnswers, Deadline,
          PollHears, GiveUp, VerifyHears, Publish, Claim, Dial, StopPoll, StopRelay, SayOff, Hide, Disown,
          Tell, Send, RelayWakes, RelaySays, CloudChanges, Thread
    <3>2. CASE Save(t)
      <4>1. task[t].handle \in Handle
        BY <2>1, <3>2 DEF Save, At, Fits, Finishing
      <4>2. setting' = [setting EXCEPT ![task[t].key] = task[t].handle] \/ setting' = setting
        BY <3>2 DEF Save
      <4> QED BY <2>1, <2>6, <4>1, <4>2
    <3>3. CASE Clear(t)
      BY <2>2, <3>3 DEF Clear, Undoing
    <3> QED BY <3>1, <3>2, <3>3
  <2>7. ASSUME relayTask # NoTask, relayTask' = NoTask PROVE Rightly("stop_relay")
    <3>1. PICK t \in Thread : Dial(t) \/ StopRelay(t)
      BY <1>1, <2>3, <2>7
      DEF Next, Command, Step, BeginUpgrade, Unlink, Wait, EnsurePolling, CloudAnswers, Deadline,
          PollHears, GiveUp, VerifyHears, Save, Publish, Claim, StopPoll, SayOff, Clear, Hide, Disown,
          Tell, Send, RelayWakes, RelaySays, CloudChanges, Thread
    <3>2. CASE Dial(t)
      BY <2>7, <3>2 DEF Dial
    <3>3. CASE StopRelay(t)
      BY <2>2, <3>3 DEF StopRelay, Undoing
    <3> QED BY <3>1, <3>2, <3>3
  <2> QED BY <2>4, <2>5, <2>6, <2>7
<1>2. AccountInv /\ [Next]_vars => [Kept]_vars
  BY <1>1
<1> QED BY <1>2, AccountInvInit, AccountInvStep, PTL DEF Spec, OnlyANoUnlinks
-----------------------------------------------------------------------------
(* What the owner is shown is done.  A finalize or an unlink that is alone  *)
(* at work sets everything afresh, whatever raced, failed or crashed before *)
(* it; a press of the owner's and a poll that gives up keep what they find. *)

Works(t) == task[t].step \notin Awaits
Alone(t) == \A u \in Thread \ {t} : ~Works(u)

Linked    == IF link \in Handle THEN link ELSE NoHandle
Stored(h) == setting["handle"] = h /\ setting["url"] = h
Off       == status = "off" /\ \A q \in Relay : relay[q] # "busy"

Ending == {"tell", "send"}

\* How far a finalize with record r has got.
Finalized(r) ==
    /\ r.step = "save" /\ r.key = "url" => setting["handle"] = r.handle
    /\ r.step \in {"publish", "claim", "dial"} \union Ending => Stored(r.handle)
    /\ r.step \in {"claim", "dial"} \union Ending => published = r.handle
    /\ r.step \in {"dial"} \union Ending => link = r.handle
    /\ r.step = "send" => r.said = link
    /\ r.step = "dial" => told = link

\* How far an unlink with record r has got.
Undone(r) ==
    /\ r.step \in {"stop_poll", "stop_relay", "say_off"} => r.key = "handle"
    /\ r.step \in {"say_off", "clear", "hide", "disown"} \union Ending => relayTask = NoTask
    /\ r.step \in {"clear", "hide", "disown"} \union Ending => Off
    /\ r.step = "clear" /\ r.key = "url" => setting["handle"] = NoHandle
    /\ r.step \in {"hide", "disown"} \union Ending => Stored(NoHandle)
    /\ r.step \in {"disown"} \union Ending => published = NoHandle
    /\ r.step \in Ending => link = "unlinked"
    /\ r.step = "send" => r.said = link

\* Everything agrees, up to what a press or a poll that gives up has yet to do.
Agreed(r) ==
    /\ published = Linked /\ Stored(published)
    /\ link \in Handle <=> relayTask # NoTask
    /\ relayTask = NoTask => Off
    /\ r.step \notin Ending => told = link
    /\ r.step = "send" => r.said = link
    /\ link = "waiting" => PollIsLive \/ (r.doing = "upgrade" /\ r.step \in Ending \union {"poll"})
    /\ r.step = "wait" => link \notin Handle
    /\ r.step = "poll" \/ (r.doing = "upgrade" /\ r.step \in Ending) => link = "waiting"
    /\ r.doing = "giveup" /\ r.step \in Ending => link = "unlinked"

Settled(r) ==
    /\ r.doing = "finalize" => Finalized(r)
    /\ r.doing = "unlink" => Undone(r)
    /\ r.doing \notin {"finalize", "unlink"} => Agreed(r)

\* Whichever thread is the one that may be at work, things are as it has left them.
InTurn ==
    /\ \A t, u \in Thread : Works(t) /\ Works(u) => t = u
    /\ \A t \in Thread : Alone(t) => Settled(task[t])

TurnInv == AccountInv /\ (inTurn => InTurn)

\* When one thread may be at work, the others have the same to say of what is settled.
LEMMA SettledForAll ==
    ASSUME AccountInv', NEW t \in Thread, Settled(task[t])', Alone(t)'
    PROVE  TurnInv'
<1>1. \A v, u \in Thread : Works(v)' /\ Works(u)' => v = u
  BY DEF Alone
<1>2. ASSUME NEW u \in Thread, Alone(u)' PROVE Settled(task[u])'
  <2>1. CASE u = t
    BY <2>1
  <2>2. CASE u # t
    <3>1. task'[u].step \in Awaits /\ task'[t].step \in Awaits
      BY <1>2, <2>2 DEF Works, Alone
    <3>2. Fits(u, task'[u]) /\ Fits(t, task'[t])
      BY DEF AccountInv, Fitting, Fits, ThreadRecord, Awaits, Link, Asking, Finishing, Undoing
    <3>3. task'[u].doing = "none" /\ task'[t].doing = "none"
      BY <3>1, <3>2 DEF Fits, Awaits, Asking
    <3> QED BY <3>1, <3>3 DEF Settled, Agreed, Stored, Off, Awaits, Ending, Linked
  <2> QED BY <2>1, <2>2
<1> QED BY <1>1, <1>2 DEF TurnInv, InTurn

\* A poll that is at work stays so unless it is the one that comes to its end.
LEMMA StillLive ==
    ASSUME TypeOK, NEW t \in Thread, task' = [task EXCEPT ![t] = task'[t]], UNCHANGED pollTask,
           task'[t].step # "idle" \/ t \notin Poll
    PROVE  PollIsLive => PollIsLive'
<1>1. CASE pollTask = NoTask
  BY <1>1 DEF PollIsLive
<1>2. CASE pollTask # NoTask
  <2>1. pollTask \in Poll /\ pollTask \in Thread
    BY <1>2 DEF TypeOK, Thread
  <2>2. task'[pollTask] = IF pollTask = t THEN task'[t] ELSE task[pollTask]
    BY <2>1 DEF TypeOK
  <2> QED BY <1>2, <2>1, <2>2 DEF PollIsLive, At
<1> QED BY <1>1, <1>2

\* A thread that goes from one await to another disturbs nothing.
LEMMA RestSettles ==
    ASSUME TurnInv, AccountInv', NEW t \in Thread, task[t].step \in Asking,
           task' = [task EXCEPT ![t] = task'[t]], task'[t].step \in Awaits,
           task'[t].step # "idle" \/ t \notin Poll,
           UNCHANGED <<setting, link, published, status, pollTask, relayTask, relay, told, inTurn>>
    PROVE  TurnInv'
<1> SUFFICES ASSUME inTurn PROVE InTurn'
  BY DEF TurnInv
<1>1. InTurn /\ TypeOK /\ task \in [Thread -> ThreadRecord]
  BY DEF TurnInv, AccountInv, TypeOK
<1>2. \A u \in Thread : task'[u] = IF u = t THEN task'[t] ELSE task[u]
  BY <1>1
<1>3. \A u \in Thread : Works(u)' <=> Works(u)
  BY <1>2 DEF Works, Awaits, Asking
<1>4. PollIsLive => PollIsLive'
  BY <1>1, StillLive
<1>5. ASSUME NEW u \in Thread, Alone(u)' PROVE Settled(task[u])'
  <2>1. Alone(u) /\ Settled(task[u])
    BY <1>1, <1>3, <1>5 DEF Alone, InTurn
  <2>2. CASE u = t
    <3>1. task[t].doing = "none" /\ task'[t].doing = "none"
      <4>1. Fits(t, task[t]) /\ Fits(t, task'[t])
        BY DEF TurnInv, AccountInv, Fitting, Fits, ThreadRecord, Awaits, Link, Asking, Finishing, Undoing
      <4> QED BY <4>1 DEF Fits, Awaits, Asking
    <3> QED BY <1>4, <2>1, <2>2, <3>1 DEF Settled, Agreed, Stored, Off, Linked, Ending, Awaits, Asking
  <2>3. CASE u # t
    <3>1. task'[u] = task[u]
      BY <1>2, <2>3
    <3> QED BY <1>4, <2>1, <3>1 DEF Settled, Finalized, Undone, Agreed, Stored, Off, Linked, Ending
  <2> QED BY <2>2, <2>3
<1> QED BY <1>1, <1>3, <1>5 DEF InTurn

\* A thread that begins has nothing to keep if it sets everything afresh, and everything
\* agrees if it does not.
LEMMA BeginSettles ==
    ASSUME TurnInv, AccountInv', NEW t \in Thread, ~Works(t),
           task' = [task EXCEPT ![t] = task'[t]], task'[t].step # "idle",
           NEW afresh \in BOOLEAN, Begins(afresh),
           IF afresh THEN /\ task'[t].step \in {"save", "stop_poll"} /\ task'[t].key = "handle"
                          /\ task'[t].doing \in {"finalize", "unlink"}
                     ELSE /\ task'[t].step \in {"wait", "giveup"}
                          /\ task'[t].step = "wait" => link \notin Handle,
           UNCHANGED <<setting, link, published, status, pollTask, relayTask, relay, told>>
    PROVE  TurnInv'
<1> SUFFICES ASSUME inTurn' PROVE TurnInv'
  BY DEF TurnInv
<1>1. TypeOK /\ task \in [Thread -> ThreadRecord]
  BY DEF TurnInv, AccountInv, TypeOK
<1>2. Working = {} /\ (afresh \/ inTurn)
  BY DEF Begins
<1>3. \A u \in Thread : ~Works(u)
  BY <1>2 DEF Working, Works
<1>4. Alone(t)'
  BY <1>1, <1>3 DEF Alone, Works
<1>5. Settled(task[t])'
  <2>1. CASE afresh
    BY <2>1 DEF Settled, Finalized, Undone, Ending
  <2>2. CASE ~afresh
    <3>1. Settled(task[t]) /\ Fits(t, task[t])
      BY <1>2, <1>3, <2>2 DEF TurnInv, InTurn, Alone, AccountInv, Fitting
    <3>2. Agreed(task[t]) /\ task[t].step \notin Ending \union {"wait", "poll"}
      BY <1>3, <3>1 DEF Settled, Fits, Works, Awaits, Asking, Ending
    <3>3. task'[t].doing \notin {"finalize", "unlink"}
      <4>1. Fits(t, task'[t])
        BY DEF AccountInv, Fitting, Fits, ThreadRecord, Awaits, Link, Asking, Finishing, Undoing
      <4> QED BY <2>2, <4>1 DEF Fits
    <3>4. PollIsLive => PollIsLive'
      BY <1>1, StillLive
    <3> QED BY <2>2, <3>1, <3>2, <3>3, <3>4 DEF Settled, Agreed, Stored, Off, Linked, Ending
  <2> QED BY <2>1, <2>2
<1> QED BY <1>4, <1>5, SettledForAll

\* The steps of a thread that is at work.
Work(t) ==
    \/ t \in Client /\ (Wait(t) \/ EnsurePolling(t))
    \/ t \in Poll /\ GiveUp(t)
    \/ Save(t) \/ Publish(t) \/ Claim(t) \/ Dial(t)
    \/ StopPoll(t) \/ StopRelay(t) \/ SayOff(t) \/ Clear(t) \/ Hide(t) \/ Disown(t)
    \/ Tell(t) \/ Send(t)

\* Such a step leaves the others where they were, or gives one a poll to ask with.
LEMMA WorkLeavesOthers ==
    ASSUME AccountInv, NEW t \in Thread, Work(t), Alone(t)
    PROVE  Alone(t)'
<1> USE AccountAssumption
<1>1. TypeOK /\ task \in [Thread -> ThreadRecord]
  BY DEF AccountInv, TypeOK
<1>3. \A u \in Thread \ {t} : task[u].step \in Awaits
  BY DEF Alone, Works
<1>4. \A u \in Thread \ {t} : task'[u].step \in Awaits
  <2>1. CASE Mover(t)
    <3>1. task' = [task EXCEPT ![t] = task'[t]]
      BY <2>1, MoversFit DEF Moved
    <3> QED BY <1>1, <1>3, <3>1
  <2>2. CASE t \in Client /\ EnsurePolling(t)
    BY <1>1, <1>3, <2>2 DEF EnsurePolling, Idle, Awaits
  <2>3. CASE Dial(t) \/ StopRelay(t)
    BY <1>1, <1>3, <2>3 DEF Dial, StopRelay, Goto
  <2>4. CASE StopPoll(t)
    BY <1>1, <1>3, <2>4 DEF StopPoll, Idle, Awaits
  <2>5. Mover(t) \/ (t \in Client /\ EnsurePolling(t)) \/ Dial(t) \/ StopRelay(t) \/ StopPoll(t)
    BY Zenon DEF Work, Mover
  <2> QED BY <2>1, <2>2, <2>3, <2>4, <2>5
<1> QED BY <1>4 DEF Alone, Works

\* Each step of a press, or of a poll that gives up, keeps what agreed.
LEMMA PressSettles ==
    ASSUME TypeOK, NEW t \in Thread, Fits(t, task[t]), Settled(task[t]), AccountInv,
           (t \in Client /\ (Wait(t) \/ EnsurePolling(t))) \/ (t \in Poll /\ GiveUp(t))
    PROVE  Settled(task[t])'
<1> USE AccountAssumption
<1> DEFINE r == task[t]
           s == task'[t]
<1>1. r \in ThreadRecord /\ task \in [Thread -> ThreadRecord] /\ link \in Link
  BY DEF TypeOK
<1> USE DEF Settled, Agreed, Stored, Off, Linked, Ending, At, Goto
<1>2. CASE t \in Client /\ Wait(t)
  <2>1. /\ r.step = "wait" /\ r.doing = "upgrade" /\ link' = "waiting"
        /\ s = [r EXCEPT !.step = IF link = "unlinked" THEN "tell" ELSE "poll"]
        /\ UNCHANGED <<setting, published, status, relayTask, relay, told>>
    BY <1>1, <1>2 DEF Wait, Fits
  <2>2. s.doing = "upgrade" /\ s.step = IF link = "unlinked" THEN "tell" ELSE "poll"
    BY <1>1, <2>1 DEF ThreadRecord
  <2>3. link \in {"unlinked", "waiting"}
    BY <1>1, <2>1 DEF Link
  <2> QED BY <1>1, <2>1, <2>2, <2>3
<1>3. CASE t \in Client /\ EnsurePolling(t)
  <2>1. /\ r.step = "poll" /\ r.doing = "upgrade" /\ t \in Client
        /\ UNCHANGED <<setting, link, published, status, relayTask, relay, told>>
    BY <1>3 DEF EnsurePolling, Fits
  <2>2. s = Idle /\ PollIsLive'
    <3>1. CASE PollIsLive
      <4>1. task' = [task EXCEPT ![t] = Idle] /\ UNCHANGED pollTask
        BY <1>3, <3>1 DEF EnsurePolling
      <4>2. s = Idle /\ t \notin Poll
        BY <1>1, <2>1, <4>1
      <4> QED BY <1>1, <3>1, <4>1, <4>2, StillLive DEF Idle
    <3>2. CASE ~PollIsLive
      <4>1. PICK p \in Poll :
              /\ pollTask' = p
              /\ task' = [task EXCEPT ![t] = Idle, ![p] = [Idle EXCEPT !.step = "ask"]]
        BY <1>3, <3>2 DEF EnsurePolling
      <4>2. p # t /\ p \in Thread /\ p # NoTask
        BY <2>1 DEF Thread
      <4>3. s = Idle /\ task'[p] = [Idle EXCEPT !.step = "ask"]
        BY <1>1, <4>1, <4>2
      <4>4. task'[pollTask'].step = "ask" /\ pollTask' # NoTask
        BY <4>1, <4>2, <4>3 DEF Idle
      <4> QED BY <4>3, <4>4 DEF PollIsLive
    <3> QED BY <3>1, <3>2
  <2>3. s.step = "idle" /\ s.doing = "none"
    BY <2>2 DEF Idle
  <2> QED BY <1>1, <2>1, <2>2, <2>3
<1>4. CASE t \in Poll /\ GiveUp(t)
  <2>1. r.step = "giveup" /\ r.doing = "none"
        /\ UNCHANGED <<setting, published, status, relayTask, relay, told>>
    BY <1>4 DEF GiveUp, Fits
  <2>2. CASE link = "waiting"
    <3>1. s = [r EXCEPT !.step = "tell", !.doing = "giveup"] /\ link' = "unlinked"
      BY <1>1, <1>4, <2>2 DEF GiveUp
    <3>2. s.step = "tell" /\ s.doing = "giveup"
      BY <1>1, <3>1 DEF ThreadRecord
    <3> QED BY <1>1, <2>1, <2>2, <3>1, <3>2
  <2>3. CASE link # "waiting"
    <3>1. s = Idle /\ link' = link
      BY <1>1, <1>4, <2>3 DEF GiveUp
    <3>2. s.step = "idle" /\ s.doing = "none"
      BY <3>1 DEF Idle
    <3> QED BY <1>1, <2>1, <2>3, <3>1, <3>2
  <2> QED BY <2>2, <2>3
<1> QED BY <1>2, <1>3, <1>4

\* Each step of a finalize sets one thing more.
LEMMA FinalizeSettles ==
    ASSUME TypeOK, NEW t \in Thread, Fits(t, task[t]), Settled(task[t]), inTurn',
           Save(t) \/ Publish(t) \/ Claim(t) \/ Dial(t)
    PROVE  Settled(task[t])'
<1> USE AccountAssumption
<1> DEFINE r == task[t]
           s == task'[t]
<1>1. /\ r \in ThreadRecord /\ task \in [Thread -> ThreadRecord]
      /\ setting \in [{"handle", "url"} -> Handle \union {NoHandle}]
  BY DEF TypeOK
<1>2. r.doing = "finalize" /\ r.handle \in Handle /\ Finalized(r)
  BY DEF Save, Publish, Claim, Dial, At, Fits, Finishing, Settled
<1> USE DEF At, Goto
<1>3. CASE Save(t)
  <2>1. /\ r.step = "save" /\ setting' = [setting EXCEPT ![r.key] = r.handle]
        /\ s = IF r.key = "handle" THEN [r EXCEPT !.key = "url"] ELSE [r EXCEPT !.step = "publish"]
    BY <1>1, <1>3 DEF Save
  <2>2. CASE r.key = "handle"
    <3>1. /\ s.step = "save" /\ s.key = "url" /\ s.handle = r.handle /\ s.doing = "finalize"
          /\ setting'["handle"] = r.handle
      BY <1>1, <1>2, <2>1, <2>2 DEF ThreadRecord
    <3> QED BY <3>1 DEF Settled, Finalized, Ending
  <2>3. CASE r.key = "url"
    <3>1. /\ s.step = "publish" /\ s.handle = r.handle /\ s.doing = "finalize"
          /\ setting'["handle"] = r.handle /\ setting'["url"] = r.handle
      BY <1>1, <1>2, <2>1, <2>3 DEF ThreadRecord, Finalized
    <3> QED BY <3>1 DEF Settled, Finalized, Ending, Stored
  <2> QED BY <1>1, <2>2, <2>3 DEF ThreadRecord
<1>4. CASE Publish(t)
  <2>1. r.step = "publish" /\ published' = r.handle /\ s = [r EXCEPT !.step = "claim"] /\ UNCHANGED setting
    BY <1>1, <1>4 DEF Publish
  <2>2. s.step = "claim" /\ s.handle = r.handle /\ s.doing = "finalize"
    BY <1>1, <1>2, <2>1 DEF ThreadRecord
  <2> QED BY <1>2, <2>1, <2>2 DEF Settled, Finalized, Ending, Stored
<1>5. CASE Claim(t)
  <2>1. /\ r.step = "claim" /\ link' = r.handle /\ s = [r EXCEPT !.step = "tell"]
        /\ UNCHANGED <<setting, published>>
    BY <1>1, <1>5 DEF Claim
  <2>2. s.step = "tell" /\ s.handle = r.handle /\ s.doing = "finalize"
    BY <1>1, <1>2, <2>1 DEF ThreadRecord
  <2> QED BY <1>2, <2>1, <2>2 DEF Settled, Finalized, Ending, Stored
<1>6. CASE Dial(t)
  <2>1. /\ r.step = "dial" /\ s = Idle /\ relayTask' # NoTask
        /\ UNCHANGED <<setting, link, published, status, told>>
    BY <1>1, <1>6 DEF Dial
  <2>2. s.step = "idle" /\ s.doing = "none"
    BY <2>1 DEF Idle
  <2>3. link = r.handle /\ link \in Handle /\ link # "waiting" /\ Stored(r.handle) /\ published = r.handle
        /\ told = link
    BY <1>2, <2>1 DEF Finalized, Ending
  <2> QED BY <2>1, <2>2, <2>3 DEF Settled, Agreed, Ending, Stored, Linked
<1> QED BY <1>3, <1>4, <1>5, <1>6

\* Each step of an unlink undoes one thing more.
LEMMA UnlinkSettles ==
    ASSUME TypeOK, NEW t \in Thread, Fits(t, task[t]), Settled(task[t]), inTurn',
           StopPoll(t) \/ StopRelay(t) \/ SayOff(t) \/ Clear(t) \/ Hide(t) \/ Disown(t)
    PROVE  Settled(task[t])'
<1> USE AccountAssumption
<1> DEFINE r == task[t]
           s == task'[t]
<1>1. /\ r \in ThreadRecord /\ task \in [Thread -> ThreadRecord]
      /\ setting \in [{"handle", "url"} -> Handle \union {NoHandle}]
  BY DEF TypeOK
<1>2. r.doing = "unlink" /\ Undone(r)
  BY DEF StopPoll, StopRelay, SayOff, Clear, Hide, Disown, At, Fits, Undoing, Settled
<1> USE DEF At, Goto
<1>3. CASE StopPoll(t)
  <2>1. r.step = "stop_poll" /\ s = [r EXCEPT !.step = "stop_relay"]
    BY <1>1, <1>3 DEF StopPoll
  <2>2. s.step = "stop_relay" /\ s.key = "handle" /\ s.doing = "unlink"
    BY <1>1, <1>2, <2>1 DEF ThreadRecord, Undone
  <2> QED BY <2>2 DEF Settled, Undone, Ending
<1>4. CASE StopRelay(t)
  <2>1. r.step = "stop_relay" /\ s = [r EXCEPT !.step = "say_off"] /\ relayTask' = NoTask
    BY <1>1, <1>4 DEF StopRelay
  <2>2. s.step = "say_off" /\ s.key = "handle" /\ s.doing = "unlink"
    BY <1>1, <1>2, <2>1 DEF ThreadRecord, Undone
  <2> QED BY <2>1, <2>2 DEF Settled, Undone, Ending
<1>5. CASE SayOff(t)
  <2>1. /\ r.step = "say_off" /\ s = [r EXCEPT !.step = "clear"] /\ status' = "off"
        /\ UNCHANGED <<relayTask, relay>> /\ \A q \in Relay : relay[q] # "busy"
    BY <1>1, <1>5 DEF SayOff
  <2>2. s.step = "clear" /\ s.key = "handle" /\ s.doing = "unlink" /\ relayTask = NoTask
    BY <1>1, <1>2, <2>1 DEF ThreadRecord, Undone
  <2> QED BY <2>1, <2>2 DEF Settled, Undone, Ending, Off
<1>6. CASE Clear(t)
  <2>1. /\ r.step = "clear" /\ setting' = [setting EXCEPT ![r.key] = NoHandle]
        /\ s = IF r.key = "handle" THEN [r EXCEPT !.key = "url"] ELSE [r EXCEPT !.step = "hide"]
        /\ UNCHANGED <<status, relay, relayTask>>
    BY <1>1, <1>6 DEF Clear
  <2>2. relayTask = NoTask /\ Off
    BY <1>2, <2>1 DEF Undone
  <2>3. CASE r.key = "handle"
    <3>1. s.step = "clear" /\ s.key = "url" /\ s.doing = "unlink" /\ setting'["handle"] = NoHandle
      BY <1>1, <1>2, <2>1, <2>3 DEF ThreadRecord
    <3> QED BY <2>1, <2>2, <3>1 DEF Settled, Undone, Ending, Off
  <2>4. CASE r.key = "url"
    <3>1. /\ s.step = "hide" /\ s.doing = "unlink"
          /\ setting'["handle"] = NoHandle /\ setting'["url"] = NoHandle
      BY <1>1, <1>2, <2>1, <2>4 DEF ThreadRecord, Undone
    <3> QED BY <2>1, <2>2, <3>1 DEF Settled, Undone, Ending, Off, Stored
  <2> QED BY <1>1, <2>3, <2>4 DEF ThreadRecord
<1>7. CASE Hide(t)
  <2>1. /\ r.step = "hide" /\ published' = NoHandle /\ s = [r EXCEPT !.step = "disown"]
        /\ UNCHANGED <<setting, status, relay, relayTask>>
    BY <1>1, <1>7 DEF Hide
  <2>2. s.step = "disown" /\ s.doing = "unlink"
    BY <1>1, <1>2, <2>1 DEF ThreadRecord
  <2> QED BY <1>2, <2>1, <2>2 DEF Settled, Undone, Ending, Off, Stored
<1>8. CASE Disown(t)
  <2>1. /\ r.step = "disown" /\ link' = "unlinked" /\ s = [r EXCEPT !.step = "tell"]
        /\ UNCHANGED <<setting, published, status, relay, relayTask>>
    BY <1>1, <1>8 DEF Disown
  <2>2. s.step = "tell" /\ s.doing = "unlink"
    BY <1>1, <1>2, <2>1 DEF ThreadRecord
  <2> QED BY <1>2, <2>1, <2>2 DEF Settled, Undone, Ending, Off, Stored
<1> QED BY <1>3, <1>4, <1>5, <1>6, <1>7, <1>8

\* What is announced is the link, as the thread that is alone at work has left it.
LEMMA TellSettles ==
    ASSUME AccountInv, NEW t \in Thread, Settled(task[t]), Tell(t) \/ Send(t)
    PROVE  Settled(task[t])'
<1> USE AccountAssumption
<1> DEFINE r == task[t]
           s == task'[t]
<1>1. /\ r \in ThreadRecord /\ task \in [Thread -> ThreadRecord] /\ TypeOK /\ Fits(t, r)
      /\ setting \in [{"handle", "url"} -> Handle \union {NoHandle}]
  BY DEF AccountInv, TypeOK, Fitting
<1>2. /\ UNCHANGED <<setting, link, published, status, pollTask, relayTask, relay>>
      /\ r.step \in Ending /\ r.doing \in {"upgrade", "finalize", "giveup", "unlink"}
      /\ task' = [task EXCEPT ![t] = s]
  <2>1. Moved(t)
    BY MoversFit DEF Mover
  <2> QED BY <1>1, <2>1 DEF Tell, Send, At, Fits, ThreadRecord, Ending, Moved
<1> USE DEF At, Goto
<1>3. CASE Tell(t)
  <2>1. r.step = "tell" /\ s = [r EXCEPT !.step = "send", !.said = link] /\ UNCHANGED told
    BY <1>1, <1>3 DEF Tell
  <2>2. s.step = "send" /\ s.said = link /\ s.doing = r.doing /\ s.handle = r.handle
    BY <1>1, <2>1 DEF ThreadRecord
  <2>3. PollIsLive => PollIsLive'
    BY <1>1, <1>2, <2>2, StillLive
  <2>4. CASE r.doing = "finalize"
    BY <1>2, <2>1, <2>2, <2>4 DEF Settled, Finalized, Ending, Stored
  <2>5. CASE r.doing = "unlink"
    BY <1>2, <2>1, <2>2, <2>5 DEF Settled, Undone, Ending, Stored, Off
  <2>6. CASE r.doing \in {"upgrade", "giveup"}
    BY <1>2, <2>1, <2>2, <2>3, <2>6 DEF Settled, Agreed, Ending, Stored, Off, Linked
  <2> QED BY <1>2, <2>4, <2>5, <2>6
<1>4. CASE Send(t)
  <2>1. r.step = "send" /\ told' = r.said /\ told' = link
    BY <1>1, <1>2, <1>4 DEF Send, Settled, Finalized, Undone, Agreed
  <2>2. CASE r.doing = "finalize"
    <3>1. s = [r EXCEPT !.step = "dial"]
      BY <1>1, <1>4, <2>2 DEF Send
    <3>2. s.step = "dial" /\ s.doing = "finalize" /\ s.handle = r.handle
      BY <1>1, <2>2, <3>1 DEF ThreadRecord
    <3> QED BY <1>2, <2>1, <2>2, <3>2 DEF Settled, Finalized, Ending, Stored
  <2>3. CASE r.doing = "upgrade"
    <3>1. s = [r EXCEPT !.step = "poll"]
      BY <1>1, <1>4, <2>3 DEF Send
    <3>2. s.step = "poll" /\ s.doing = "upgrade"
      BY <1>1, <2>3, <3>1 DEF ThreadRecord
    <3>3. Agreed(r) /\ link = "waiting"
      BY <1>2, <2>3 DEF Settled, Agreed
    <3> QED BY <1>2, <2>1, <2>3, <3>2, <3>3 DEF Settled, Agreed, Ending, Stored, Off, Linked
  <2>4. CASE r.doing \in {"giveup", "unlink"}
    <3>1. s = Idle
      BY <1>1, <1>4, <2>4 DEF Send
    <3>2. s.step = "idle" /\ s.doing = "none"
      BY <3>1 DEF Idle
    <3>3. link = "unlinked"
      BY <1>2, <2>4 DEF Settled, Undone, Agreed
    <3>4. CASE r.doing = "giveup"
      BY <1>2, <2>1, <3>2, <3>3, <3>4 DEF Settled, Agreed, Ending, Stored, Off, Linked
    <3>5. CASE r.doing = "unlink"
      <4>1. relayTask = NoTask /\ Off /\ Stored(NoHandle) /\ published = NoHandle
        BY <1>2, <3>5 DEF Settled, Undone
      <4> QED BY <1>2, <2>1, <3>2, <3>3, <4>1 DEF Settled, Agreed, Ending, Stored, Off, Linked
    <3> QED BY <2>4, <3>4, <3>5
  <2> QED BY <1>2, <2>2, <2>3, <2>4
<1> QED BY <1>3, <1>4

\* At the start all is as the settings say.
LEMMA TurnInvInit == Init => TurnInv
<1> SUFFICES ASSUME Init PROVE TurnInv
  OBVIOUS
<1> USE AccountAssumption
<1>1. PICK h \in Restored :
        /\ setting = [k \in {"handle", "url"} |-> h]
        /\ published = h
        /\ link = IF h \in Handle THEN h ELSE "unlinked"
        /\ \E r \in Relay :
             /\ relay = [x \in Relay |-> IF x = r /\ h \in Handle THEN "waiting" ELSE "none"]
             /\ relayTask = IF h \in Handle THEN r ELSE NoTask
        /\ task = [t \in Thread |->
             IF t = Verify /\ h \in Handle THEN [Idle EXCEPT !.step = "ask"] ELSE Idle]
  BY DEF Init
<1>2. \A t \in Thread : task[t].step \in {"idle", "ask"} /\ task[t].doing = "none"
  BY <1>1 DEF Idle
<1>3. \A t \in Thread : ~Works(t)
  BY <1>2 DEF Works, Awaits
<1>4. ASSUME NEW t \in Thread PROVE Settled(task[t])
  <2>1. told = link /\ status = "off" /\ link # "waiting" /\ \A q \in Relay : relay[q] # "busy"
    BY <1>1 DEF Init
  <2>2. published = Linked /\ Stored(published) /\ (link \in Handle <=> relayTask # NoTask)
    BY <1>1 DEF Linked, Stored
  <2> QED BY <1>2, <2>1, <2>2 DEF Settled, Agreed, Ending, Off
<1> QED BY <1>3, <1>4, AccountInvInit DEF TurnInv, InTurn

\* Whatever the crash interrupted, a start from settings that agree with each other shows,
\* publishes and dials what is stored.
LEMMA RestartSettles == ASSUME TurnInv, Restart PROVE TurnInv'
<1> USE AccountAssumption
<1>1. AccountInv' /\ setting["handle"] \in Handle \union {NoHandle}
  BY StartedFits DEF TurnInv, AccountInv, TypeOK
<1>2. SUFFICES ASSUME inTurn' PROVE TurnInv'
  BY <1>1 DEF TurnInv
<1>3. /\ published' = setting["handle"]
      /\ link' = IF setting["handle"] \in Handle THEN setting["handle"] ELSE "unlinked"
      /\ told' = link' /\ status' = "off" /\ setting' = setting
      /\ task' = [t \in Thread |-> IF t = Verify /\ setting["handle"] \in Handle
                                   THEN [Idle EXCEPT !.step = "ask"] ELSE Idle]
      /\ setting["url"] = setting["handle"]
  BY <1>2 DEF Restart, Started
<1>4. PICK r \in Relay :
         IF setting["url"] = NoHandle /\ setting["handle"] = NoHandle
         THEN relay' = [x \in Relay |-> "none"] /\ relayTask' = NoTask
         ELSE relay' = [x \in Relay |-> IF x = r THEN "waiting" ELSE "none"] /\ relayTask' = r
  BY DEF Restart, Started
<1>5. \A t \in Thread : task'[t].step \in {"idle", "ask"} /\ task'[t].doing = "none"
  BY <1>3 DEF Idle
<1>6. Settled(task[Verify])'
  <2>1. link' # "waiting" /\ \A q \in Relay : relay'[q] # "busy"
    BY <1>3, <1>4
  <2>2. published' = Linked' /\ Stored(published)'
    BY <1>1, <1>3 DEF Linked, Stored
  <2>3. link' \in Handle <=> relayTask' # NoTask
    BY <1>1, <1>3, <1>4
  <2>4. task'[Verify].step \in {"idle", "ask"} /\ task'[Verify].doing = "none"
    BY <1>5 DEF Thread
  <2> QED BY <1>3, <2>1, <2>2, <2>3, <2>4 DEF Settled, Agreed, Ending, Off
<1>7. Alone(Verify)'
  BY <1>5 DEF Alone, Works, Awaits
<1> QED BY <1>1, <1>6, <1>7, SettledForAll DEF Thread

\* A step of a thread that is alone at work leaves things as its record says.
LEMMA WorkSettles ==
    ASSUME TurnInv, AccountInv', NEW t \in Thread, Work(t)
    PROVE  TurnInv'
<1> SUFFICES ASSUME inTurn' PROVE TurnInv'
  BY DEF TurnInv
<1>1. AccountInv /\ TypeOK /\ Fits(t, task[t])
  BY DEF TurnInv, AccountInv, Fitting
<1>2. Works(t)
  BY DEF Work, Wait, EnsurePolling, GiveUp, Save, Publish, Claim, Dial, StopPoll, StopRelay, SayOff, Clear,
         Hide, Disown, Tell, Send, At, Works, Awaits
<1>3. inTurn
  <2>1. CASE inTurn' = inTurn
    BY <2>1
  <2>2. CASE Save(t) \/ Clear(t) \/ SayOff(t)
    BY <2>2 DEF Save, Clear, SayOff
  <2> QED BY <2>1, <2>2 DEF Work, Wait, EnsurePolling, GiveUp, Publish, Claim, Dial, StopPoll, StopRelay,
         Hide, Disown, Tell, Send, history
<1>4. Alone(t) /\ Settled(task[t])
  BY <1>2, <1>3 DEF TurnInv, InTurn, Alone
<1>5. Alone(t)'
  BY <1>1, <1>4, WorkLeavesOthers
<1>6. Settled(task[t])'
  BY <1>1, <1>4, PressSettles, FinalizeSettles, UnlinkSettles, TellSettles, Zenon DEF Work
<1> QED BY <1>5, <1>6, SettledForAll

\* A relay task at work is the current one, or has been told to stop before the status is set.
LEMMA RelaySettles ==
    ASSUME TurnInv, AccountInv', NEW r \in Relay, RelayWakes(r) \/ RelaySays(r)
    PROVE  TurnInv'
<1> USE AccountAssumption
<1> SUFFICES ASSUME inTurn PROVE InTurn'
  BY DEF TurnInv, RelayWakes, RelaySays, history
<1>1. /\ UNCHANGED <<setting, link, published, task, pollTask, relayTask, told>>
      /\ TypeOK /\ OneTunnel /\ InTurn
  BY DEF RelayWakes, RelaySays, TurnInv, AccountInv
<1>2. relayTask # NoTask \/ ~Off
  <2>1. CASE RelayWakes(r)
    BY <1>1, <2>1 DEF RelayWakes, OneTunnel
  <2>2. CASE RelaySays(r)
    BY <2>2 DEF RelaySays, Off
  <2> QED BY <2>1, <2>2
<1>3. \A u \in Thread : (Works(u)' <=> Works(u)) /\ (Alone(u)' <=> Alone(u))
  BY <1>1 DEF Works, Alone
<1>4. PollIsLive' <=> PollIsLive
  BY <1>1 DEF PollIsLive, At
<1>5. ASSUME NEW u \in Thread, Alone(u)' PROVE Settled(task[u])'
  <2>1. Settled(task[u]) /\ task'[u] = task[u]
    BY <1>1, <1>3, <1>5 DEF InTurn
  <2>2. CASE task[u].doing = "finalize"
    BY <1>1, <2>1, <2>2 DEF Settled, Finalized, Stored, Ending
  <2>3. CASE task[u].doing = "unlink"
    <3>1. ASSUME relayTask = NoTask PROVE \A q \in Relay : relay'[q] = "busy" => relay[q] = "busy"
      BY <1>1, <3>1 DEF RelayWakes, RelaySays, OneTunnel, TypeOK
    <3>2. task[u].step \notin {"clear", "hide", "disown"} \union Ending
      BY <1>2, <2>1, <2>3 DEF Settled, Undone
    <3> QED BY <1>1, <2>1, <2>3, <3>2 DEF Settled, Undone, Stored, Ending
  <2>4. CASE task[u].doing \notin {"finalize", "unlink"}
    <3>1. Agreed(task[u]) /\ relayTask # NoTask
      BY <1>2, <2>1, <2>4 DEF Settled, Agreed
    <3> QED BY <1>1, <1>4, <2>1, <2>4, <3>1 DEF Settled, Agreed, Stored, Linked, Ending
  <2> QED BY <2>2, <2>3, <2>4
<1> QED BY <1>1, <1>3, <1>5 DEF InTurn

\* No step parts what the owner is shown from what is done, but one that is remembered.
LEMMA TurnInvStep == ASSUME TurnInv, [Next]_vars PROVE TurnInv'
<1> USE AccountAssumption
<1>1. AccountInv /\ AccountInv' /\ TypeOK /\ task \in [Thread -> ThreadRecord]
  BY AccountInvStep DEF TurnInv, AccountInv, TypeOK
<1>2. ASSUME NEW t \in Thread, Work(t) PROVE TurnInv'
  BY <1>1, <1>2, WorkSettles
<1>3. ASSUME NEW t \in Thread, CloudAnswers(t) \/ (t \in Poll /\ Deadline(t)) PROVE TurnInv'
  <2>1. /\ UNCHANGED <<setting, link, published, status, pollTask, relayTask, relay, told, inTurn>>
        /\ task[t].step \in Asking /\ Mover(t)
    BY <1>3 DEF CloudAnswers, Deadline, At, Mover, Asking, history
  <2>2. task' = [task EXCEPT ![t] = task'[t]]
    BY <1>1, <2>1, MoversFit DEF Moved
  <2>3. task'[t].step \in {"ask", "answered"}
    <3>1. CASE CloudAnswers(t)
      <4>1. PICK a : task'[t] = [task[t] EXCEPT !.step = "answered", !.handle = a]
        BY <1>1, <3>1 DEF CloudAnswers
      <4> QED BY <1>1, <4>1 DEF ThreadRecord
    <3>2. CASE Deadline(t)
      <4>1. task[t].step = "ask" /\ task'[t] = [task[t] EXCEPT !.late = TRUE]
        BY <1>1, <3>2 DEF Deadline, At
      <4> QED BY <1>1, <4>1 DEF ThreadRecord
    <3> QED BY <1>3, <3>1, <3>2
  <2>4. task'[t].step \in Awaits /\ task'[t].step # "idle"
    BY <2>3 DEF Awaits
  <2> QED BY <1>1, <2>1, <2>2, <2>4, RestSettles
<1>4. ASSUME NEW c \in Client, BeginUpgrade(c) PROVE TurnInv'
  <2>1. /\ task[c].step = "idle" /\ link \notin Handle /\ Begins(FALSE)
        /\ UNCHANGED <<setting, link, published, status, pollTask, relayTask, relay, told>>
        /\ task' = [task EXCEPT ![c] = [Idle EXCEPT !.step = "wait", !.doing = "upgrade"]]
    BY <1>4 DEF BeginUpgrade, At
  <2>2. c \in Thread /\ ~Works(c)
    BY <2>1 DEF Thread, Works, Awaits
  <2>3. task' = [task EXCEPT ![c] = task'[c]] /\ task'[c].step = "wait"
    BY <1>1, <2>1, <2>2 DEF Idle
  <2> QED BY <1>1, <2>1, <2>2, <2>3, BeginSettles
<1>5. ASSUME NEW c \in Client, Unlink(c) PROVE TurnInv'
  <2>1. /\ task[c].step = "idle" /\ Begins(TRUE)
        /\ UNCHANGED <<setting, link, published, status, pollTask, relayTask, relay, told>>
        /\ task' = [task EXCEPT ![c] = Unlinking(c)]
    BY <1>5 DEF Unlink, At
  <2>2. c \in Thread /\ ~Works(c)
    BY <2>1 DEF Thread, Works, Awaits
  <2>3. /\ task' = [task EXCEPT ![c] = task'[c]] /\ task'[c].step = "stop_poll"
        /\ task'[c].key = "handle" /\ task'[c].doing = "unlink"
    BY <1>1, <2>1, <2>2 DEF Unlinking, ThreadRecord
  <2> QED BY <1>1, <2>1, <2>2, <2>3, BeginSettles
<1>6. ASSUME NEW p \in Poll, PollHears(p) PROVE TurnInv'
  <2>1. /\ p \in Thread /\ task[p].step = "answered"
        /\ UNCHANGED <<setting, link, published, status, pollTask, relayTask, relay, told>>
    BY <1>6 DEF PollHears, At, Thread
  <2>2. ~Works(p)
    BY <2>1 DEF Works, Awaits
  <2>3. CASE task[p].handle \in Handle
    <3>1. task' = [task EXCEPT ![p] = Finalizing(p)] /\ Begins(TRUE)
      BY <1>6, <2>3 DEF PollHears
    <3>2. /\ task' = [task EXCEPT ![p] = task'[p]] /\ task'[p].step = "save"
          /\ task'[p].key = "handle" /\ task'[p].doing = "finalize"
      BY <1>1, <2>1, <3>1 DEF Finalizing, ThreadRecord
    <3> QED BY <1>1, <2>1, <2>2, <3>1, <3>2, BeginSettles
  <2>4. CASE task[p].handle \notin Handle /\ task[p].late
    <3>1. task' = [task EXCEPT ![p].step = "giveup"] /\ Begins(FALSE)
      BY <1>6, <2>4 DEF PollHears, Goto
    <3>2. task' = [task EXCEPT ![p] = task'[p]] /\ task'[p].step = "giveup"
      BY <1>1, <2>1, <3>1 DEF ThreadRecord
    <3> QED BY <1>1, <2>1, <2>2, <3>1, <3>2, BeginSettles
  <2>5. CASE task[p].handle \notin Handle /\ ~task[p].late
    <3>1. task' = [task EXCEPT ![p].step = "ask"] /\ inTurn' = inTurn
      BY <1>6, <2>5 DEF PollHears, Goto, history
    <3>2. task' = [task EXCEPT ![p] = task'[p]] /\ task'[p].step = "ask"
      BY <1>1, <2>1, <3>1 DEF ThreadRecord
    <3> QED BY <1>1, <2>1, <3>1, <3>2, RestSettles DEF Asking, Awaits
  <2> QED BY <2>3, <2>4, <2>5
<1>7. ASSUME VerifyHears PROVE TurnInv'
  <2>1. /\ Verify \in Thread \ Poll /\ task[Verify].step = "answered"
        /\ UNCHANGED <<setting, link, published, status, pollTask, relayTask, relay, told>>
    BY <1>7 DEF VerifyHears, At, Thread
  <2>2. ~Works(Verify)
    BY <2>1 DEF Works, Awaits
  <2>3. CASE task' = [task EXCEPT ![Verify] = Idle] /\ inTurn' = inTurn
    <3>1. task' = [task EXCEPT ![Verify] = task'[Verify]] /\ task'[Verify].step = "idle"
      BY <1>1, <2>1, <2>3 DEF Idle
    <3> QED BY <1>1, <2>1, <2>3, <3>1, RestSettles DEF Asking, Awaits
  <2>4. CASE /\ \/ task' = [task EXCEPT ![Verify] = Finalizing(Verify)]
                \/ task' = [task EXCEPT ![Verify] = Unlinking(Verify)]
             /\ Begins(TRUE)
    <3>1. /\ task' = [task EXCEPT ![Verify] = task'[Verify]]
          /\ task'[Verify].step \in {"save", "stop_poll"} /\ task'[Verify].key = "handle"
          /\ task'[Verify].doing \in {"finalize", "unlink"}
      <4>1. CASE task' = [task EXCEPT ![Verify] = Finalizing(Verify)]
        BY <1>1, <2>1, <4>1 DEF Finalizing, ThreadRecord
      <4>2. CASE task' = [task EXCEPT ![Verify] = Unlinking(Verify)]
        BY <1>1, <2>1, <4>2 DEF Unlinking, ThreadRecord
      <4> QED BY <2>4, <4>1, <4>2
    <3>2. task'[Verify].step # "idle"
      BY <3>1
    <3> QED BY <1>1, <2>1, <2>2, <2>4, <3>1, <3>2, BeginSettles
  <2> QED BY <1>7, <2>3, <2>4 DEF VerifyHears, history
<1>8. ASSUME NEW r \in Relay, RelayWakes(r) \/ RelaySays(r) PROVE TurnInv'
  BY <1>1, <1>8, RelaySettles
<1>9. ASSUME CloudChanges \/ UNCHANGED vars PROVE TurnInv'
  <2>1. UNCHANGED <<setting, link, published, status, task, pollTask, relayTask, relay, told, inTurn>>
    BY <1>9 DEF CloudChanges, vars, history
  <2> QED BY <1>1, <2>1 DEF TurnInv, InTurn, Works, Alone, Settled, Finalized, Undone, Agreed, Stored, Off,
                            Linked, PollIsLive, At, Ending
<1>10. CASE Restart
  BY <1>10, RestartSettles
<1>11. ASSUME NEW t \in Thread, Step(t) PROVE TurnInv'
  <2>1. Work(t) \/ (t \in Poll /\ PollHears(t)) \/ (t = Verify /\ VerifyHears)
    BY <1>11, Zenon DEF Step, Work
  <2> QED BY <1>2, <1>6, <1>7, <2>1
<1>12. ASSUME NEW p \in Poll, Deadline(p) PROVE TurnInv'
  BY <1>3, <1>12 DEF Thread
<1> QED BY <1>3, <1>4, <1>5, <1>8, <1>9, <1>10, <1>11, <1>12 DEF Next, Command

\* unlink and finalize move the settings, the library, the link and the relay one by one.
\* With any number of worker threads, writes that fail and crashes: when nothing is at work,
\* what the owner is shown is what is stored, published, announced and dialled, if the last
\* to set it all, and what came after, were each alone at work.
THEOREM SaidIsAlwaysDone == Spec => []SaidIsDone
<1>1. Init => TurnInv
  BY TurnInvInit
<1>2. TurnInv /\ [Next]_vars => TurnInv'
  BY TurnInvStep
<1>3. TurnInv => SaidIsDone
  <2> SUFFICES ASSUME TurnInv, Quiet, inTurn PROVE SaidIsDone
    BY DEF SaidIsDone
  <2>1. \A t \in Thread : task[t].step \in Awaits
    BY DEF Quiet, Busy, Working
  <2>2. Settled(task[Verify]) /\ task[Verify].step \in Awaits /\ Fits(Verify, task[Verify])
    BY <2>1 DEF TurnInv, InTurn, Alone, Works, Thread, AccountInv, Fitting
  <2>3. Agreed(task[Verify]) /\ task[Verify].doing = "none"
    BY <2>2 DEF Settled, Fits, Awaits, Asking
  <2>4. setting = [key \in {"handle", "url"} |-> published]
    <3>1. setting \in [{"handle", "url"} -> Handle \union {NoHandle}]
      BY DEF TurnInv, AccountInv, TypeOK
    <3> QED BY <2>3, <3>1 DEF Agreed, Stored
  <2> QED BY <2>2, <2>3, <2>4 DEF SaidIsDone, Agreed, Off, Linked, Awaits, Ending
<1> QED BY <1>1, <1>2, <1>3, PTL DEF Spec
=============================================================================
