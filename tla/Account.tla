------------------------------- MODULE Account -------------------------------
(***************************************************************************)
(* Linking this install to an account.  The checkout happens in a browser;  *)
(* the daemon polls the cloud until it says which handle the install has,   *)
(* then stores the handle, publishes under it and dials the relay.          *)
(*                                                                         *)
(* Socket clients, the poll, the check made at start and the relay task all *)
(* run on one runtime with several worker threads.  Each guards a piece of  *)
(* state of its own with a lock or an SQL statement; nothing guards them    *)
(* together.  A task that is aborted stops at its next await, not before.   *)
(*                                                                         *)
(* The domain is stored, cleared and published with the handle.  The        *)
(* environment overrides are unset, and the install has its key.            *)
(***************************************************************************)
EXTENDS Naturals, FiniteSets

CONSTANTS Client,       \* socket clients
          Poll,         \* places for poll tasks
          Verify,       \* the task that checks a restored link
          Relay,        \* places for relay tasks
          Handle,
          Restored,     \* what the settings may hold at the first start
          Workers,      \* worker threads of the runtime
          MayFail,      \* whether writing a setting may fail
          MaxChanges,   \* bound: commands and changes of mind of the cloud
          MaxRestarts,  \* bound
          NoHandle,     \* an empty setting, a cloud that knows no link
          NoAnswer,     \* a timeout, a 500, a page that does not parse
          NoTask

ASSUME AccountAssumption ==
    /\ Restored \subseteq Handle \union {NoHandle}
    /\ Workers \in Nat \ {0}
    /\ MayFail \in BOOLEAN
    /\ MaxChanges \in Nat /\ MaxRestarts \in Nat
    /\ {NoHandle, NoAnswer, "unlinked", "waiting"} \intersect Handle = {}
    /\ {NoHandle, NoAnswer} \intersect {"unlinked", "waiting"} = {}
    /\ NoHandle # NoAnswer
    /\ NoTask \notin Poll \union Relay
    /\ Verify \notin Client \union Poll
    /\ Client \intersect Poll = {}
    /\ Relay \intersect (Client \union Poll \union {Verify}) = {}
    /\ IsFiniteSet(Client) /\ IsFiniteSet(Poll) /\ IsFiniteSet(Relay)

Thread == Client \union Poll \union {Verify}
Link   == {"unlinked", "waiting"} \union Handle

VARIABLES cloud,      \* the handle the accounts API gives this install
          setting,    \* relay.handle and relay.url in the store
          link,       \* the account state the owner is shown
          published,  \* the library's relay identity
          status,     \* the relay status the owner is shown
          task,       \* what each thread is doing
          pollTask, relayTask,   \* the handles kept of the two tasks
          relay,      \* each relay task: none, at an await, or between two
          told,       \* the last account_changed event
          changes, restarts,
          unlinked,   \* history: the owner unlinked and has not begun again
          missed,     \* history: the poll the owner was left to had done its part
          inTurn      \* history: one at a time, every write made and every status
                      \* the last, since a finalize, an unlink or a start

history == <<unlinked, missed, inTurn>>

vars == <<cloud, setting, link, published, status, task, pollTask, relayTask,
          relay, told, changes, restarts, history>>

Idle == [step |-> "idle", doing |-> "none", key |-> "handle", handle |-> NoHandle,
         said |-> "unlinked", late |-> FALSE]

\* Steps at which a thread is at an await, or has nothing to do.
Awaits == {"idle", "ask", "answered"}

Working == {t \in Thread : task[t].step \notin Awaits}
Busy == Working \union {r \in Relay : relay[r] = "busy"}
CanRun(t) == Cardinality(Busy \ {t}) < Workers

\* Manager::start, from what the store holds.
Started(s) ==
    /\ published' = s["handle"]
    /\ link' = IF s["handle"] \in Handle THEN s["handle"] ELSE "unlinked"
    /\ told' = link'
    /\ \E r \in Relay :
         IF s["url"] = NoHandle /\ s["handle"] = NoHandle
         THEN relay' = [x \in Relay |-> "none"] /\ relayTask' = NoTask
         ELSE relay' = [x \in Relay |-> IF x = r THEN "waiting" ELSE "none"] /\ relayTask' = r
    /\ task' = [t \in Thread |->
         IF t = Verify /\ s["handle"] \in Handle THEN [Idle EXCEPT !.step = "ask"] ELSE Idle]
    /\ pollTask' = NoTask
    /\ status' = "off"
    /\ unlinked' = FALSE /\ missed' = FALSE
    /\ inTurn' = (s["url"] = s["handle"])

Init ==
    /\ cloud \in Handle \union {NoHandle}
    /\ \E h \in Restored :
         /\ setting = [k \in {"handle", "url"} |-> h]
         /\ published = h
         /\ link = IF h \in Handle THEN h ELSE "unlinked"
         /\ \E r \in Relay :
              /\ relay = [x \in Relay |-> IF x = r /\ h \in Handle THEN "waiting" ELSE "none"]
              /\ relayTask = IF h \in Handle THEN r ELSE NoTask
         /\ task = [t \in Thread |->
              IF t = Verify /\ h \in Handle THEN [Idle EXCEPT !.step = "ask"] ELSE Idle]
    /\ told = link
    /\ pollTask = NoTask
    /\ status = "off"
    /\ changes = 0 /\ restarts = 0
    /\ unlinked = FALSE /\ missed = FALSE /\ inTurn = TRUE

At(t, step) == task[t].step = step
Goto(t, step) == task' = [task EXCEPT ![t].step = step]
Spend == changes < MaxChanges /\ changes' = changes + 1
Keep == UNCHANGED <<cloud, changes, restarts>>

\* A thread begins; a finalize or an unlink sets everything afresh.
Begins(afresh) == inTurn' = (Working = {} /\ (afresh \/ inTurn)) /\ UNCHANGED <<unlinked, missed>>

-----------------------------------------------------------------------------
(* begin_upgrade.                                                          *)

PollIsLive == pollTask # NoTask /\ ~At(pollTask, "idle")

\* A linked install is refused and nothing changes.
BeginUpgrade(c) ==
    /\ At(c, "idle")
    /\ CanRun(c)
    /\ link \notin Handle
    /\ Spend
    /\ task' = [task EXCEPT ![c] = [Idle EXCEPT !.step = "wait", !.doing = "upgrade"]]
    /\ Begins(FALSE)
    /\ UNCHANGED <<cloud, setting, link, published, status, pollTask, relayTask, relay,
                   told, restarts>>

Wait(c) ==
    /\ At(c, "wait")
    /\ link' = "waiting"
    /\ unlinked' = FALSE /\ UNCHANGED <<missed, inTurn>>
    /\ Goto(c, IF link = "unlinked" THEN "tell" ELSE "poll")
    /\ UNCHANGED <<setting, published, status, pollTask, relayTask, relay, told>> /\ Keep

\* "Keep exactly one poll running".  One that has answered the owner and is only to
\* announce it, or to dial, is live too.
EnsurePolling(c) ==
    /\ At(c, "poll")
    /\ IF PollIsLive
       THEN /\ task' = [task EXCEPT ![c] = Idle]
            /\ missed' = (task[pollTask].step \in {"tell", "send", "dial"})
            /\ UNCHANGED pollTask
       ELSE \E p \in Poll :
              /\ At(p, "idle")
              /\ pollTask' = p
              /\ task' = [task EXCEPT ![c] = Idle, ![p] = [Idle EXCEPT !.step = "ask"]]
              /\ missed' = FALSE
    /\ UNCHANGED <<setting, link, published, status, relayTask, relay, told, unlinked, inTurn>>
    /\ Keep

-----------------------------------------------------------------------------
(* Asking the cloud.                                                       *)

\* The answer, as of when the cloud made it; linked without a usable handle is
\* no answer.
CloudAnswers(t) ==
    /\ At(t, "ask")
    /\ \E answer \in {cloud, NoAnswer} :
         task' = [task EXCEPT ![t] = [@ EXCEPT !.step = "answered", !.handle = answer]]
    /\ UNCHANGED <<setting, link, published, status, pollTask, relayTask, relay, told,
                   history>> /\ Keep

Deadline(p) ==
    /\ At(p, "ask") /\ ~task[p].late
    /\ task' = [task EXCEPT ![p].late = TRUE]
    /\ UNCHANGED <<setting, link, published, status, pollTask, relayTask, relay, told,
                   history>> /\ Keep

Finalizing(t) == [task[t] EXCEPT !.step = "save", !.doing = "finalize", !.key = "handle"]

\* Faulty variant: an answer that says nothing is published too.
PollHearsAnything(p) ==
    /\ At(p, "answered") /\ CanRun(p)
    /\ task' = [task EXCEPT ![p] = Finalizing(p)]
    /\ Begins(TRUE)
    /\ UNCHANGED <<setting, link, published, status, pollTask, relayTask, relay, told>> /\ Keep

\* Faulty variant: the poll never gives up.
PollHearsForever(p) ==
    /\ At(p, "answered") /\ CanRun(p)
    /\ IF task[p].handle \in Handle
       THEN task' = [task EXCEPT ![p] = Finalizing(p)] /\ Begins(TRUE)
       ELSE Goto(p, "ask") /\ UNCHANGED history
    /\ UNCHANGED <<setting, link, published, status, pollTask, relayTask, relay, told>> /\ Keep

\* The poll: anything but a usable handle is a reason to ask again, or to give up.
PollHears(p) ==
    /\ At(p, "answered") /\ CanRun(p)
    /\ CASE task[p].handle \in Handle ->
              task' = [task EXCEPT ![p] = Finalizing(p)] /\ Begins(TRUE)
         [] task[p].handle \notin Handle /\ task[p].late ->
              Goto(p, "giveup") /\ Begins(FALSE)
         [] OTHER -> Goto(p, "ask") /\ UNCHANGED history
    /\ UNCHANGED <<setting, link, published, status, pollTask, relayTask, relay, told>> /\ Keep

GiveUp(p) ==
    /\ At(p, "giveup")
    /\ IF link = "waiting"
       THEN /\ link' = "unlinked"
            /\ task' = [task EXCEPT ![p] = [@ EXCEPT !.step = "tell", !.doing = "giveup"]]
       ELSE task' = [task EXCEPT ![p] = Idle] /\ UNCHANGED link
    /\ UNCHANGED <<setting, published, status, pollTask, relayTask, relay, told, history>>
    /\ Keep

Unlinking(t) == [task[t] EXCEPT !.step = "stop_poll", !.doing = "unlink", !.key = "handle"]

\* Faulty variant: no answer counts as not linked.
VerifyHearsSilence ==
    /\ At(Verify, "answered") /\ CanRun(Verify)
    /\ LET answer == task[Verify].handle IN
       CASE answer \in {NoHandle, NoAnswer} ->
              task' = [task EXCEPT ![Verify] = Unlinking(Verify)] /\ Begins(TRUE)
         [] answer = link ->
              task' = [task EXCEPT ![Verify] = Idle] /\ UNCHANGED history
         [] OTHER ->
              task' = [task EXCEPT ![Verify] = Finalizing(Verify)] /\ Begins(TRUE)
    /\ UNCHANGED <<setting, link, published, status, pollTask, relayTask, relay, told>> /\ Keep

\* The check at start: only a definite negative unlinks, and a handle that has
\* moved is taken over.
VerifyHears ==
    /\ At(Verify, "answered") /\ CanRun(Verify)
    /\ LET answer == task[Verify].handle IN
       CASE answer = NoHandle ->
              task' = [task EXCEPT ![Verify] = Unlinking(Verify)] /\ Begins(TRUE)
         [] answer \in {NoAnswer, link} ->
              task' = [task EXCEPT ![Verify] = Idle] /\ UNCHANGED history
         [] OTHER ->
              task' = [task EXCEPT ![Verify] = Finalizing(Verify)] /\ Begins(TRUE)
    /\ UNCHANGED <<setting, link, published, status, pollTask, relayTask, relay, told>> /\ Keep

-----------------------------------------------------------------------------
(* finalize.                                                               *)

Writes == IF MayFail THEN BOOLEAN ELSE {TRUE}

Save(t) ==
    /\ At(t, "save")
    /\ \E written \in Writes :
         /\ setting' = IF written THEN [setting EXCEPT ![task[t].key] = task[t].handle] ELSE setting
         /\ inTurn' = (inTurn /\ written)
    /\ task' = [task EXCEPT ![t] =
         IF @.key = "handle" THEN [@ EXCEPT !.key = "url"] ELSE [@ EXCEPT !.step = "publish"]]
    /\ UNCHANGED <<link, published, status, pollTask, relayTask, relay, told, unlinked, missed>>
    /\ Keep

Publish(t) ==
    /\ At(t, "publish")
    /\ published' = task[t].handle
    /\ Goto(t, "claim")
    /\ UNCHANGED <<setting, link, status, pollTask, relayTask, relay, told, history>> /\ Keep

Claim(t) ==
    /\ At(t, "claim")
    /\ link' = task[t].handle
    /\ Goto(t, "tell")
    /\ UNCHANGED <<setting, published, status, pollTask, relayTask, relay, told, history>>
    /\ Keep

\* A task whose handle is dropped with abort is gone at once if it is at an
\* await; otherwise it runs on to the next one.
Aborted == IF relayTask # NoTask /\ relay[relayTask] = "waiting"
           THEN [relay EXCEPT ![relayTask] = "none"] ELSE relay

\* Faulty variant: the earlier relay task is left running.
DialBeside(t) ==
    /\ At(t, "dial")
    /\ \E r \in Relay :
         /\ relay[r] = "none"
         /\ relay' = [relay EXCEPT ![r] = "waiting"]
         /\ relayTask' = r
    /\ task' = [task EXCEPT ![t] = Idle]
    /\ UNCHANGED <<setting, link, published, status, pollTask, told, history>> /\ Keep

\* spawn_relay: "replacing any earlier task rather than racing it".
Dial(t) ==
    /\ At(t, "dial")
    /\ \E r \in Relay :
         /\ Aborted[r] = "none"
         /\ relay' = [Aborted EXCEPT ![r] = "waiting"]
         /\ relayTask' = r
    /\ task' = [task EXCEPT ![t] = Idle]
    /\ UNCHANGED <<setting, link, published, status, pollTask, told, history>> /\ Keep

-----------------------------------------------------------------------------
(* unlink, for the owner or for the check at start.                        *)

Unlink(c) ==
    /\ At(c, "idle") /\ CanRun(c)
    /\ Spend
    /\ task' = [task EXCEPT ![c] = Unlinking(c)]
    /\ Begins(TRUE)
    /\ UNCHANGED <<cloud, setting, link, published, status, pollTask, relayTask, relay,
                   told, restarts>>

StopPoll(t) ==
    /\ At(t, "stop_poll")
    /\ task' = [u \in Thread |->
         IF u = t THEN [task[t] EXCEPT !.step = "stop_relay"]
         ELSE IF u = pollTask /\ task[u].step \in Awaits THEN Idle
         ELSE task[u]]
    /\ pollTask' = NoTask
    /\ UNCHANGED <<setting, link, published, status, relayTask, relay, told, history>> /\ Keep

StopRelay(t) ==
    /\ At(t, "stop_relay")
    /\ relay' = Aborted
    /\ relayTask' = NoTask
    /\ Goto(t, "say_off")
    /\ UNCHANGED <<setting, link, published, status, pollTask, told, history>> /\ Keep

\* "The tunnel is gone the moment the task is; saying so is not optional."
SayOff(t) ==
    /\ At(t, "say_off")
    /\ status' = "off"
    /\ inTurn' = (inTurn /\ \A r \in Relay : relay[r] # "busy")
    /\ Goto(t, "clear")
    /\ UNCHANGED <<setting, link, published, pollTask, relayTask, relay, told, unlinked, missed>>
    /\ Keep

Clear(t) ==
    /\ At(t, "clear")
    /\ \E written \in Writes :
         /\ setting' = IF written THEN [setting EXCEPT ![task[t].key] = NoHandle] ELSE setting
         /\ inTurn' = (inTurn /\ written)
    /\ task' = [task EXCEPT ![t] =
         IF @.key = "handle" THEN [@ EXCEPT !.key = "url"] ELSE [@ EXCEPT !.step = "hide"]]
    /\ UNCHANGED <<link, published, status, pollTask, relayTask, relay, told, unlinked, missed>>
    /\ Keep

\* Faulty variant: the library keeps the identity.
HideNever(t) ==
    /\ At(t, "hide")
    /\ Goto(t, "disown")
    /\ UNCHANGED <<setting, link, published, status, pollTask, relayTask, relay, told,
                   history>> /\ Keep

Hide(t) ==
    /\ At(t, "hide")
    /\ published' = NoHandle
    /\ Goto(t, "disown")
    /\ UNCHANGED <<setting, link, status, pollTask, relayTask, relay, told, history>> /\ Keep

Disown(t) ==
    /\ At(t, "disown")
    /\ link' = "unlinked"
    /\ Goto(t, "tell")
    /\ UNCHANGED <<setting, published, status, pollTask, relayTask, relay, told, history>>
    /\ Keep

-----------------------------------------------------------------------------
(* announce: the state is read under its lock, then sent.                  *)

Tell(t) ==
    /\ At(t, "tell")
    /\ task' = [task EXCEPT ![t] = [@ EXCEPT !.step = "send", !.said = link]]
    /\ UNCHANGED <<setting, link, published, status, pollTask, relayTask, relay, told,
                   history>> /\ Keep

Send(t) ==
    /\ At(t, "send")
    /\ told' = task[t].said
    /\ task' = [task EXCEPT ![t] =
         CASE @.doing = "finalize" -> [@ EXCEPT !.step = "dial"]
           [] @.doing = "upgrade"  -> [@ EXCEPT !.step = "poll"]
           [] OTHER                -> Idle]
    /\ unlinked' = (unlinked \/ (t \in Client /\ task[t].doing = "unlink"))
    /\ UNCHANGED <<setting, link, published, status, pollTask, relayTask, relay, missed, inTurn>>
    /\ Keep

-----------------------------------------------------------------------------
(* The relay task, and everything outside the daemon.                      *)

RelayWakes(r) ==
    /\ relay[r] = "waiting"
    /\ CanRun(r)
    /\ relay' = [relay EXCEPT ![r] = "busy"]
    /\ UNCHANGED <<setting, link, published, status, task, pollTask, relayTask, told, history>>
    /\ Keep

\* It says how it is doing, and gets to an await.
RelaySays(r) ==
    /\ relay[r] = "busy"
    /\ status' = "on"
    /\ relay' = [relay EXCEPT ![r] = IF relayTask = r THEN "waiting" ELSE "none"]
    /\ UNCHANGED <<setting, link, published, task, pollTask, relayTask, told, history>> /\ Keep

CloudChanges ==
    /\ Spend
    /\ cloud' \in (Handle \union {NoHandle}) \ {cloud}
    /\ UNCHANGED <<setting, link, published, status, task, pollTask, relayTask, relay,
                   told, restarts, history>>

\* A crash, or the machine going off, and the next start.
Restart ==
    /\ restarts < MaxRestarts /\ restarts' = restarts + 1
    /\ Started(setting)
    /\ UNCHANGED <<cloud, setting, changes>>

-----------------------------------------------------------------------------
Command(c) == BeginUpgrade(c) \/ Unlink(c)

Step(t) ==
    \/ t \in Client /\ (Wait(t) \/ EnsurePolling(t))
    \/ t \in Poll /\ (PollHears(t) \/ GiveUp(t))
    \/ t = Verify /\ VerifyHears
    \/ Save(t) \/ Publish(t) \/ Claim(t) \/ Dial(t)
    \/ StopPoll(t) \/ StopRelay(t) \/ SayOff(t) \/ Clear(t) \/ Hide(t) \/ Disown(t)
    \/ Tell(t) \/ Send(t)

Next ==
    \/ \E c \in Client : Command(c)
    \/ \E t \in Thread : Step(t) \/ CloudAnswers(t)
    \/ \E p \in Poll : Deadline(p)
    \/ \E r \in Relay : RelayWakes(r) \/ RelaySays(r)
    \/ CloudChanges
    \/ Restart

Spec == Init /\ [][Next]_vars

\* The runtime queues what can run and gets to it, a request is answered or times out, and the
\* half hour passes.
Fairness ==
    /\ \A t \in Thread : SF_vars(Step(t)) /\ WF_vars(CloudAnswers(t))
    /\ \A p \in Poll : SF_vars(Deadline(p))
    /\ \A r \in Relay : WF_vars(RelaySays(r))

FairSpec == Spec /\ Fairness

-----------------------------------------------------------------------------
(* Properties.                                                             *)

ThreadRecord ==
    [step : Awaits \union {"wait", "poll", "giveup", "save", "publish", "claim", "dial",
                           "stop_poll", "stop_relay", "say_off", "clear", "hide", "disown",
                           "tell", "send"},
     doing : {"none", "upgrade", "finalize", "giveup", "unlink"},
     key : {"handle", "url"}, handle : Handle \union {NoHandle, NoAnswer},
     said : Link, late : BOOLEAN]

TypeOK ==
    /\ cloud \in Handle \union {NoHandle}
    /\ setting \in [{"handle", "url"} -> Handle \union {NoHandle}]
    /\ link \in Link /\ told \in Link
    /\ published \in Handle \union {NoHandle}
    /\ status \in {"off", "on"}
    /\ task \in [Thread -> ThreadRecord]
    /\ pollTask \in Poll \union {NoTask}
    /\ relayTask \in Relay \union {NoTask}
    /\ relay \in [Relay -> {"none", "waiting", "busy"}]
    /\ changes \in 0 .. MaxChanges /\ restarts \in 0 .. MaxRestarts
    /\ unlinked \in BOOLEAN /\ missed \in BOOLEAN /\ inTurn \in BOOLEAN

Quiet == Busy = {}

\* spawn_relay: "two connections presenting one install key means the edge
\* supersedes one of them, and which one wins would be a coin toss".  A relay task
\* that is not the current one has no further await to come.
OneTunnel == \A r \in Relay : relay[r] = "waiting" => r = relayTask

\* ensure_polling: "Keep exactly one poll running".  A poll that is not the current
\* one asks nothing more of the cloud.
OnePoll == \A p \in Poll : task[p].step \in {"ask", "answered"} => p = pollTask

\* unlink and finalize move the settings, the library, the status and the link
\* one by one.  Once nothing is at work, what the owner is shown is what is
\* published, stored, announced and dialled, if the last finalize, unlink or start
\* and all that came after it were each alone at work and every write was made.
\* It does not matter what raced, failed or crashed before that.
SaidIsDone ==
    Quiet /\ inTurn =>
        /\ published = IF link \in Handle THEN link ELSE NoHandle
        /\ setting = [key \in {"handle", "url"} |-> published]
        /\ told = link
        /\ link \in Handle <=> relayTask # NoTask
        /\ link = "waiting" => PollIsLive
        /\ relayTask = NoTask => status = "off"

\* begin_upgrade: the owner is not left waiting on a poll that nobody makes, unless
\* the poll that was found running had done its part.
WaitingEnds == link = "waiting" ~> link # "waiting" \/ missed

\* At a step of an unlink that is the owner's, or that an answer of no began.
Rightly(step) == \E t \in Thread : At(t, step) /\ (t \in Client \/ task[t].handle = NoHandle)

\* verify_link: "Only a definite negative unlinks".  While the daemon runs, the link,
\* the published identity, a stored setting and the tunnel are each lost to the
\* owner's unlink, or to an answer that said there is none: never to silence, to a
\* poll that gives up or to an answer about another handle.  The one exception is
\* the owner's own press, if it looked before the link landed (LinkIsKept).
OnlyANoUnlinks ==
    [][restarts' = restarts =>
         /\ link \in Handle /\ link' \notin Handle =>
              Rightly("disown") \/ (link' = "waiting" /\ \E c \in Client : At(c, "wait"))
         /\ published \in Handle /\ published' = NoHandle => Rightly("hide")
         /\ (\E key \in {"handle", "url"} : setting[key] \in Handle /\ setting'[key] = NoHandle)
              => Rightly("clear")
         /\ relayTask # NoTask /\ relayTask' = NoTask => Rightly("stop_relay")]_vars

\* begin_upgrade: a linked install is refused, and "Only a definite negative unlinks".
LinkIsKept ==
    [][(link \in Handle /\ link' \notin Handle /\ restarts' = restarts) => Rightly("disown")]_vars

\* unlink: "What this must do today is stop publishing and stop claiming to", and
\* stay stopped until the owner begins again.
UnlinkSticks == unlinked /\ Quiet => link \notin Handle /\ published = NoHandle

\* unlink: "The tunnel is gone the moment the task is; saying so is not optional."
TunnelGoneIsSaid == Quiet /\ relayTask = NoTask => status = "off"

\* unlink: "What this must do today is stop publishing and stop claiming to", through a
\* crash or a setting that could not be cleared.
UnlinkedIsNotDialled == Quiet /\ link = "unlinked" => relayTask = NoTask

\* begin_upgrade: "answer with the page to open, and begin asking the cloud".
WaitingIsAsked == Quiet /\ link = "waiting" => PollIsLive

\* However the owner's clicks, the polls and the check at startup fall, one tunnel and one
\* poll at most are at work for the account.
OnlyOne == TypeOK /\ OneTunnel /\ OnePoll
=============================================================================
