------------------------------ MODULE IdleWork ------------------------------
(***************************************************************************)
(* What Nami does when nobody talks to her: the research queue with the   *)
(* CuriosityModule that drains it, and the DreamModule that must stay out *)
(* of its way.  Both are ticked by the heartbeat, both run behind the     *)
(* global AI lock (module AiLock proves that one turn holds it).          *)
(*                                                                         *)
(* The queue is a table of SQLite and survives a crash; tasks and the     *)
(* lock do not.  What the research agent does with its tools is free: it  *)
(* may start, complete or fail any topic in any order, twice or never; a  *)
(* session or a dream whose tool hangs never ends.                        *)
(*                                                                         *)
(* Any statement on the tables may fail (the database is shared and may   *)
(* be locked).  The code catches each of these failures and goes on, so   *)
(* they are outcomes here and not faults: MaxDbErrors bounds their number. *)
(***************************************************************************)
EXTENDS Naturals, FiniteSets

CONSTANTS
    Topics,             \* the topics that may ever be queued
    RetryLimit,         \* retry_max_attempts
    DailyCap,           \* max_daily_sessions
    DiscoveryMax,       \* discovery_max_topics
    MaxIdleCrashes,     \* bound: crashes of the process
    MaxDbErrors         \* bound: statements on the tables that fail

ASSUME IdleAssumption ==
    /\ RetryLimit \in Nat /\ DailyCap \in Nat \ {0}
    /\ DiscoveryMax \in Nat \ {0} /\ MaxIdleCrashes \in Nat /\ MaxDbErrors \in Nat

VARIABLES
    topicState,     \* research_queue.status; "absent" before the insert
    retryCount,     \* research_queue.retry_count
    backedOff,      \* the topics whose next_retry_at has passed
    sessionsToday,  \* curiosity_state.sessions_today
    sessionDate,    \* curiosity_state.session_date: "today" or "earlier"
    curiosity,      \* CuriosityModule._active_task: what it is doing
    dream,          \* DreamModule._active_dream
    turn,           \* who holds the AI lock
    orphans,        \* the topics left in_progress by a crash or a failing reset
    idleCrashes,
    dbErrors

queueVars == <<topicState, retryCount, backedOff>>
idleVars  == <<queueVars, sessionsToday, sessionDate, curiosity, dream, turn,
               orphans, idleCrashes, dbErrors>>

InState(s) == {t \in Topics : topicState[t] = s}
Queued     == Topics \ InState("absent")

SetState(S, s) == [t \in Topics |-> IF t \in S THEN s ELSE topicState[t]]

IdleTypeOK ==
    /\ topicState \in [Topics -> {"absent", "pending", "in_progress", "done",
                                  "failed_retry", "failed"}]
    /\ retryCount \in [Topics -> Nat]
    /\ backedOff \subseteq Topics /\ orphans \subseteq Topics
    /\ sessionsToday \in Nat /\ sessionDate \in {"today", "earlier"}
    /\ curiosity \in {"none", "plans discovery", "plans research",
                      "discovering", "researching"}
    /\ dream \in {"none", "waiting", "dreaming"}
    /\ turn \in {"free", "chat", "curiosity", "dream"}
    /\ idleCrashes \in 0 .. MaxIdleCrashes
    /\ dbErrors \in 0 .. MaxDbErrors

IdleInit ==
    /\ topicState = [t \in Topics |-> "absent"]
    /\ retryCount = [t \in Topics |-> 0]
    /\ backedOff = {} /\ orphans = {}
    /\ sessionsToday = 0 /\ sessionDate = "earlier"
    /\ curiosity = "none" /\ dream = "none" /\ turn = "free"
    /\ idleCrashes = 0 /\ dbErrors = 0

\* A statement on the tables works, or it raises.
Works  == UNCHANGED dbErrors
Raises == dbErrors < MaxDbErrors /\ dbErrors' = dbErrors + 1

-----------------------------------------------------------------------------
(* The chat: a turn holds the lock, and its model may queue a topic, as    *)
(* may the research agent, who is given every tool there is.               *)

ChatTurn ==
    /\ \/ turn = "free" /\ turn' = "chat"
       \/ turn = "chat" /\ turn' = "free"
    /\ UNCHANGED <<queueVars, sessionsToday, sessionDate, curiosity, dream,
                   orphans, idleCrashes, dbErrors>>

QueueResearch(t) ==
    /\ turn = "chat" \/ curiosity = "researching"
    /\ topicState[t] = "absent"
    /\ topicState' = SetState({t}, "pending")
    /\ UNCHANGED <<retryCount, backedOff, sessionsToday, sessionDate,
                   curiosity, dream, turn, orphans, idleCrashes, dbErrors>>

-----------------------------------------------------------------------------
(* The heartbeat ticks the CuriosityModule.                                *)

Midnight ==
    /\ sessionDate = "today"
    /\ sessionDate' = "earlier"
    /\ UNCHANGED <<queueVars, sessionsToday, curiosity, dream, turn, orphans,
                   idleCrashes, dbErrors>>

SessionsSoFar == IF sessionDate = "today" THEN sessionsToday ELSE 0

\* _increment_sessions_today: the first session of a day sets the date too.
CountSession ==
    /\ sessionsToday' = SessionsSoFar + 1
    /\ sessionDate' = "today"

\* _promote_retry_topics: topics out of retries are given up first, then the
\* others whose backoff is over go back to the queue.
Promote ==
    LET spent == {t \in InState("failed_retry") : retryCount[t] >= RetryLimit}
        ready == (InState("failed_retry") \ spent) \cap backedOff
    IN  [t \in Topics |-> CASE t \in spent -> "failed"
                            [] t \in ready -> "pending"
                            [] OTHER       -> topicState[t]]

\* What action() schedules: research if anything is pending, else, when the
\* user has been away long enough by day, a discovery.
Schedule(pending) ==
    IF pending # {} THEN curiosity' = "plans research"
                    ELSE curiosity' \in {"none", "plans discovery"}

Pending(queue) == {t \in Topics : queue[t] = "pending"}

\* Mutant: topics are promoted only when nothing else is pending.
TickPromotingLast ==
    /\ curiosity = "none"
    /\ SessionsSoFar < DailyCap
    /\ sessionDate' = "today" /\ sessionsToday' = SessionsSoFar
    /\ topicState' = IF InState("pending") # {} THEN topicState ELSE Promote
    /\ Schedule(Pending(topicState'))
    /\ UNCHANGED <<retryCount, backedOff, dream, turn, orphans, idleCrashes, dbErrors>>

\* condition() and action().  Where a statement raises, the sessions or the
\* pending topics count as none, or nothing is promoted in this tick.
Tick ==
    /\ curiosity = "none"
    /\ \E lost \in {"nothing", "sessions", "promotion", "pending"} :
          /\ IF lost = "nothing" THEN Works ELSE Raises
          /\ IF lost = "sessions"
             THEN UNCHANGED <<sessionsToday, sessionDate>>
             ELSE /\ SessionsSoFar < DailyCap
                  /\ sessionDate' = "today" /\ sessionsToday' = SessionsSoFar
          /\ topicState' = IF lost = "promotion" THEN topicState ELSE Promote
          /\ Schedule(IF lost = "pending" THEN {} ELSE Pending(topicState'))
    /\ UNCHANGED <<retryCount, backedOff, dream, turn, orphans, idleCrashes>>

\* The scheduled task gets the lock, or is refused by a holder that is stuck.
CuriosityTurn ==
    /\ curiosity \in {"plans discovery", "plans research"}
    /\ turn = "free" /\ turn' = "curiosity"
    /\ curiosity' = IF curiosity = "plans research" THEN "researching"
                                                    ELSE "discovering"
    /\ UNCHANGED <<queueVars, sessionsToday, sessionDate, dream, orphans,
                   idleCrashes, dbErrors>>

CuriosityRefused ==
    /\ curiosity \in {"plans discovery", "plans research"}
    /\ turn # "free"
    /\ curiosity' = "none"
    /\ UNCHANGED <<queueVars, sessionsToday, sessionDate, dream, turn,
                   orphans, idleCrashes, dbErrors>>

-----------------------------------------------------------------------------
(* Sessions: run_discovery, then run_research with the agent's tool calls. *)

LeaveTurn == curiosity' = "none" /\ turn' = "free"

\* The topics are inserted, then the session is counted; when the count
\* raises, the topics stay and nobody researches them now.
Discover ==
    /\ curiosity = "discovering"
    /\ \E new \in SUBSET InState("absent") :
          /\ Cardinality(new) <= DiscoveryMax
          /\ topicState' = SetState(new, "pending")
          /\ \/ /\ Works /\ CountSession
                /\ IF new = {} THEN LeaveTurn
                               ELSE curiosity' = "researching" /\ turn' = turn
             \/ Raises /\ LeaveTurn /\ UNCHANGED <<sessionsToday, sessionDate>>
    /\ UNCHANGED <<retryCount, backedOff, dream, orphans, idleCrashes>>

DiscoveryFails ==
    /\ curiosity = "discovering"
    /\ LeaveTurn
    /\ UNCHANGED <<queueVars, sessionsToday, sessionDate, dream, orphans,
                   idleCrashes, dbErrors>>

\* research_start_topic claims a topic only if it is pending.
StartTopic(t) ==
    /\ curiosity = "researching" /\ topicState[t] = "pending"
    /\ topicState' = SetState({t}, "in_progress")
    /\ UNCHANGED <<retryCount, backedOff, sessionsToday, sessionDate,
                   curiosity, dream, turn, orphans, idleCrashes, dbErrors>>

\* research_complete_topic looks at no status.
CompleteTopic(t) ==
    /\ curiosity = "researching" /\ t \in Queued
    /\ topicState' = SetState({t}, "done")
    /\ orphans' = orphans \ {t}
    /\ UNCHANGED <<retryCount, backedOff, sessionsToday, sessionDate,
                   curiosity, dream, turn, idleCrashes, dbErrors>>

\* research_fail_topic: a retry with a longer backoff, until none is left.
FailTopic(t) ==
    /\ curiosity = "researching" /\ t \in Queued
    /\ IF retryCount[t] >= RetryLimit
       THEN topicState' = SetState({t}, "failed") /\ UNCHANGED <<retryCount, backedOff>>
       ELSE /\ topicState' = SetState({t}, "failed_retry")
            /\ retryCount' = [retryCount EXCEPT ![t] = @ + 1]
            /\ backedOff' = backedOff \ {t}
    /\ orphans' = orphans \ {t}
    /\ UNCHANGED <<sessionsToday, sessionDate, curiosity, dream, turn,
                   idleCrashes, dbErrors>>

BackoffEnds(t) ==
    /\ topicState[t] = "failed_retry" /\ t \notin backedOff
    /\ backedOff' = backedOff \cup {t}
    /\ UNCHANGED <<topicState, retryCount, sessionsToday, sessionDate,
                   curiosity, dream, turn, orphans, idleCrashes, dbErrors>>

\* Mutant: the reset is not in a finally block: only a session that returns
\* puts its claims back.
EndResearchResettingOnSuccess ==
    /\ curiosity = "researching"
    /\ \/ CountSession /\ topicState' = SetState(InState("in_progress"), "pending")
       \/ UNCHANGED <<sessionsToday, sessionDate, topicState>>
    /\ orphans' = {}
    /\ LeaveTurn
    /\ UNCHANGED <<retryCount, backedOff, dream, idleCrashes, dbErrors>>

\* A session that raises is not counted; either way the finally block puts
\* every claimed topic back before the lock is released, if it can.
EndResearch ==
    /\ curiosity = "researching"
    /\ CountSession \/ UNCHANGED <<sessionsToday, sessionDate>>
    /\ \/ /\ Works
          /\ topicState' = SetState(InState("in_progress"), "pending")
          /\ orphans' = {}
       \/ /\ Raises
          /\ topicState' = topicState
          /\ orphans' = InState("in_progress")
    /\ LeaveTurn
    /\ UNCHANGED <<retryCount, backedOff, dream, idleCrashes>>

-----------------------------------------------------------------------------
(* Dreams.                                                                 *)

\* A gate that cannot read the queue lets the dream pass.
DreamTick ==
    /\ dream = "none" /\ curiosity = "none"
    /\ \/ InState("in_progress") = {} /\ Works
       \/ Raises
    /\ dream' = "waiting"
    /\ UNCHANGED <<queueVars, sessionsToday, sessionDate, curiosity, turn,
                   orphans, idleCrashes>>

DreamTurn ==
    /\ \/ dream = "waiting"  /\ turn = "free" /\ dream' = "dreaming" /\ turn' = "dream"
       \/ dream = "waiting"  /\ turn # "free" /\ dream' = "none" /\ turn' = turn
       \/ dream = "dreaming" /\ dream' = "none" /\ turn' = "free"
    /\ UNCHANGED <<queueVars, sessionsToday, sessionDate, curiosity, orphans,
                   idleCrashes, dbErrors>>

\* The process dies and is started again: the tables stay as they are.
IdleCrash ==
    /\ idleCrashes < MaxIdleCrashes
    /\ idleCrashes' = idleCrashes + 1
    /\ orphans' = InState("in_progress")
    /\ curiosity' = "none" /\ dream' = "none" /\ turn' = "free"
    /\ UNCHANGED <<queueVars, sessionsToday, sessionDate, dbErrors>>

IdleNext ==
    \/ ChatTurn \/ Midnight \/ Tick \/ CuriosityTurn \/ CuriosityRefused
    \/ Discover \/ DiscoveryFails \/ EndResearch
    \/ DreamTick \/ DreamTurn \/ IdleCrash
    \/ \E t \in Topics :
          QueueResearch(t) \/ StartTopic(t) \/ CompleteTopic(t)
          \/ FailTopic(t) \/ BackoffEnds(t)

\* The tick loop goes on and time passes; a task that waits for the lock gets
\* it or is refused in the end (EveryWaitEnds of AiLock).  Nothing ends a
\* session, a dream or a chat turn: their tools have no timeout.
IdleFairness ==
    /\ WF_idleVars(Tick) /\ WF_idleVars(Midnight)
    /\ WF_idleVars(CuriosityTurn \/ CuriosityRefused)
    /\ \A t \in Topics : WF_idleVars(BackoffEnds(t))

IdleSpec == IdleInit /\ [][IdleNext]_idleVars /\ IdleFairness

-----------------------------------------------------------------------------
\* A topic is in_progress only while a research session that may complete it
\* is running, or because that session crashed or its reset failed
\* (reset_stale_in_progress_topics in the finally block of run_research).  A
\* dream never runs beside a session, and sees a claimed topic only if a
\* statement on the queue has failed, whatever it has waited for (gate 1.8 of
\* DreamModule.condition comes before the wait for the lock).
ClaimsHaveSession ==
    /\ InState("in_progress") # {} => \/ curiosity = "researching"
                                      \/ InState("in_progress") \subseteq orphans
    /\ dream = "dreaming" => /\ curiosity # "researching"
                             /\ dbErrors = 0 => InState("in_progress") = {}

\* A topic that failed does not wait for ever: it is queued again or given
\* up, however busy the queue is and whoever holds the lock, unless a session
\* of the module itself hangs (gate 2 of CuriosityModule.condition).
RetriesComeBack ==
    \A t \in Topics :
        topicState[t] = "failed_retry" ~>
            \/ topicState[t] # "failed_retry"
            \/ [](curiosity \in {"discovering", "researching"})
=============================================================================
