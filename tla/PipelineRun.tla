---------------------------- MODULE PipelineRun -----------------------------
(***************************************************************************)
(* One run of the AI pipeline after the other (lib/services/ai_pipeline.py *)
(* with context_builder.py, retry.py and tool_executor.py): the context is *)
(* built, the provider is asked with retries, and while it answers with    *)
(* tool calls they are executed and it is asked again.                     *)
(***************************************************************************)
EXTENDS Naturals, Sequences, FiniteSets, FiniteSetsExt

CONSTANTS
  Calls,        \* tool calls: a tool with arguments
  ToolOf,       \* the tool of a call
  SafeTools,    \* tools marked safe: read-only, run in parallel
  Responses,    \* what the provider may answer: the calls of a round, <<>> is final text
  Notices,      \* finished background tasks and sandbox jobs to be told
  MaxCalls,     \* bot.max_tool_calls: identical rounds in a row
  MaxRounds,    \* bot.max_tool_rounds
  Threshold,    \* bot.tool_error_escalation_threshold
  MaxAttempts,  \* bot.retry_max_attempts
  MaxRuns       \* bound on runs

ASSUME RunAssumption ==
  /\ ToolOf \in [Calls -> {ToolOf[c] : c \in Calls}]
  /\ Responses \subseteq Seq(Calls)
  /\ {MaxCalls, MaxRounds, Threshold, MaxAttempts} \subseteq Nat \ {0} /\ MaxRuns \in Nat

VARIABLES
  stage,     \* "idle", "asking", "round", "tools", "asked again", "storing"
  inline,    \* use_inline_placeholders: research and dream runs
  withIds,   \* whether the provider gives its calls ids (Ollama does not)
  attempt,   \* of with_retry, for the first request
  response,  \* the calls of the current response
  result,    \* per call: "todo", "running", "ok" or "error"
  rounds, repeats, lastSig,  \* the counters of the loop
  errors, escalated,         \* error_counts per tool, tools with guidance given
  context,   \* what the loop has appended to the messages
  runs,      \* runs so far
  queue,     \* notices not yet taken into a context
  arrived,   \* notices so far
  inContext, \* notices in the context of this run
  told       \* history: how often a provider has answered with the notice in its context

runVars == <<stage, inline, withIds, attempt, response, result, rounds, repeats, lastSig, errors,
             escalated, context, runs, queue, arrived, inContext, told>>
loopVars == <<response, result, rounds, repeats, lastSig, errors, escalated, context>>
noticeVars == <<queue, arrived, inContext, told>>

Tools == {ToolOf[c] : c \in Calls}
IsSafe(c) == ToolOf[c] \in SafeTools
\* Calls sorted by tool name: rounds that differ in the order of tools only are alike.
RoundSignature(r) == [t \in Tools |-> SelectSeq(r, LAMBDA c : ToolOf[c] = t)]
NoSig == [t \in Tools |-> <<>>]

RunInit ==
  /\ stage = "idle" /\ inline = FALSE /\ withIds = FALSE
  /\ attempt = 0 /\ response = <<>> /\ result = <<>>
  /\ rounds = 0 /\ repeats = 0 /\ lastSig = NoSig
  /\ errors = [t \in Tools |-> 0] /\ escalated = {} /\ context = <<>>
  /\ runs = 0 /\ queue = {} /\ arrived = {} /\ inContext = {} /\ told = [n \in Notices |-> 0]

-----------------------------------------------------------------------------
\* The run is over, and with it all that it kept in local variables.
EndRun ==
  /\ stage' = "idle" /\ inline' = FALSE /\ withIds' = FALSE /\ attempt' = 0 /\ inContext' = {}
  /\ response' = <<>> /\ result' = <<>> /\ rounds' = 0 /\ repeats' = 0 /\ lastSig' = NoSig
  /\ errors' = [t \in Tools |-> 0] /\ escalated' = {} /\ context' = <<>>

\* _add_task_notifications, _add_completed_jobs: all that is queued. Dream and research
\* runs bring messages of their own and take none.
NoticesFor(inl) == IF inl THEN {} ELSE queue

\* Mutant: the queue is read without being emptied.
BuildContextPeeking ==
  /\ stage = "idle" /\ runs < MaxRuns
  /\ stage' = "asking" /\ runs' = runs + 1 /\ attempt' = 1
  /\ inline' \in BOOLEAN /\ withIds' \in BOOLEAN
  /\ inContext' = NoticesFor(inline')
  /\ UNCHANGED <<loopVars, queue, arrived, told>>

\* AIPipeline.run: build_context drains the queues of notices; the personality, the
\* user, the memories and the trimming to the token budget are data.
BuildContext ==
  /\ stage = "idle" /\ runs < MaxRuns
  /\ stage' = "asking" /\ runs' = runs + 1 /\ attempt' = 1
  /\ inline' \in BOOLEAN /\ withIds' \in BOOLEAN
  /\ inContext' = NoticesFor(inline')
  /\ queue' = queue \ inContext'
  /\ UNCHANGED <<loopVars, arrived, told>>

\* A typed background task completes, or a sandbox job that nobody waits for.
NoticeArrives(n) ==
  /\ n \notin arrived
  /\ arrived' = arrived \cup {n} /\ queue' = queue \cup {n}
  /\ UNCHANGED <<stage, inline, withIds, attempt, loopVars, runs, inContext, told>>

\* The first answer. Without tool calls the run is over.
Answered(r) ==
  /\ stage = "asking"
  /\ told' = [n \in Notices |-> told[n] + (IF n \in inContext THEN 1 ELSE 0)]
  /\ IF r = <<>> THEN EndRun
     ELSE /\ response' = r /\ stage' = "round" /\ inContext' = {} /\ attempt' = 0
          /\ UNCHANGED <<inline, withIds, result, rounds, repeats, lastSig, errors, escalated, context>>
  /\ UNCHANGED <<runs, queue, arrived>>

\* A transient failure is tried again after a pause, any other ends the run.
AskFails ==
  /\ stage = "asking"
  /\ \E transient \in BOOLEAN :
       IF transient /\ attempt < MaxAttempts
       THEN attempt' = attempt + 1 /\ UNCHANGED <<stage, inline, withIds, inContext, loopVars>>
       ELSE EndRun
  /\ UNCHANGED <<runs, queue, arrived, told>>

\* The pipeline's timeout cancels the run at any await; calls to the provider inside
\* the loop are not retried.
Cancelled ==
  /\ stage # "idle" /\ EndRun
  /\ UNCHANGED <<runs, queue, arrived, told>>

-----------------------------------------------------------------------------
(* execute_tool_loop *)

\* Mutant: only rounds with new calls are counted.
BeginRoundCountingNew ==
  /\ stage = "round"
  /\ LET sig == RoundSignature(response)
         n == IF sig = lastSig THEN repeats + 1 ELSE 1
         over == n > MaxCalls \/ rounds + 1 > MaxRounds
     IN /\ rounds' = (IF n = 1 /\ lastSig # NoSig THEN rounds ELSE rounds + 1)
        /\ repeats' = n /\ lastSig' = sig
        /\ IF over
           THEN stage' = "storing" /\ UNCHANGED <<result, context>>
           ELSE /\ stage' = "tools"
                /\ result' = [i \in DOMAIN response |-> IF IsSafe(response[i]) THEN "running" ELSE "todo"]
                /\ context' = Append(context, <<"calls", Len(response)>>)
  /\ UNCHANGED <<inline, withIds, attempt, response, errors, escalated, runs, noticeVars>>

\* _check_loop_conditions: repeated rounds and the number of rounds are limited; at the
\* limit the provider is asked once more, without tools, and the loop is left whatever
\* it answers. Otherwise the calls join the history and the safe ones start together.
BeginRound ==
  /\ stage = "round"
  /\ LET sig == RoundSignature(response)
         n == IF sig = lastSig THEN repeats + 1 ELSE 1
         over == n > MaxCalls \/ rounds + 1 > MaxRounds
     IN /\ rounds' = rounds + 1 /\ repeats' = n /\ lastSig' = sig
        /\ IF over
           THEN stage' = "storing" /\ UNCHANGED <<result, context>>
           ELSE /\ stage' = "tools"
                /\ result' = [i \in DOMAIN response |-> IF IsSafe(response[i]) THEN "running" ELSE "todo"]
                /\ context' = Append(context, <<"calls", Len(response)>>)
  /\ UNCHANGED <<inline, withIds, attempt, response, errors, escalated, runs, noticeVars>>

\* Mutant: an error among the safe calls keeps the unsafe ones from starting.
StartUnsafeAfterSuccess ==
  /\ stage = "tools"
  /\ \A i \in DOMAIN result : result[i] \in {"todo", "ok"}
  /\ \E i \in DOMAIN result : result[i] = "todo"
  /\ LET next == Min({i \in DOMAIN result : result[i] = "todo"})
     IN result' = [result EXCEPT ![next] = "running"]
  /\ UNCHANGED <<stage, inline, withIds, attempt, response, rounds, repeats, lastSig, errors,
                 escalated, context, runs, noticeVars>>

\* _execute_unsafe_tools: one after another, after all safe ones.
StartUnsafe ==
  /\ stage = "tools"
  /\ \A i \in DOMAIN result : result[i] # "running"
  /\ \E i \in DOMAIN result : result[i] = "todo"
  /\ LET next == Min({i \in DOMAIN result : result[i] = "todo"})
     IN result' = [result EXCEPT ![next] = "running"]
  /\ UNCHANGED <<stage, inline, withIds, attempt, response, rounds, repeats, lastSig, errors,
                 escalated, context, runs, noticeVars>>

\* An unknown tool, or arguments that the validator refuses (a type, a bound, an enum,
\* something required): the text of an error, and the tool is not run.
RefuseCall(i) ==
  /\ stage = "tools" /\ i \in DOMAIN result /\ result[i] = "running"
  /\ result' = [result EXCEPT ![i] = "error"]
  /\ UNCHANGED <<stage, inline, withIds, attempt, response, rounds, repeats, lastSig, errors,
                 escalated, context, runs, noticeVars>>

\* _execute_one: an exception of the tool is the text of an error, too.
FinishCall(i, outcome) ==
  /\ stage = "tools" /\ i \in DOMAIN result /\ result[i] = "running"
  /\ result' = [result EXCEPT ![i] = outcome]
  /\ UNCHANGED <<stage, inline, withIds, attempt, response, rounds, repeats, lastSig, errors,
                 escalated, context, runs, noticeVars>>

\* tool_results is keyed by the call's id, or by the tool's name where there is none:
\* the last call of a tool then answers for all of its calls.
SourceOf(i) ==
  IF withIds THEN i ELSE Max({j \in DOMAIN response : ToolOf[response[j]] = ToolOf[response[i]]})

ErrorsAfter == [t \in Tools |-> errors[t] + Cardinality(
  {i \in DOMAIN response : ToolOf[response[i]] = t /\ result[SourceOf(i)] = "error"})]

\* One message per call; in inline mode a placeholder, or the head of the result when
\* it could not be stored.
ResultMessages(stored) ==
  [i \in DOMAIN response |->
    <<IF ~inline THEN "full" ELSE IF i \in stored THEN "ref" ELSE "cut", SourceOf(i)>>]
Guidance(tools) == [k \in 1..Cardinality(tools) |-> <<"guidance", 0>>]

\* Mutant: guidance is appended before placeholders replace the tail of the history.
RoundMessagesOverwritten(stored, tools) ==
  IF inline THEN SubSeq(ResultMessages({}), 1, Cardinality(tools)) \o ResultMessages(stored)
  ELSE ResultMessages(stored) \o Guidance(tools)

RoundMessages(stored, tools) == ResultMessages(stored) \o Guidance(tools)

\* _append_tool_results, in inline mode _store_tool_responses with the placeholders,
\* then _escalate_errors: guidance once per tool.
CloseRound ==
  /\ stage = "tools"
  /\ \A i \in DOMAIN result : result[i] \in {"ok", "error"}
  /\ LET new == {t \in Tools : ErrorsAfter[t] >= Threshold} \ escalated IN
     \E stored \in IF inline THEN SUBSET DOMAIN response ELSE {{}} :
       /\ context' = context \o RoundMessages(stored, new)
       /\ escalated' = escalated \cup new
  /\ errors' = ErrorsAfter /\ result' = <<>>
  /\ stage' = "asked again"
  /\ UNCHANGED <<inline, withIds, attempt, response, rounds, repeats, lastSig, runs, noticeVars>>

\* The provider answers inside the loop.
AnsweredAgain(r) ==
  /\ stage = "asked again"
  /\ response' = r
  /\ stage' = IF r = <<>> THEN "storing" ELSE "round"
  /\ UNCHANGED <<inline, withIds, attempt, result, rounds, repeats, lastSig, errors, escalated,
                 context, runs, noticeVars>>

\* After the loop the results of a chat run are stored for the history; then the model
\* is recorded, the activity is published and memories are extracted beside the answer.
StoreAll ==
  /\ stage = "storing" /\ EndRun
  /\ UNCHANGED <<runs, queue, arrived, told>>

AskAgain == \E r \in Responses : Answered(r) \/ AnsweredAgain(r)
Execute ==
  StartUnsafe \/ \E i \in DOMAIN result : RefuseCall(i) \/ \E o \in {"ok", "error"} : FinishCall(i, o)
Proceed == AskAgain \/ AskFails \/ BeginRound \/ Execute \/ CloseRound \/ StoreAll
RunNext == BuildContext \/ Proceed \/ Cancelled \/ \E n \in Notices : NoticeArrives(n)

\* The loop goes on and the requests to the provider end; that a tool which has been
\* started returns is not assumed: the executor gives it no time limit.
ToolRuns == \E i \in DOMAIN result : result[i] = "running"
RunSpec == RunInit /\ [][RunNext]_runVars /\ WF_runVars(~ToolRuns /\ Proceed)

-----------------------------------------------------------------------------
RunTypeOK ==
  /\ stage \in {"idle", "asking", "round", "tools", "asked again", "storing"}
  /\ inline \in BOOLEAN /\ withIds \in BOOLEAN /\ attempt \in 0..MaxAttempts
  /\ response \in Responses \cup {<<>>}
  /\ rounds \in 0..(MaxRounds + 1) /\ repeats \in 0..(MaxCalls + 1)
  /\ errors \in [Tools -> Nat] /\ escalated \subseteq Tools
  /\ runs \in 0..MaxRuns /\ queue \cup inContext \subseteq arrived /\ arrived \subseteq Notices

\* Whenever the provider is asked, every message with n calls is followed by n results
\* in the order of the calls, each the call's own where calls have ids, and no guidance
\* has been lost: placeholders that replace the tail of the history hit results only.
HistoryIsPaired ==
  stage = "asked again" =>
    /\ \A p \in DOMAIN context : context[p][1] = "calls" =>
         \A i \in 1..context[p][2] :
           /\ p + i \in DOMAIN context
           /\ context[p + i][1] \in {"full", "ref", "cut"}
           /\ context[p + i][2] \in i..context[p][2]
           /\ withIds => context[p + i][2] = i
    /\ Cardinality({p \in DOMAIN context : context[p][1] = "guidance"}) = Cardinality(escalated)

\* A notice is told at most once, and while it waits it has not been told.
ToldAtMostOnce == \A n \in Notices : told[n] <= 1 /\ (n \in queue \cup inContext => told[n] = 0)

\* How far the stages of a round are from its end, and a call from its result.
Ahead == [s \in {"tools", "asked again", "asking", "round", "storing"} |->
  CASE s = "tools" -> 5 [] s = "asked again" -> 4 [] s = "asking" -> 3 [] s = "round" -> 2 [] s = "storing" -> 1]
Steps == [r \in {"todo", "running", "ok", "error"} |-> CASE r = "todo" -> 2 [] r = "running" -> 1 [] OTHER -> 0]

\* What bounds a run, whatever the model answers: each of its steps ends it, begins one
\* more of the limited rounds, goes on within the round, uses up an attempt, or brings a
\* call nearer to its result and none away from it.
RunsMoveOn ==
  [][stage # "idle" =>
       \/ stage' = "idle"
       \/ rounds < rounds' /\ rounds' <= MaxRounds + 1
       \/ rounds' = rounds /\ Ahead[stage'] < Ahead[stage]
       \/ UNCHANGED <<rounds, stage>> /\ attempt < attempt' /\ attempt' <= MaxAttempts
       \/ /\ UNCHANGED <<rounds, stage, response>> /\ stage = "tools"
          /\ \A i \in DOMAIN response : Steps[result'[i]] <= Steps[result[i]]
          /\ \E i \in DOMAIN response : Steps[result'[i]] < Steps[result[i]]
    ]_<<stage, inline, withIds, attempt, loopVars, runs, inContext, told>>

\* However the model behaves, with other arguments in every round and errors in every
\* tool, a run ends by the limits of the loop alone, without the pipeline's timeout,
\* unless it waits for ever for tools that do not return.
EveryRunEnds == stage # "idle" ~> stage = "idle" \/ []ToolRuns
=============================================================================
