---------------------------- MODULE TaskMonitor -----------------------------
(***************************************************************************)
(* A long-running operation from its POST to its result                    *)
(* (redfish/task_monitor.go): PostWithTask, the caller that holds the      *)
(* TaskMonitorInfo for a while, and WaitForTaskMonitor, which polls the    *)
(* monitor at the pace the service asks for, reports each poll on a        *)
(* channel and returns the first answer that is not 202.  `typed` tells    *)
(* PostObject and WaitForTaskMonitorObject, which decode the response and  *)
(* close it, from the functions that hand it to the caller.                *)
(*                                                                         *)
(* Time is what is left of each delay: a tick takes one off all of them.   *)
(***************************************************************************)
EXTENDS Naturals

CONSTANTS
    MaxDelay,       \* the longest Retry-After the service sends
    TenSeconds,     \* the poll rate that stands for a defaultPollRate of 0
    PollBound       \* how many polls the operation lasts at most

ASSUME TaskAssumption ==
    /\ MaxDelay \in Nat /\ TenSeconds \in Nat \ {0}
    /\ PollBound \in Nat \ {0}

VARIABLES
    typed,      \* whether the caller asked for an object
    rate,       \* the defaultPollRate the caller passes
    reader,     \* the task channel: "none", "reading" or "gone"
    ctxDone,
    pc,         \* where the operation is
    finished,   \* whether the service has finished it
    info,       \* the TaskMonitorInfo: whether it names a monitor, and what
                \* is left until its RetryAfter
    header,     \* the Retry-After of the last 202: a form and a delay
    timer,      \* what is left of the time.After under way
    embargo,    \* what is left of the delay the service asked for, or of the
                \* poll rate when it asked for none
    polls,      \* the answers to polls: how many were 202
    reports,    \* how many values were received from the channel
    open,       \* the responses whose body is open
    final,      \* whether the monitor has given its final answer
    result      \* what the caller got in the end

caller == <<typed, rate>>
vars == <<caller, reader, ctxDone, pc, finished, info, header, timer, embargo,
          polls, reports, open, final, result>>

Delays == 0..MaxDelay
Longest == IF TenSeconds >= MaxDelay THEN TenSeconds ELSE MaxDelay

(* No usable Retry-After, a number of seconds, or a date. *)
Headers == [form : {"none", "seconds", "date"}, delay : Delays]

TypeOK ==
    /\ typed \in BOOLEAN /\ rate \in Delays
    /\ reader \in {"none", "reading", "gone"}
    /\ pc \in {"post", "posted", "holding", "waiting", "checking", "answered",
               "reporting", "pacing", "sleeping", "returned"}
    /\ info \in [monitor : BOOLEAN, retryAfter : Delays]
    /\ header \in Headers
    /\ timer \in 0..Longest /\ embargo \in 0..Longest
    /\ polls \in 0..PollBound /\ reports \in 0..PollBound
    /\ open \subseteq {"post", "poll"}
    /\ {ctxDone, finished, final} \subseteq BOOLEAN
    /\ result \in {"none", "response", "object", "error", "panic"}

Init ==
    /\ typed \in BOOLEAN /\ rate \in Delays
    /\ reader \in {"none", "reading"}
    /\ ctxDone = FALSE /\ pc = "post" /\ finished = FALSE
    /\ info = [monitor |-> FALSE, retryAfter |-> 0]
    /\ header = [form |-> "none", delay |-> 0]
    /\ timer = 0 /\ embargo = 0
    /\ polls = 0 /\ reports = 0 /\ open = {} /\ final = FALSE
    /\ result = "none"

Goto(to) == pc' = to /\ UNCHANGED result
Return(r) == pc' = "returned" /\ result' = r

-----------------------------------------------------------------------------
(* The POST. *)

(* The request fails, or the service is done at once, or it accepts the     *)
(* operation with a Location and a Retry-After, either of which may be      *)
(* missing.                                                                 *)
Post ==
    /\ pc = "post"
    /\ \/ Goto("posted") /\ UNCHANGED <<finished, info, embargo, open>>
       \/ Goto("posted") /\ finished' = TRUE /\ open' = {"post"} /\ UNCHANGED <<info, embargo>>
       \/ /\ ~ctxDone /\ Goto("holding")
          /\ \E uri \in BOOLEAN, d \in Delays :
                /\ info' = [monitor |-> uri, retryAfter |-> d]
                /\ embargo' = d
          /\ UNCHANGED <<finished, open>>
    /\ UNCHANGED <<caller, reader, ctxDone, header, timer, polls, reports, final>>

(* PostWithTask returns the response or the error.  PostObject decodes the  *)
(* response without a look at the error, and panics when there is none.     *)
PostReturns ==
    /\ pc = "posted"
    /\ IF typed
       THEN /\ open' = {}
            /\ IF open = {} THEN Return("panic") ELSE Return("object") \/ Return("error")
       ELSE /\ UNCHANGED open
            /\ IF open = {} THEN Return("error") ELSE Return("response")
    /\ UNCHANGED <<caller, reader, ctxDone, finished, info, header, timer, embargo, polls, reports, final>>

-----------------------------------------------------------------------------
(* WaitForTaskMonitor. *)

(* Deviation: the Retry-After of the POST is not waited for. *)
WaitBegin_AtOnce ==
    /\ pc = "holding"
    /\ IF info.monitor THEN Goto("checking") ELSE Return("error")
    /\ UNCHANGED <<caller, reader, ctxDone, finished, info, header, timer, embargo, polls, reports, open, final>>

(* The caller waits for the operation: refused without a monitor, delayed   *)
(* until RetryAfter otherwise.                                              *)
WaitBegin ==
    /\ pc = "holding"
    /\ IF ~info.monitor THEN Return("error") /\ UNCHANGED timer
       ELSE IF info.retryAfter > 0 THEN Goto("waiting") /\ timer' = info.retryAfter
       ELSE Goto("checking") /\ UNCHANGED timer
    /\ UNCHANGED <<caller, reader, ctxDone, finished, info, header, embargo, polls, reports, open, final>>

(* Deviation: the timer is waited for without the context. *)
Elapse_Uninterrupted ==
    /\ pc \in {"waiting", "sleeping"}
    /\ timer = 0 /\ Goto("checking")
    /\ UNCHANGED <<caller, reader, ctxDone, finished, info, header, timer, embargo, polls, reports, open, final>>

(* The two selects: the timer fires or the context ends the wait. *)
Elapse ==
    /\ pc \in {"waiting", "sleeping"}
    /\ \/ timer = 0 /\ Goto("checking")
       \/ ctxDone /\ Return("error")
    /\ UNCHANGED <<caller, reader, ctxDone, finished, info, header, timer, embargo, polls, reports, open, final>>

(* The delay that an answer carries, for the poll after it. *)
Asked(h) == IF h.form # "none" THEN h.delay ELSE IF rate = 0 THEN TenSeconds ELSE rate

(* The context is looked at, and the monitor polled: it fails, or the       *)
(* operation is still under way, or this is its final answer.               *)
PollFails ==
    /\ pc = "checking"
    /\ Return("error")
    /\ UNCHANGED <<caller, reader, ctxDone, finished, info, header, timer, embargo, polls, reports, open, final>>

PollPending ==
    /\ pc = "checking" /\ ~ctxDone /\ ~finished /\ polls < PollBound
    /\ polls' = polls + 1
    /\ header' \in Headers
    /\ embargo' = Asked(header')
    /\ open' = open \cup {"poll"}
    /\ Goto(IF reader = "none" THEN "pacing" ELSE "reporting")
    /\ UNCHANGED <<caller, reader, ctxDone, finished, info, timer, reports, final>>

PollFinal ==
    /\ pc = "checking" /\ ~ctxDone /\ finished
    /\ final' = TRUE
    /\ open' = open \cup {"poll"}
    /\ Goto("answered")
    /\ UNCHANGED <<caller, reader, ctxDone, finished, info, header, timer, embargo, polls, reports>>

(* Deviation: a report is dropped when it would have to wait. *)
Report_MayDrop ==
    /\ pc = "reporting"
    /\ reports' \in {reports, reports + 1}
    /\ Goto("pacing")
    /\ UNCHANGED <<caller, reader, ctxDone, finished, info, header, timer, embargo, polls, open, final>>

(* The task of a 202, or nil when its body holds none, is sent on the       *)
(* channel, which has no buffer; the context is not looked at meanwhile.    *)
Report ==
    /\ pc = "reporting" /\ reader = "reading"
    /\ reports' = reports + 1
    /\ Goto("pacing")
    /\ UNCHANGED <<caller, reader, ctxDone, finished, info, header, timer, embargo, polls, open, final>>

(* How long to sleep.  Seconds and the poll rate count from here, a date    *)
(* from when the service answered.                                          *)
Pace ==
    /\ pc = "pacing"
    /\ timer' = IF header.form = "date" THEN embargo ELSE Asked(header)
    /\ open' = open \ {"poll"}
    /\ Goto("sleeping")
    /\ UNCHANGED <<caller, reader, ctxDone, finished, info, header, embargo, polls, reports, final>>

(* Deviation: a final answer that does not decode is polled for again. *)
FinalAnswer_PollsAgain ==
    /\ pc = "answered"
    /\ IF typed THEN open' = open \ {"poll"} /\ (Return("object") \/ Goto("checking"))
                ELSE Return("response") /\ UNCHANGED open
    /\ UNCHANGED <<caller, reader, ctxDone, finished, info, header, timer, embargo, polls, reports, final>>

(* The final answer: the response itself, or what it decodes to. *)
FinalAnswer ==
    /\ pc = "answered"
    /\ IF typed THEN open' = open \ {"poll"} /\ (Return("object") \/ Return("error"))
                ELSE Return("response") /\ UNCHANGED open
    /\ UNCHANGED <<caller, reader, ctxDone, finished, info, header, timer, embargo, polls, reports, final>>

-----------------------------------------------------------------------------
(* The world: time, the service, the reader of the channel, the context. *)

Less(n) == IF n = 0 THEN 0 ELSE n - 1

Tick ==
    /\ timer + embargo + info.retryAfter > 0
    /\ timer' = Less(timer) /\ embargo' = Less(embargo)
    /\ info' = [info EXCEPT !.retryAfter = Less(@)]
    /\ UNCHANGED <<caller, reader, ctxDone, pc, finished, header, polls, reports, open, final, result>>

Finish ==
    /\ pc \notin {"post", "posted", "returned"} /\ ~finished /\ finished' = TRUE
    /\ UNCHANGED <<caller, reader, ctxDone, pc, info, header, timer, embargo, polls, reports, open, final, result>>

ReaderQuits ==
    /\ reader = "reading" /\ reader' = "gone"
    /\ UNCHANGED <<caller, ctxDone, pc, finished, info, header, timer, embargo, polls, reports, open, final, result>>

Cancel ==
    /\ ~ctxDone /\ ctxDone' = TRUE
    /\ UNCHANGED <<caller, reader, pc, finished, info, header, timer, embargo, polls, reports, open, final, result>>

Poll == PollFails \/ PollPending \/ PollFinal
Advance == PostReturns \/ WaitBegin \/ Elapse \/ Report \/ Pace \/ FinalAnswer

Next == Post \/ Advance \/ Poll \/ Tick \/ Finish \/ ReaderQuits \/ Cancel

(* The goroutine runs and a reader that reads goes on reading.  Nothing is  *)
(* assumed of the service but that its answers end with the context, and    *)
(* nothing of the timers.                                                   *)
Fairness ==
    /\ WF_vars(Advance)
    /\ WF_vars(ctxDone /\ (Post \/ PollFails))

Spec == Init /\ [][Next]_vars /\ Fairness

-----------------------------------------------------------------------------
(* Properties. *)

(* The monitor is not polled before the moment the service named, in the    *)
(* answer to the POST or in the last 202, however long the report of that   *)
(* 202 was held up, nor without any pause when it named none.               *)
NoEarlyPoll == pc = "checking" => embargo = 0

(* Of all the responses of the operation, at most the one the caller is     *)
(* given is left open when it gets it, and polls never pile up open bodies. *)
ResponsesClosed ==
    /\ pc \in {"holding", "waiting", "checking", "sleeping"} => open = {}
    /\ pc = "returned" => (open # {} <=> result = "response")

(* The reader of the channel sees each 202 once and in time: every one has  *)
(* been received before the monitor is polled again or the wait returns.    *)
EveryPollReported ==
    (reader # "none" /\ pc \in {"checking", "sleeping", "returned"}) => reports = polls

(* The final answer, which a service gives once, is what ends the wait: it  *)
(* is never thrown away for another poll.                                   *)
FinalAnswerKept ==
    [][final => pc' \in {"answered", "returned"} /\ polls' = polls]_vars

(* The wait ends with its context, in the middle of a sleep or of a poll,   *)
(* unless the reader of the channel has gone away.                          *)
CancelEndsWait == ctxDone ~> (pc = "returned" \/ reader = "gone")
=============================================================================
