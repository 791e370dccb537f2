------------------------- MODULE TaskMonitor_proofs -------------------------
(***************************************************************************)
(* Safety of a wait for a task, for every poll rate, every delay the       *)
(* service may ask for and any number of polls.                            *)
(*                                                                         *)
(* None of the properties is inductive: they look at a few places of the   *)
(* operation only.  The invariant says at every place how many bodies are  *)
(* open, that the timer under way is no shorter than what is left of the   *)
(* delay asked for, and by how much the reports are behind the polls.      *)
(***************************************************************************)
EXTENDS TaskMonitor, TLAPS

(* A poll's answer is in hand. *)
InHand == {"answered", "reporting", "pacing"}

Bodies ==
    /\ pc \in InHand => open = {"poll"}
    /\ pc \notin InHand \cup {"posted", "returned"} => open = {}
    /\ pc = "returned" => (open # {} <=> result = "response")

Delay ==
    /\ pc = "holding" => embargo = info.retryAfter
    /\ pc \in {"waiting", "sleeping"} => embargo <= timer
    /\ pc = "checking" => embargo = 0
    /\ pc \in {"reporting", "pacing"} => embargo <= Asked(header)

Reports == reader # "none" => polls = IF pc = "reporting" THEN reports + 1 ELSE reports

Final == final => pc \in {"answered", "returned"}

(* A channel that nobody made is never reported on. *)
Quiet == reader = "none" => pc # "reporting"

WaitInv == TypeOK /\ Bodies /\ Delay /\ Reports /\ Final /\ Quiet

-----------------------------------------------------------------------------
LEMMA DelayTypes == Delays \subseteq 0..Longest /\ Longest \in Nat /\ TenSeconds \in 0..Longest
BY TaskAssumption DEF Delays, Longest

LEMMA AskedType == ASSUME NEW h \in Headers, rate \in Delays PROVE Asked(h) \in 0..Longest
BY DelayTypes DEF Asked, Headers

LEMMA LessType == ASSUME NEW N \in Nat, NEW n \in 0..N PROVE Less(n) \in 0..N /\ Less(n) <= n
BY DEF Less

LEMMA LessMonotone == ASSUME NEW m \in Nat, NEW n \in Nat, m <= n PROVE Less(m) <= Less(n)
BY DEF Less

LEMMA InitWait == Init => WaitInv
<1> SUFFICES ASSUME Init PROVE WaitInv
  OBVIOUS
<1>1. 0 \in Delays /\ 0 \in 0..Longest /\ 0 \in 0..PollBound
  BY DelayTypes, TaskAssumption DEF Delays
<1>2. header \in Headers /\ info \in [monitor : BOOLEAN, retryAfter : Delays]
  BY <1>1 DEF Init, Headers
<1>3. TypeOK
  BY <1>1, <1>2 DEF Init, TypeOK
<1>4. Bodies /\ Delay /\ Reports /\ Final /\ Quiet
  BY DEF Init, Bodies, InHand, Delay, Reports, Final, Quiet
<1> QED BY <1>3, <1>4 DEF WaitInv

LEMMA PostKeeps == WaitInv /\ Post => WaitInv'
<1> SUFFICES ASSUME WaitInv, Post PROVE WaitInv'
  OBVIOUS
<1> USE DEF WaitInv
<1>1. TypeOK'
  <2>1. info' \in [monitor : BOOLEAN, retryAfter : Delays] /\ embargo' \in 0..Longest
    BY DelayTypes DEF Post, TypeOK
  <2>2. open' \subseteq {"post", "poll"} /\ finished' \in BOOLEAN /\ pc' \in {"posted", "holding"}
    BY DEF Post, TypeOK, Goto
  <2> QED BY <2>1, <2>2 DEF Post, TypeOK, caller, Goto
<1>2. Bodies' /\ Delay' /\ Reports' /\ Final' /\ Quiet'
  BY <1>1 DEF Post, TypeOK, caller, Goto, Bodies, InHand, Delay, Reports, Final, Quiet
<1> QED BY <1>1, <1>2

LEMMA PostReturnsKeeps == WaitInv /\ PostReturns => WaitInv'
<1> SUFFICES ASSUME WaitInv, PostReturns PROVE WaitInv'
  OBVIOUS
<1> USE DEF WaitInv, PostReturns, caller, Return
<1>1. TypeOK'
  BY DEF TypeOK
<1>2. Bodies' /\ Delay' /\ Reports' /\ Final' /\ Quiet'
  BY DEF Bodies, InHand, Delay, Reports, Final, Quiet
<1> QED BY <1>1, <1>2

LEMMA WaitBeginKeeps == WaitInv /\ WaitBegin => WaitInv'
<1> SUFFICES ASSUME WaitInv, WaitBegin PROVE WaitInv'
  OBVIOUS
<1> USE DEF WaitInv, WaitBegin, caller, Return, Goto
<1>1. TypeOK'
  BY DelayTypes DEF TypeOK
<1>2. Bodies' /\ Reports' /\ Final' /\ Quiet'
  BY DEF Bodies, InHand, Reports, Final, Quiet
<1>3. Delay'
  BY DelayTypes DEF Delay, TypeOK, Delays
<1> QED BY <1>1, <1>2, <1>3

LEMMA ElapseKeeps == WaitInv /\ Elapse => WaitInv'
<1> SUFFICES ASSUME WaitInv, Elapse PROVE WaitInv'
  OBVIOUS
<1> USE DEF WaitInv, Elapse, caller, Return, Goto
<1>1. TypeOK'
  BY DEF TypeOK
<1>2. Bodies' /\ Reports' /\ Final' /\ Quiet'
  BY DEF Bodies, InHand, Reports, Final, Quiet
<1>3. Delay'
  BY DelayTypes DEF Delay, TypeOK
<1> QED BY <1>1, <1>2, <1>3

LEMMA PollKeeps == WaitInv /\ Poll => WaitInv'
<1> SUFFICES ASSUME WaitInv, Poll PROVE WaitInv'
  OBVIOUS
<1> USE DEF WaitInv, caller, Return, Goto
<1>1. CASE PollFails
  BY <1>1 DEF PollFails, TypeOK, Bodies, InHand, Delay, Reports, Final, Quiet
<1>2. CASE PollPending
  <2>1. header' \in Headers /\ rate' = rate /\ embargo' = Asked(header')
    BY <1>2 DEF PollPending
  <2>2. Asked(header') \in 0..Longest /\ Asked(header)' = Asked(header')
    BY <2>1, AskedType DEF TypeOK, Asked
  <2>3. TypeOK'
    BY <1>2, <2>1, <2>2, TaskAssumption DEF PollPending, TypeOK
  <2>4. Bodies' /\ Final' /\ Quiet' /\ Reports'
    BY <1>2 DEF PollPending, Bodies, InHand, Final, Quiet, Reports
  <2>5. Delay'
    BY <1>2, <2>1, <2>2, DelayTypes DEF PollPending, Delay
  <2> QED BY <2>3, <2>4, <2>5
<1>3. CASE PollFinal
  BY <1>3 DEF PollFinal, TypeOK, Bodies, InHand, Delay, Reports, Final, Quiet
<1> QED BY <1>1, <1>2, <1>3 DEF Poll

LEMMA ReportKeeps == WaitInv /\ Report => WaitInv'
<1> SUFFICES ASSUME WaitInv, Report PROVE WaitInv'
  OBVIOUS
<1> USE DEF WaitInv, Report, caller, Goto
<1>1. polls = reports + 1
  BY DEF Reports
<1>2. TypeOK'
  BY <1>1, TaskAssumption DEF TypeOK
<1>3. Bodies' /\ Final' /\ Quiet' /\ Reports'
  BY <1>1 DEF Bodies, InHand, Final, Quiet, Reports
<1>4. Delay'
  BY DEF Delay, Asked
<1> QED BY <1>2, <1>3, <1>4

LEMMA PaceKeeps == WaitInv /\ Pace => WaitInv'
<1> SUFFICES ASSUME WaitInv, Pace PROVE WaitInv'
  OBVIOUS
<1> USE DEF WaitInv, Pace, caller, Goto
<1>1. Asked(header) \in 0..Longest
  BY AskedType DEF TypeOK
<1>2. TypeOK'
  BY <1>1 DEF TypeOK
<1>3. Bodies' /\ Final' /\ Quiet' /\ Reports'
  BY DEF Bodies, InHand, Final, Quiet, Reports
<1>4. Delay'
  BY <1>1, DelayTypes DEF Delay, TypeOK
<1> QED BY <1>2, <1>3, <1>4

LEMMA FinalAnswerKeeps == WaitInv /\ FinalAnswer => WaitInv'
<1> SUFFICES ASSUME WaitInv, FinalAnswer PROVE WaitInv'
  OBVIOUS
<1> USE DEF WaitInv, FinalAnswer, caller, Return
<1>1. TypeOK'
  BY DEF TypeOK
<1>2. Bodies' /\ Delay' /\ Reports' /\ Final' /\ Quiet'
  BY DEF Bodies, InHand, Delay, Reports, Final, Quiet
<1> QED BY <1>1, <1>2

(* Time takes as much off the timer as off the delay it stands for. *)
LEMMA TickKeeps == WaitInv /\ Tick => WaitInv'
<1> SUFFICES ASSUME WaitInv, Tick PROVE WaitInv'
  OBVIOUS
<1> USE DEF WaitInv, Tick, caller
<1>1. /\ timer \in 0..Longest /\ embargo \in 0..Longest /\ info.retryAfter \in 0..MaxDelay
      /\ MaxDelay \in Nat
  BY TaskAssumption DEF TypeOK, Delays
<1>2. Less(timer) \in 0..Longest /\ Less(embargo) \in 0..Longest /\ Less(info.retryAfter) \in Delays
  BY <1>1, DelayTypes, LessType DEF Delays
<1>3. TypeOK'
  BY <1>2 DEF TypeOK
<1>4. Bodies' /\ Final' /\ Quiet' /\ Reports'
  BY DEF Bodies, InHand, Final, Quiet, Reports
<1>5. info'.retryAfter = Less(info.retryAfter)
  BY DEF TypeOK
<1>6. embargo <= timer => Less(embargo) <= Less(timer)
  BY <1>1, DelayTypes, LessMonotone
<1>7. Less(embargo) <= embargo
  BY <1>1, DelayTypes, LessType
<1>8. Asked(header) \in 0..Longest /\ Asked(header)' = Asked(header)
  BY AskedType DEF TypeOK, Asked
<1>9. Delay'
  <2>1. (pc = "holding" => embargo = info.retryAfter)'
    BY <1>5 DEF Delay
  <2>2. (pc \in {"waiting", "sleeping"} => embargo <= timer)'
    BY <1>6 DEF Delay
  <2>3. (pc = "checking" => embargo = 0)'
    BY DEF Delay, Less
  <2>4. (pc \in {"reporting", "pacing"} => embargo <= Asked(header))'
    BY <1>1, <1>2, <1>7, <1>8, DelayTypes DEF Delay
  <2> QED BY <2>1, <2>2, <2>3, <2>4 DEF Delay
<1> QED BY <1>3, <1>4, <1>9

LEMMA WorldKeeps == WaitInv /\ (Finish \/ ReaderQuits \/ Cancel) => WaitInv'
<1> SUFFICES ASSUME WaitInv, Finish \/ ReaderQuits \/ Cancel PROVE WaitInv'
  OBVIOUS
<1> USE DEF WaitInv, caller
<1>1. CASE Finish
  BY <1>1 DEF Finish, TypeOK, Bodies, InHand, Delay, Asked, Reports, Final, Quiet
<1>2. CASE ReaderQuits
  BY <1>2 DEF ReaderQuits, TypeOK, Bodies, InHand, Delay, Asked, Reports, Final, Quiet
<1>3. CASE Cancel
  BY <1>3 DEF Cancel, TypeOK, Bodies, InHand, Delay, Asked, Reports, Final, Quiet
<1> QED BY <1>1, <1>2, <1>3

LEMMA NextKeepsWait == WaitInv /\ [Next]_vars => WaitInv'
<1>1. WaitInv /\ UNCHANGED vars => WaitInv'
  BY DEF vars, caller, WaitInv, TypeOK, Bodies, InHand, Delay, Asked, Reports, Final, Quiet
<1> QED BY <1>1, PostKeeps, PostReturnsKeeps, WaitBeginKeeps, ElapseKeeps, PollKeeps, ReportKeeps,
           PaceKeeps, FinalAnswerKeeps, TickKeeps, WorldKeeps DEF Next, Advance

LEMMA WaitInvariant == Spec => []WaitInv
BY InitWait, NextKeepsWait, PTL DEF Spec

-----------------------------------------------------------------------------
(* Every variable of the wait has its type, the timers included. *)
THEOREM TypeCorrect == Spec => []TypeOK
<1>1. WaitInv => TypeOK
  BY DEF WaitInv
<1> QED BY <1>1, WaitInvariant, PTL

(* The monitor is not polled before the moment the service named, whatever  *)
(* the delays, and however long the caller or the reader held things up.    *)
THEOREM PollsArePaced == Spec => []NoEarlyPoll
<1>1. WaitInv => NoEarlyPoll
  BY DEF WaitInv, Delay, NoEarlyPoll
<1> QED BY <1>1, WaitInvariant, PTL

(* No body is left open between polls, and when the wait returns the only   *)
(* one that may be is the response the caller is given.                     *)
THEOREM BodiesAreClosed == Spec => []ResponsesClosed
<1>1. WaitInv => ResponsesClosed
  BY DEF WaitInv, Bodies, InHand, ResponsesClosed
<1> QED BY <1>1, WaitInvariant, PTL

(* The reader of the channel sees each 202 once, before the next poll.      *)
THEOREM PollsAreReported == Spec => []EveryPollReported
<1>1. WaitInv => EveryPollReported
  BY DEF WaitInv, Reports, EveryPollReported
<1> QED BY <1>1, WaitInvariant, PTL

(* Once the monitor has given its final answer it is never polled again.    *)
THEOREM FinalIsKept == Spec => FinalAnswerKept
<1>1. WaitInv /\ [Next]_vars => [final => pc' \in {"answered", "returned"} /\ polls' = polls]_vars
  <2> SUFFICES ASSUME WaitInv, Next, final
               PROVE  pc' \in {"answered", "returned"} /\ polls' = polls
    OBVIOUS
  <2>1. pc \in {"answered", "returned"}
    BY DEF WaitInv, Final
  <2>2. CASE FinalAnswer
    BY <2>2 DEF FinalAnswer, Return
  <2>3. CASE Tick \/ Finish \/ ReaderQuits \/ Cancel
    BY <2>1, <2>3 DEF Tick, Finish, ReaderQuits, Cancel
  <2> QED BY <2>1, <2>2, <2>3 DEF Next, Post, Advance, PostReturns, WaitBegin, Elapse, Report, Pace,
                               Poll, PollFails, PollPending, PollFinal
<1> QED BY <1>1, WaitInvariant, PTL DEF Spec, FinalAnswerKept

-----------------------------------------------------------------------------
(* The steps that are left to an operation whose context is done.           *)
StepsLeft ==
    CASE pc = "reporting" -> 4
      [] pc \in {"holding", "pacing"} -> 3
      [] pc \in {"post", "waiting", "sleeping"} -> 2
      [] pc \in {"posted", "checking", "answered"} -> 1
      [] OTHER -> 0

Operation == Post \/ Advance \/ Poll

(* From the death of the context on the operation has four steps to take at *)
(* most, whatever the timers, the service and the reader of the channel do, *)
(* and the one it may have to wait for, the report of a poll, it never      *)
(* makes when the caller gave it no channel.                                *)
THEOREM DeadWaitsGetShorter ==
    Spec => /\ [](pc = "reporting" => reader \in {"reading", "gone"})
            /\ [][ctxDone => /\ Operation => StepsLeft' < StepsLeft
                            /\ StepsLeft' <= StepsLeft]_vars
<1>1. WaitInv => (pc = "reporting" => reader \in {"reading", "gone"})
  BY DEF WaitInv, Quiet, TypeOK
<1>2. WaitInv /\ [Next]_vars =>
        [ctxDone => /\ Operation => StepsLeft' < StepsLeft
                    /\ StepsLeft' <= StepsLeft]_vars
  <2> SUFFICES ASSUME WaitInv, Next, ctxDone
               PROVE  /\ Operation => StepsLeft' < StepsLeft
                      /\ StepsLeft' <= StepsLeft
    OBVIOUS
  <2> USE DEF StepsLeft
  <2>1. CASE Post
    BY <2>1 DEF Post, Goto
  <2>2. CASE PostReturns
    <3>1. pc = "posted" /\ pc' = "returned"
      BY <2>2 DEF PostReturns, Return
    <3> QED BY <3>1
  <2>3. CASE WaitBegin
    <3>1. pc = "holding" /\ pc' \in {"waiting", "checking", "returned"}
      BY <2>3 DEF WaitBegin, Goto, Return
    <3> QED BY <3>1
  <2>4. CASE Elapse
    BY <2>4 DEF Elapse, Goto, Return
  <2>5. CASE Report \/ Pace
    <3>1. \/ pc = "reporting" /\ pc' = "pacing"
          \/ pc = "pacing" /\ pc' = "sleeping"
      BY <2>5 DEF Report, Pace, Goto
    <3> QED BY <3>1
  <2>6. CASE FinalAnswer
    <3>1. pc = "answered" /\ pc' = "returned"
      BY <2>6 DEF FinalAnswer, Return
    <3> QED BY <3>1
  <2>7. CASE Poll
    BY <2>7 DEF Poll, PollFails, PollPending, PollFinal, Return
  <2>8. CASE ~Operation
    <3>1. pc' = pc
      BY <2>8 DEF Operation, Next, Tick, Finish, ReaderQuits, Cancel
    <3> QED BY <2>8, <3>1
  <2> QED BY <2>1, <2>2, <2>3, <2>4, <2>5, <2>6, <2>7, <2>8 DEF Operation, Advance
<1> QED BY <1>1, <1>2, WaitInvariant, PTL DEF Spec
=============================================================================
