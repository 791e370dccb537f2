---------------------- MODULE RetriedOperations_proofs ----------------------
(***************************************************************************)
(* What the loops of the vendor extensions report of the operations they    *)
(* repeat, for every number of retries and of other clients' writes.        *)
(***************************************************************************)
EXTENDS RetriedOperations, FiniteSetTheorems, TLAPS

(* The types of the state, as far as the rest needs them. *)
Types ==
    /\ op \in Operations
    /\ opc \in {"idle", "get", "send", "done"}
    /\ rpc \in {"head", "op", "wait", "returned"}
    /\ took \in Nat /\ lost \in Nat /\ unusable \in Nat
    /\ monitor.retries \in Int /\ attempt \in Nat
    /\ made \in Nat /\ version \in Nat \ {0}
    /\ DOMAIN pending = Attributes /\ DOMAIN want \subseteq Attributes

(* An operation is under way only while the loop waits for it; the loop      *)
(* calls it only with attempts to make; and after a first attempt the loop   *)
(* has an error to return.                                                   *)
Control ==
    /\ opc # "idle" => rpc = "op"
    /\ rpc = "op" => Healthy /\ monitor.retries >= 0
    /\ Healthy /\ (attempt > 0 \/ rpc = "wait") => lastErr # "nil"
    /\ ~Healthy /\ monitor.retries >= 0 => attempt <= monitor.retries
    /\ ~Healthy /\ rpc = "wait" => attempt < monitor.retries

(* Success has been reached, by the operation or by the loop. *)
Succeeds == (opc = "done" /\ res = "nil") \/ (rpc = "returned" /\ ret = "nil")

(* What took effect is accounted for at every moment, not only at the end.   *)
Accounts == took = lost + unusable + (IF Succeeds /\ ~NothingToDo THEN 1 ELSE 0)

IInv == Types /\ Control /\ Accounts

-----------------------------------------------------------------------------
LEMMA Start == Init => IInv
<1> SUFFICES ASSUME Init PROVE IInv
  OBVIOUS
<1> USE RetriesAssumption DEF Init, CallInit, LoopInit, SubscriptionsInit, WritesInit
<1>1. Types
  <2>1. monitor.retries \in Int
    <3>1. monitor \in Monitors
      OBVIOUS
    <3>2. CASE monitor \in [loop : {"idrac"}, retries : -1..MaxRetries,
                            manager : {"known", "no ID", "nil"}, reset : BOOLEAN]
      <4>1. monitor.retries \in -1..MaxRetries
        BY <3>2
      <4> QED
        BY <4>1
    <3>3. CASE monitor \in [loop : {"zt"}, retries : {MaxRetries},
                            manager : {"nil"}, reset : {FALSE}]
      BY <3>3, RetriesAssumption
    <3> QED
      BY <3>1, <3>2, <3>3 DEF Monitors
  <2>2. DOMAIN want \subseteq Attributes
    <3>1. PICK asked \in SUBSET Attributes : want \in [asked -> Values]
      OBVIOUS
    <3> QED
      BY <3>1
  <2> QED
    BY <2>1, <2>2 DEF Types
<1>2. Control
  BY DEF Control
<1>3. Accounts
  BY DEF Accounts, Succeeds
<1> QED
  BY <1>1, <1>2, <1>3 DEF IInv

(* Nothing that a step changes tells what there is to do. *)
LEMMA Asked ==
    ASSUME [Next]_allVars
    PROVE  /\ UNCHANGED <<op, monitor, tags, matching, raw, want>>
           /\ NothingToDo' = NothingToDo /\ Payload' = Payload /\ Healthy' = Healthy
<1>1. UNCHANGED <<op, monitor, tags, matching, raw, want>>
  <2> USE DEF call, loop, subscriptions, writes, NoEffect, Effect, NotTaken
  <2>1. CASE Loop
    BY <2>1 DEF Loop, Looping, LoopEnds, TryIt, Unhealthy, WaitEnds
  <2>2. CASE Call
    BY <2>2 DEF Call
  <2>3. CASE Subscribing /\ UNCHANGED <<loop, writes>>
    BY <2>3 DEF Subscribing, Invalid, CreateSubscription, DeleteSubscription, SubmitTestEvent
  <2>4. CASE Writing /\ UNCHANGED <<loop, subscriptions>>
    BY <2>4 DEF Writing, GetTag, NothingToSend, WriteSettings, CreateAccount
  <2>5. CASE Returns
    BY <2>5 DEF Returns, OperationReturns
  <2>6. CASE ContextDies /\ UNCHANGED <<loop, subscriptions, writes>>
    BY <2>6 DEF ContextDies
  <2>7. CASE OtherWriter /\ UNCHANGED <<call, loop, subscriptions>>
    BY <2>7 DEF OtherWriter
  <2>8. CASE UNCHANGED allVars
    BY <2>8 DEF allVars
  <2> QED
    BY <2>1, <2>2, <2>3, <2>4, <2>5, <2>6, <2>7, <2>8 DEF Next, Step
<1>2. Payload' = Payload
  BY <1>1 DEF Payload
<1> QED
  BY <1>1, <1>2 DEF NothingToDo, Healthy

(* The error of an operation that failed is one of these. *)
LEMMA FailuresAreErrors == Failures \subseteq {"retryable", "final"}
BY DEF Failures

(* An operation that has its own answer leaves the loop alone. *)
LEMMA StepKeeps ==
    ASSUME IInv, Step, [Next]_allVars
    PROVE  IInv'
<1> USE DEF call, loop, subscriptions, writes, NoEffect, Effect, NotTaken, Finish
<1>1. UNCHANGED loop
  BY DEF Step
<1>2. opc \in {"get", "send"} /\ opc' \in {"send", "done"}
  <2>1. CASE Subscribing
    BY <2>1 DEF Subscribing, Invalid, CreateSubscription, DeleteSubscription, SubmitTestEvent
  <2>2. CASE Writing
    BY <2>2 DEF Writing, GetTag, NothingToSend, WriteSettings, CreateAccount
  <2> QED
    BY <2>1, <2>2 DEF Step
<1>3. Control'
  BY <1>1, <1>2, Asked DEF IInv, Control, Healthy
<1>4. /\ took' \in Nat /\ lost' \in Nat /\ unusable' \in Nat
      /\ Accounts'
  <2>1. rpc = "op" /\ monitor.retries >= 0
    BY <1>2 DEF IInv, Control
  <2>2. took = lost + unusable /\ took \in Nat /\ lost \in Nat /\ unusable \in Nat
    BY <1>2, <2>1 DEF IInv, Accounts, Succeeds, Types
  <2>3. Succeeds' <=> opc' = "done" /\ res' = "nil"
    BY <1>1, <2>1 DEF Succeeds
  <2>4. CASE UNCHANGED <<took, lost, unusable>> /\ (Succeeds' => NothingToDo)
    BY <2>2, <2>4, Asked DEF Accounts
  <2>5. CASE /\ \E reply \in {"ok", "lost", "unusable"} : Effect(reply, "final") \/ Effect(reply, "notAccepted")
             /\ ~NothingToDo
    BY <2>2, <2>3, <2>5, Asked, FailuresAreErrors DEF Accounts
  <2>6. CASE /\ \E reply \in {"ok", "lost"} : Effect(reply, "nil")
             /\ ~NothingToDo
    BY <2>2, <2>3, <2>6, Asked, FailuresAreErrors DEF Accounts
  <2>7. op \notin Settings => ~NothingToDo
    BY <2>1 DEF NothingToDo, IInv, Types
  <2>8. CASE Subscribing
    <3>1. op \notin Settings
      BY <2>8 DEF Subscribing, Invalid, CreateSubscription, DeleteSubscription, SubmitTestEvent, Settings
    <3>2. CASE Invalid
      BY <2>3, <2>4, <3>2 DEF Invalid
    <3>3. CASE CreateSubscription
      BY <2>3, <2>4, <2>5, <2>7, <3>1, <3>3, FailuresAreErrors DEF CreateSubscription
    <3>4. CASE DeleteSubscription
      BY <2>3, <2>4, <2>6, <2>7, <3>1, <3>4, FailuresAreErrors DEF DeleteSubscription
    <3>5. CASE SubmitTestEvent
      BY <2>3, <2>4, <2>5, <2>7, <3>1, <3>5, FailuresAreErrors DEF SubmitTestEvent
    <3> QED
      BY <2>8, <3>2, <3>3, <3>4, <3>5 DEF Subscribing
  <2>9. CASE Writing
    <3>1. CASE GetTag
      BY <2>3, <2>4, <3>1, FailuresAreErrors DEF GetTag
    <3>2. CASE NothingToSend
      BY <2>3, <2>4, <3>2 DEF NothingToSend, NothingToDo
    <3>3. CASE WriteSettings
      <4>1. ~NothingToDo
        BY <2>1, <3>3 DEF WriteSettings, NothingToDo, IInv, Types
      <4> QED
        BY <2>3, <2>4, <2>6, <3>3, <4>1, FailuresAreErrors DEF WriteSettings
    <3>4. CASE CreateAccount
      <4>1. op \notin Settings
        BY <3>4 DEF CreateAccount, Settings
      <4> QED
        BY <2>3, <2>4, <2>5, <2>7, <3>4, <4>1, FailuresAreErrors DEF CreateAccount
    <3> QED
      BY <2>9, <3>1, <3>2, <3>3, <3>4 DEF Writing
  <2> QED
    BY <2>8, <2>9 DEF Step
<1>5. Types'
  <2>1. made' \in Nat /\ version' \in Nat \ {0} /\ DOMAIN pending' = Attributes
    <3>1. CASE Subscribing /\ UNCHANGED <<loop, writes>>
      BY <3>1 DEF Subscribing, Invalid, CreateSubscription, DeleteSubscription, SubmitTestEvent, IInv, Types
    <3>2. CASE Writing /\ UNCHANGED <<loop, subscriptions>>
      BY <3>2 DEF Writing, GetTag, NothingToSend, WriteSettings, CreateAccount, IInv, Types
    <3> QED
      BY <3>1, <3>2 DEF Step
  <2> QED
    BY <1>1, <1>2, <1>4, <2>1, Asked DEF IInv, Types
<1> QED
  BY <1>3, <1>4, <1>5 DEF IInv

(* A loop that ends without an error had nothing to do. *)
LEMMA LoopSucceeds ==
    ASSUME IInv, Loop, [Next]_allVars
    PROVE  Succeeds' => NothingToDo
<1>1. UNCHANGED <<call, monitor>> /\ rpc # "op"
  BY Asked DEF call, Loop, Looping, LoopEnds, TryIt, Unhealthy, WaitEnds
<1>2. opc = "idle" /\ opc' = "idle"
  BY <1>1 DEF IInv, Control, Types, call
<1>3. CASE LoopEnds
  <2>1. Succeeds' => lastErr = "nil" /\ attempt > monitor.retries
    BY <1>2, <1>3 DEF LoopEnds, Return, Succeeds
  <2>2. lastErr = "nil" /\ attempt > monitor.retries => monitor.retries < 0
    BY <1>3 DEF IInv, Control, Types
  <2> QED
    BY <2>1, <2>2 DEF NothingToDo
<1>4. CASE TryIt \/ Unhealthy \/ WaitEnds
  BY <1>2, <1>4 DEF TryIt, Unhealthy, WaitEnds, Return, Succeeds
<1> QED
  BY <1>3, <1>4 DEF Loop, Looping

LEMMA LoopKeeps ==
    ASSUME IInv, Loop, [Next]_allVars
    PROVE  IInv'
<1> USE DEF call, subscriptions, writes
<1>1. UNCHANGED <<call, subscriptions, writes, monitor>> /\ rpc # "op"
  BY Asked DEF Loop, Looping, LoopEnds, TryIt, Unhealthy, WaitEnds
<1>2. opc = "idle"
  BY <1>1 DEF IInv, Control, Types
<1>3. Types'
  BY <1>1 DEF Loop, Looping, LoopEnds, TryIt, Unhealthy, WaitEnds, Return, IInv, Types
<1>4. Control'
  <2>1. (opc' = "idle" /\ rpc' # "op") \/ (opc' = "idle" /\ Healthy /\ monitor.retries >= 0)
    <3>1. CASE TryIt
      BY <1>1, <1>2, <3>1 DEF TryIt, IInv, Types
    <3>2. CASE LoopEnds \/ Unhealthy \/ WaitEnds
      BY <1>1, <1>2, <3>2 DEF LoopEnds, Unhealthy, WaitEnds, Return
    <3> QED
      BY <3>1, <3>2 DEF Loop, Looping
  <2>2. /\ Healthy /\ (attempt' > 0 \/ rpc' = "wait") => lastErr' # "nil"
        /\ ~Healthy /\ monitor.retries >= 0 => attempt' <= monitor.retries
        /\ ~Healthy /\ rpc' = "wait" => attempt' < monitor.retries
    <3>1. CASE LoopEnds \/ TryIt
      BY <3>1 DEF LoopEnds, TryIt, Return, IInv, Control
    <3>2. CASE Unhealthy
      BY <3>2 DEF Unhealthy, Return, IInv, Control
    <3>3. CASE WaitEnds
      <4>1. attempt' \in {attempt, attempt + 1} /\ lastErr' = lastErr /\ rpc = "wait" /\ rpc' # "wait"
        BY <3>3 DEF WaitEnds, Return
      <4> QED
        BY <3>3, <4>1 DEF IInv, Control, Types
    <3> QED
      BY <3>1, <3>2, <3>3 DEF Loop, Looping
  <2> QED
    BY <1>1, <2>1, <2>2, Asked DEF Control
<1>5. Accounts'
  <2>1. ~Succeeds
    BY <1>2 DEF Succeeds, Loop, Looping, LoopEnds, TryIt, Unhealthy, WaitEnds
  <2> QED
    BY <1>1, <2>1, LoopSucceeds, Asked DEF IInv, Accounts, Types
<1> QED
  BY <1>3, <1>4, <1>5 DEF IInv

LEMMA CallKeeps ==
    ASSUME IInv, Call, [Next]_allVars
    PROVE  IInv'
BY Asked DEF IInv, Types, Control, Accounts, Succeeds, Call, FirstStep, loop, subscriptions, writes

LEMMA ReturnsKeeps ==
    ASSUME IInv, Returns, [Next]_allVars
    PROVE  IInv'
<1> USE DEF subscriptions, writes, Return
<1>1. rpc = "op" /\ opc' = "idle" /\ res' = res
  BY DEF Returns, OperationReturns
<1>2. Healthy /\ monitor.retries >= 0
  BY <1>1 DEF IInv, Control
<1>3. rpc' \in {"head", "wait", "returned"} /\ attempt' \in {attempt, attempt + 1}
  BY DEF Returns, OperationReturns
<1>4. rpc' = "returned" /\ ret' = "nil" <=> res = "nil"
  BY DEF Returns, OperationReturns, Failures
<1>6. attempt' > 0 \/ rpc' = "wait" => lastErr' # "nil"
  BY <1>2 DEF Returns, OperationReturns, Failures, IInv, Control, Types
<1>7. Types'
  BY <1>1, <1>3, Asked DEF Returns, IInv, Types
<1>8. Control'
  BY <1>1, <1>2, <1>3, <1>6, Asked DEF Control
<1>9. Accounts'
  BY <1>1, <1>4, Asked DEF Returns, IInv, Accounts, Succeeds, Types
<1> QED
  BY <1>7, <1>8, <1>9 DEF IInv

LEMMA Inductive == IInv /\ [Next]_allVars => IInv'
<1> SUFFICES ASSUME IInv, [Next]_allVars PROVE IInv'
  OBVIOUS
<1> USE DEF call, loop, subscriptions, writes
<1>1. CASE ContextDies /\ UNCHANGED <<loop, subscriptions, writes>>
  BY <1>1, Asked DEF ContextDies, IInv, Types, Control, Accounts, Succeeds
<1>2. CASE OtherWriter /\ UNCHANGED <<call, loop, subscriptions>>
  BY <1>2, Asked DEF OtherWriter, IInv, Types, Control, Accounts, Succeeds
<1>3. CASE UNCHANGED allVars
  BY <1>3, Asked DEF allVars, IInv, Types, Control, Accounts, Succeeds
<1> QED
  BY <1>1, <1>2, <1>3, StepKeeps, LoopKeeps, CallKeeps, ReturnsKeeps DEF Next

LEMMA Invariance == Spec => []IInv
<1>1. Init => IInv
  BY Start
<1>2. IInv /\ [Next]_allVars => IInv'
  BY Inductive
<1> QED
  BY <1>1, <1>2, PTL DEF Spec

(* What the application is told when the loop returns is what happened at   *)
(* the service, for every number of retries, whatever answers are lost.     *)
THEOREM OutcomesAreAccounted == Spec => []OutcomeIsAccounted
<1>1. IInv => OutcomeIsAccounted
  BY DEF IInv, Types, Control, Accounts, Succeeds, OutcomeIsAccounted
<1> QED
  BY <1>1, Invariance, PTL

-----------------------------------------------------------------------------
(* The settings hold what was asked for, as SettingsTaken has it. *)
AllTaken ==
    \A a \in DOMAIN want :
        \/ pending[a] = want[a]
        \/ a \in unseen
        \/ op = "bios" /\ a \notin Ordered /\ raw[a] = want[a]

Taken == Succeeds /\ monitor.retries >= 0 /\ op \in Settings => AllTaken

(* What is not in the payload was not different when it was read. *)
LEMMA NotInPayload ==
    ASSUME op \in Settings, NEW a \in DOMAIN want, a \notin Payload
    PROVE  op = "bios" /\ a \notin Ordered /\ raw[a] = want[a]
BY DEF Payload, Settings

LEMMA TakenStep == IInv /\ Taken /\ [Next]_allVars => Taken'
<1> SUFFICES ASSUME IInv, Taken, [Next]_allVars,
                    Succeeds', monitor.retries >= 0, op \in Settings
             PROVE  AllTaken'
  BY Asked DEF Taken
<1> USE DEF call, loop, subscriptions, writes
<1>1. NothingToDo => AllTaken
  <2>1. NothingToDo => Payload = {}
    BY DEF NothingToDo, IInv, Types
  <2> QED
    BY <2>1, NotInPayload DEF AllTaken
<1>2. CASE Loop
  BY <1>1, <1>2, LoopSucceeds, Asked DEF Loop, AllTaken
<1>3. CASE Call
  BY <1>3 DEF Call, FirstStep, Succeeds
<1>4. CASE Subscribing /\ UNCHANGED <<loop, writes>>
  BY <1>4 DEF Subscribing, Invalid, CreateSubscription, DeleteSubscription, SubmitTestEvent, Settings
<1>5. CASE Writing /\ UNCHANGED <<loop, subscriptions>>
  <2>1. opc' = "done" /\ res' = "nil"
    BY <1>5 DEF Succeeds, Writing, GetTag, NothingToSend, WriteSettings, CreateAccount, IInv, Control
  <2>2. CASE GetTag
    BY <2>1, <2>2, FailuresAreErrors DEF GetTag, Finish
  <2>3. CASE NothingToSend
    <3>1. AllTaken
      BY <1>1, <2>3 DEF NothingToSend, NothingToDo
    <3> QED
      BY <2>3, <3>1, Asked DEF NothingToSend, AllTaken
  <2>4. CASE WriteSettings
    <3>1. pending' = [a \in Attributes |-> IF a \in Payload THEN want[a] ELSE pending[a]]
      BY <2>1, <2>4, FailuresAreErrors DEF WriteSettings, NotTaken, Finish
    <3>2. ASSUME NEW a \in DOMAIN want
          PROVE  pending'[a] = want[a] \/ (op = "bios" /\ a \notin Ordered /\ raw[a] = want[a])
      BY <3>1, NotInPayload DEF IInv, Types
    <3> QED
      BY <3>2, Asked DEF AllTaken
  <2>5. CASE CreateAccount
    BY <2>5 DEF CreateAccount, Settings
  <2> QED
    BY <1>5, <2>2, <2>3, <2>4, <2>5 DEF Writing
<1>6. CASE Returns
  <2>1. Succeeds
    BY <1>6, FailuresAreErrors DEF Returns, OperationReturns, Return, Succeeds, IInv, Control
  <2> QED
    BY <1>6, <2>1, Asked DEF Returns, Taken, AllTaken
<1>7. CASE ContextDies /\ UNCHANGED <<loop, subscriptions, writes>>
  BY <1>7 DEF ContextDies, Succeeds, Taken, AllTaken
<1>8. CASE OtherWriter /\ UNCHANGED <<call, loop, subscriptions>>
  <2>1. AllTaken /\ DOMAIN pending = Attributes
    BY <1>8 DEF Succeeds, Taken, IInv, Types
  <2>2. PICK a \in Attributes, v \in Values :
              /\ pending' = [pending EXCEPT ![a] = v]
              /\ unseen' = unseen \cup {a}
    BY <1>8 DEF OtherWriter
  <2> QED
    BY <2>1, <2>2, Asked DEF AllTaken
<1>9. CASE UNCHANGED allVars
  BY <1>9 DEF allVars, Succeeds, Taken, AllTaken
<1> QED
  BY <1>2, <1>3, <1>4, <1>5, <1>6, <1>7, <1>8, <1>9 DEF Next, Step

(* An update of settings that reports success leaves in the settings object *)
(* every attribute it was asked for, but what another client has written    *)
(* since and what was not different when it was read: for every number of   *)
(* retries, writers, attributes and values.                                 *)
THEOREM SettingsAreTaken == Spec => []SettingsTaken
<1>1. Init => Taken
  BY DEF Init, CallInit, LoopInit, Taken, Succeeds
<1>2. IInv /\ Taken => SettingsTaken
  BY DEF Taken, AllTaken, Succeeds, SettingsTaken
<1> QED
  BY <1>1, <1>2, TakenStep, Invariance, PTL DEF Spec

-----------------------------------------------------------------------------
(* The operation writes under the ETag of what it has read. *)
Tagged ==
    opc = "send" /\ tags /\ (op \in Settings \/ (op = "account" /\ matching)) =>
        tag \in Nat /\ tag > 0 /\ tag <= version /\ (tag = version => unseen = {})

LEMMA TaggedStep == IInv /\ Tagged /\ [Next]_allVars => Tagged'
<1> SUFFICES ASSUME IInv, Tagged, [Next]_allVars,
                    opc' = "send", tags, op \in Settings \/ (op = "account" /\ matching)
             PROVE  tag' \in Nat /\ tag' > 0 /\ tag' <= version' /\ (tag' = version' => unseen' = {})
  BY Asked DEF Tagged
<1> USE DEF call, loop, subscriptions, writes
<1>1. CASE opc = "send" /\ UNCHANGED writes
  BY <1>1 DEF Tagged
<1>2. CASE Loop \/ (ContextDies /\ UNCHANGED <<loop, subscriptions, writes>>) \/ UNCHANGED allVars
  BY <1>1, <1>2 DEF Loop, ContextDies, allVars
<1>3. CASE Call \/ Returns
  BY <1>3 DEF Call, FirstStep, Returns
<1>4. CASE Step
  <2>1. CASE GetTag
    BY <2>1, FailuresAreErrors DEF GetTag, NotTaken, Finish, IInv, Types
  <2>2. GetTag
    BY <1>4 DEF Step, Subscribing, Invalid, CreateSubscription, DeleteSubscription, SubmitTestEvent,
                Writing, NothingToSend, WriteSettings, CreateAccount, Effect, NotTaken, Finish
  <2> QED
    BY <2>1, <2>2
<1>5. CASE OtherWriter /\ UNCHANGED <<call, loop, subscriptions>>
  BY <1>5 DEF OtherWriter, Tagged, IInv, Types
<1> QED
  BY <1>2, <1>3, <1>4, <1>5 DEF Next

(* No attempt writes over what another client wrote after that attempt's    *)
(* GET, where the service has ETags, for every number of retries.           *)
THEOREM OthersAreKept == Spec => OthersKept
<1>1. Init => Tagged
  BY DEF Init, CallInit, Tagged
<1>2. IInv /\ Tagged /\ [Next]_allVars =>
        [took' > took /\ tags /\ (op \in Settings \/ (op = "account" /\ matching)) => unseen = {}]_allVars
  <2> SUFFICES ASSUME IInv, Tagged, [Next]_allVars, took' > took, tags,
                      op \in Settings \/ (op = "account" /\ matching)
               PROVE  unseen = {}
    OBVIOUS
  <2> USE DEF call, loop, subscriptions, writes
  <2>1. took' # took
    BY DEF IInv, Types
  <2>2. WriteSettings \/ CreateAccount
    <3>1. op \in {"bios", "boot", "account"}
      BY DEF Settings
    <3>2. Step
      BY <2>1 DEF Next, Loop, Call, Returns, ContextDies, allVars
    <3>3. ~Subscribing \/ took' = took
      BY <3>1 DEF Subscribing, Invalid, CreateSubscription, DeleteSubscription, SubmitTestEvent, NoEffect
    <3> QED
      BY <2>1, <3>2, <3>3 DEF Step, Writing, GetTag, NothingToSend, NoEffect
  <2>3. opc = "send" /\ Matches
    BY <2>1, <2>2 DEF WriteSettings, CreateAccount, NotTaken, NoEffect
  <2> QED
    BY <2>3 DEF Matches, Tagged
<1> QED
  BY <1>1, <1>2, TaggedStep, Invariance, PTL DEF Spec, OthersKept

-----------------------------------------------------------------------------
(* The application has no link but to what was made, and every subscription *)
(* it does not know of is one of those whose answer it never had.           *)
Known ==
    /\ links \subseteq 0..(made - 1)
    /\ subs \subseteq 0..(made - 1)
    /\ SubscriptionHasOwner

LEMMA KnownStep == IInv /\ Known /\ [Next]_allVars => Known'
<1> SUFFICES ASSUME IInv, Known, [Next]_allVars PROVE Known'
  OBVIOUS
<1> USE DEF call, loop, subscriptions, writes
<1>0. made \in Nat /\ lost \in Nat /\ unusable \in Nat
  BY DEF IInv, Types
<1>1. IsFiniteSet(subs \ links) /\ Cardinality(subs \ links) \in Nat
  <2>1. IsFiniteSet(0..(made - 1))
    BY <1>0, FS_Interval
  <2>2. IsFiniteSet(subs \ links)
    BY <2>1, FS_Subset DEF Known
  <2> QED
    BY <2>2, FS_CardinalityType
<1>2. CASE /\ UNCHANGED subscriptions
           /\ lost' \in {lost, lost + 1} /\ unusable' \in {unusable, unusable + 1}
  <2>1. subs' = subs /\ links' = links /\ made' = made
    BY <1>2
  <2>2. Cardinality(subs \ links) <= lost' + unusable'
    <3>1. Cardinality(subs \ links) <= lost + unusable
      BY DEF Known, SubscriptionHasOwner
    <3> QED
      BY <1>0, <1>1, <1>2, <3>1
  <2> QED
    BY <2>1, <2>2 DEF Known, SubscriptionHasOwner
<1>3. CASE CreateSubscription \/ DeleteSubscription
  <2>1. CASE NotTaken /\ UNCHANGED subscriptions
    BY <1>0, <1>2, <2>1 DEF NotTaken, NoEffect
  <2>2. CASE /\ \E reply \in {"ok", "lost", "unusable"} :
                   /\ Effect(reply, "final")
                   /\ links' = IF reply = "ok" THEN links \cup {made} ELSE links
             /\ subs' = subs \cup {made} /\ made' = made + 1
    <3>1. PICK reply \in {"ok", "lost", "unusable"} :
            Effect(reply, "final") /\ links' = IF reply = "ok" THEN links \cup {made} ELSE links
      BY <2>2
    <3>2. links' \subseteq 0..(made' - 1) /\ subs' \subseteq 0..(made' - 1) /\ made \notin links /\ made \notin subs
      BY <1>0, <2>2, <3>1 DEF Known
    <3>3. CASE reply = "ok"
      <4>1. subs' \ links' = subs \ links /\ lost' = lost /\ unusable' = unusable
        BY <2>2, <3>1, <3>2, <3>3 DEF Effect
      <4> QED
        BY <3>2, <4>1 DEF Known, SubscriptionHasOwner
    <3>4. CASE reply # "ok"
      <4>1. subs' \ links' = (subs \ links) \cup {made}
        BY <2>2, <3>1, <3>2, <3>4
      <4>2. Cardinality(subs' \ links') = Cardinality(subs \ links) + 1
        BY <1>1, <3>2, <4>1, FS_AddElement
      <4>3. lost' + unusable' = lost + unusable + 1
        BY <1>0, <3>1, <3>4 DEF Effect
      <4> QED
        BY <1>0, <1>1, <3>2, <4>2, <4>3 DEF Known, SubscriptionHasOwner
    <3> QED
      BY <3>3, <3>4
  <2>3. CASE \E link \in links : \E reply \in {"ok", "lost"} :
               /\ Effect(reply, "nil")
               /\ subs' = subs \ {link}
               /\ links' = IF reply = "ok" THEN links \ {link} ELSE links
               /\ UNCHANGED made
    <3>1. PICK link \in links, reply \in {"ok", "lost"} :
               /\ Effect(reply, "nil")
               /\ subs' = subs \ {link}
               /\ links' = IF reply = "ok" THEN links \ {link} ELSE links
               /\ UNCHANGED made
      BY <2>3
    <3>2. subs' \ links' = subs \ links
      BY <3>1
    <3>3. lost' \in {lost, lost + 1} /\ unusable' = unusable
      BY <3>1 DEF Effect
    <3> QED
      BY <1>0, <1>1, <3>1, <3>2, <3>3 DEF Known, SubscriptionHasOwner
  <2> QED
    BY <1>3, <2>1, <2>2, <2>3 DEF CreateSubscription, DeleteSubscription
<1>4. CASE Step
  <2>1. CASE Subscribing
    BY <1>0, <1>2, <1>3, <2>1 DEF Subscribing, Invalid, SubmitTestEvent, NoEffect, NotTaken, Effect
  <2>2. CASE Writing /\ UNCHANGED <<loop, subscriptions>>
    BY <1>0, <1>2, <2>2 DEF Writing, GetTag, NothingToSend, WriteSettings, CreateAccount, NoEffect, NotTaken, Effect
  <2> QED
    BY <1>4, <2>1, <2>2 DEF Step
<1>5. CASE Loop \/ Call \/ Returns \/ (ContextDies /\ UNCHANGED <<loop, subscriptions, writes>>)
           \/ (OtherWriter /\ UNCHANGED <<call, loop, subscriptions>>) \/ UNCHANGED allVars
  BY <1>0, <1>2, <1>5 DEF Loop, Call, Returns, ContextDies, allVars
<1> QED
  BY <1>4, <1>5 DEF Next

(* However often a loop subscribes and unsubscribes, the application has a  *)
(* link to each subscription but those whose answer was lost or of no use.  *)
THEOREM SubscriptionsHaveOwners == Spec => []SubscriptionHasOwner
<1>1. Init => Known
  <2>1. Init => subs \ links = {}
    BY DEF Init, SubscriptionsInit
  <2> QED
    BY <2>1, FS_EmptySet DEF Init, CallInit, SubscriptionsInit, Known, SubscriptionHasOwner
<1>2. Known => SubscriptionHasOwner
  BY DEF Known
<1> QED
  BY <1>1, <1>2, KnownStep, Invariance, PTL DEF Spec

-----------------------------------------------------------------------------
(* Where the operation is within an attempt, and the attempts before it: an  *)
(* attempt takes effect once at most, at its last request.                   *)
Tried ==
    /\ monitor.retries >= -1
    /\ attempt <= monitor.retries + 1
    /\ rpc \in {"op", "wait"} => attempt <= monitor.retries
    /\ took <= attempt + (IF opc = "done" \/ rpc = "wait" THEN 1 ELSE 0)
        \/ (rpc = "returned" /\ took <= Attempts)

(* The steps of the program that are left: an attempt takes six at most.     *)
Stage ==
    CASE rpc = "head" -> 6
      [] rpc = "op" /\ opc = "idle" -> 5
      [] rpc = "op" /\ opc = "get" -> 4
      [] rpc = "op" /\ opc = "send" -> 3
      [] rpc = "op" /\ opc = "done" -> 2
      [] OTHER -> 1

StepsLeft == IF rpc = "returned" THEN 0 ELSE 6 * (monitor.retries + 1 - attempt) + Stage

(* A request is an effect at most, and brings the operation on. *)
LEMMA OneEffect ==
    ASSUME Step
    PROVE  /\ UNCHANGED loop
           /\ \/ opc = "get" /\ opc' \in {"send", "done"} /\ took' = took
              \/ opc = "send" /\ opc' = "done" /\ took' \in {took, took + 1}
<1> USE DEF NoEffect, Effect, NotTaken, Finish
<1>1. CASE Subscribing /\ UNCHANGED <<loop, writes>>
  BY <1>1 DEF Subscribing, Invalid, CreateSubscription, DeleteSubscription, SubmitTestEvent
<1>2. CASE Writing /\ UNCHANGED <<loop, subscriptions>>
  BY <1>2 DEF Writing, GetTag, NothingToSend, WriteSettings, CreateAccount
<1> QED
  BY <1>1, <1>2 DEF Step

LEMMA StartTried == Init => Tried
<1> SUFFICES ASSUME Init PROVE Tried
  OBVIOUS
<1>1. monitor.retries >= -1 /\ monitor.retries \in Int
  <2>1. monitor \in Monitors
    BY DEF Init, LoopInit
  <2>2. CASE monitor \in [loop : {"idrac"}, retries : -1..MaxRetries,
                          manager : {"known", "no ID", "nil"}, reset : BOOLEAN]
    <3>1. monitor.retries \in -1..MaxRetries
      BY <2>2
    <3> QED
      BY <3>1, RetriesAssumption
  <2>3. CASE monitor \in [loop : {"zt"}, retries : {MaxRetries}, manager : {"nil"}, reset : {FALSE}]
    BY <2>3, RetriesAssumption
  <2> QED
    BY <2>1, <2>2, <2>3 DEF Monitors
<1> QED
  BY <1>1 DEF Init, CallInit, LoopInit, Tried

(* What a step does to the control of the loop, with no look at its cause.   *)
LEMMA Onward ==
    ASSUME IInv, Tried, [Next]_allVars
    PROVE  /\ Tried'
           /\ Loop \/ Call \/ Step \/ Returns => StepsLeft' < StepsLeft
           /\ StepsLeft' <= StepsLeft
<1> DEFINE tries == monitor.retries
<1>1. /\ tries \in Int /\ attempt \in Nat /\ took \in Nat /\ took' \in Nat /\ attempt' \in Nat
      /\ monitor' = monitor
  BY Inductive, Asked DEF IInv, Types
<1>2. tries + 1 - attempt \in Nat
  BY <1>1 DEF Tried
<1>3. Attempts' = Attempts
  BY <1>1 DEF Attempts
<1>4. CASE Step
  BY <1>1, <1>2, <1>3, <1>4, OneEffect DEF Tried, StepsLeft, Stage, loop, IInv, Control
<1>5. CASE Call
  <2>1. opc' \in {"get", "send"} /\ UNCHANGED loop /\ took' = took /\ rpc = "op" /\ opc = "idle"
    BY <1>5 DEF Call, FirstStep
  <2> QED
    BY <1>1, <1>2, <1>3, <2>1 DEF Tried, StepsLeft, Stage, loop
<1>6. CASE Returns
  <2>1. /\ opc = "done" /\ opc' = "idle" /\ rpc = "op" /\ took' = took
        /\ \/ rpc' = "head" /\ attempt' = attempt + 1
           \/ rpc' \in {"wait", "returned"} /\ attempt' = attempt
    BY <1>6 DEF Returns, OperationReturns, Return
  <2>2. attempt <= tries /\ took <= attempt + 1
    BY <2>1 DEF Tried
  <2>3. CASE rpc' = "head" /\ attempt' = attempt + 1
    BY <1>1, <1>2, <1>3, <2>1, <2>2, <2>3 DEF Tried, StepsLeft, Stage
  <2>4. CASE rpc' \in {"wait", "returned"} /\ attempt' = attempt
    <3>1. took' <= Attempts
      BY <1>1, <2>1, <2>2 DEF Attempts
    <3> QED
      BY <1>1, <1>2, <1>3, <2>1, <2>2, <2>4, <3>1 DEF Tried, StepsLeft, Stage
  <2> QED
    BY <2>1, <2>3, <2>4
<1>7. CASE Loop
  <2>1. opc = "idle" /\ opc' = "idle" /\ took' = took
    BY <1>7 DEF Loop, Looping, LoopEnds, TryIt, Unhealthy, WaitEnds, call, IInv, Control, Types
  <2>2. CASE LoopEnds
    <3>1. rpc = "head" /\ rpc' = "returned" /\ attempt' = attempt /\ attempt > tries
      BY <2>2 DEF LoopEnds, Return
    <3>2. attempt = tries + 1 /\ took <= attempt
      BY <1>1, <2>1, <3>1 DEF Tried
    <3>3. took' <= Attempts
      BY <1>1, <2>1, <3>2 DEF Attempts
    <3> QED
      BY <1>1, <1>2, <1>3, <2>1, <3>1, <3>2, <3>3 DEF Tried, StepsLeft, Stage
  <2>3. CASE TryIt
    <3>1. rpc = "head" /\ rpc' = "op" /\ attempt' = attempt /\ attempt <= tries
      BY <2>3 DEF TryIt
    <3> QED
      BY <1>1, <1>2, <1>3, <2>1, <3>1 DEF Tried, StepsLeft, Stage
  <2>4. CASE Unhealthy
    <3>1. rpc = "head" /\ rpc' \in {"wait", "returned"} /\ attempt' = attempt /\ attempt <= tries
      BY <2>4 DEF Unhealthy, Return
    <3>2. took' <= Attempts
      BY <1>1, <2>1, <3>1 DEF Tried, Attempts
    <3> QED
      BY <1>1, <1>2, <1>3, <2>1, <3>1, <3>2 DEF Tried, StepsLeft, Stage
  <2>5. CASE WaitEnds
    <3>1. /\ rpc = "wait" /\ attempt <= tries
          /\ \/ rpc' = "head" /\ attempt' = attempt + 1
             \/ rpc' = "returned" /\ attempt' = attempt
      BY <2>5 DEF WaitEnds, Return, Tried
    <3>2. took' <= attempt + 1 /\ took' <= Attempts
      BY <1>1, <2>1, <3>1 DEF Tried, Attempts
    <3> QED
      BY <1>1, <1>2, <1>3, <2>1, <3>1, <3>2 DEF Tried, StepsLeft, Stage
  <2> QED
    BY <1>7, <2>2, <2>3, <2>4, <2>5 DEF Loop, Looping
<1>8. CASE \/ ContextDies /\ UNCHANGED <<loop, subscriptions, writes>>
           \/ OtherWriter /\ UNCHANGED <<call, loop, subscriptions>>
           \/ UNCHANGED allVars
  <2>1. UNCHANGED <<loop, opc, took>>
    BY <1>8 DEF ContextDies, allVars, call
  <2>2. Tried' /\ StepsLeft' = StepsLeft /\ StepsLeft \in Int
    BY <1>1, <1>2, <1>3, <2>1 DEF Tried, StepsLeft, Stage, loop
  <2>3. ~(Loop \/ Call \/ Step \/ Returns)
    <3>1. Loop => ~UNCHANGED <<rpc, attempt>>
      BY <1>1 DEF Loop, Looping, LoopEnds, TryIt, Unhealthy, WaitEnds, Return
    <3>2. Call \/ Step \/ Returns => opc' # opc
      BY OneEffect DEF Call, FirstStep, Returns
    <3> QED
      BY <2>1, <3>1, <3>2 DEF loop
  <2> QED
    BY <2>2, <2>3
<1> QED
  BY <1>4, <1>5, <1>6, <1>7, <1>8, <1>1, <1>2 DEF Next

LEMMA TriedInvariant == Spec => []Tried
<1>1. IInv /\ Tried /\ [Next]_allVars => Tried'
  BY Onward
<1> QED
  BY <1>1, StartTried, Invariance, PTL DEF Spec

(* However the attempts fail, and whatever their answers were, the operation *)
(* takes effect once per attempt at most and the attempts are those that     *)
(* were configured, for every number of retries.                             *)
THEOREM EffectsAreBounded == Spec => []EffectsBounded
<1>1. IInv /\ Tried => EffectsBounded
  BY DEF IInv, Types, Control, Tried, Attempts, EffectsBounded
<1> QED
  BY <1>1, Invariance, TriedInvariant, PTL

(* A loop has at most six steps per attempt to make, and every step that the *)
(* program takes is one less: for every number of retries it ends, with its  *)
(* context or without, as soon as its requests do.                           *)
THEOREM LoopsGetShorter ==
    Spec => /\ [](StepsLeft \in 0..6 * (monitor.retries + 2))
            /\ [][/\ Loop \/ Call \/ Step \/ Returns => StepsLeft' < StepsLeft
                  /\ StepsLeft' <= StepsLeft]_allVars
<1>1. IInv /\ Tried => StepsLeft \in 0..6 * (monitor.retries + 2)
  <2> SUFFICES ASSUME IInv, Tried PROVE StepsLeft \in 0..6 * (monitor.retries + 2)
    OBVIOUS
  <2>1. monitor.retries \in Int /\ attempt \in Nat /\ monitor.retries + 1 - attempt \in Nat
    BY DEF IInv, Types, Tried
  <2>2. Stage \in 1..6
    BY DEF Stage
  <2> QED
    BY <2>1, <2>2 DEF StepsLeft
<1>2. IInv /\ Tried /\ [Next]_allVars =>
        [/\ Loop \/ Call \/ Step \/ Returns => StepsLeft' < StepsLeft
         /\ StepsLeft' <= StepsLeft]_allVars
  BY Onward
<1> QED
  BY <1>1, <1>2, Invariance, TriedInvariant, PTL DEF Spec
=============================================================================
