-------------------------- MODULE StageTurnsProofs --------------------------
(***************************************************************************)
(* What the conversations of an attempt may not do, for every number of    *)
(* tool calls, arguments, rounds and failures: the calls of one message    *)
(* run concurrently, and each reads files, messages and the ledger at      *)
(* moments of its own.                                                     *)
(***************************************************************************)
EXTENDS StageTurns, FiniteSetTheorems, SequenceTheorems, TLAPS

Tools   == {"search", "fetch", "save", "prepare", "write", "execute"}
Results == {"ok", "failed", "external", "open"}
Message == [tool : Tools \cup {"correction"}, result : Results]
Call    == [tool : Tools, arg : 0..MaxArg, pc : {"asked", "checked", "running", "done"},
            revision : Nat, result : Results]

\* The values of the variables of StageTurns that the proofs look at.
CallTypes ==
    /\ calls \in Seq(Call)
    /\ \A i \in DOMAIN calls : calls[i].tool \in StageTools[stage]

TurnTypes ==
    /\ stage \in Stage /\ allowed \subseteq StageTools[stage]
    /\ round \in Nat \ {0} /\ research \in Nat /\ batch \in Nat
    /\ msgs \in Seq(Message)
    /\ CallTypes

-----------------------------------------------------------------------------
(* Tools and sequences *)

\* A stage has only the tools the model names, and always its persistence tool.
LEMMA ToolsOfStages ==
    \A s \in Stage : StageTools[s] \subseteq Tools /\ "save" \in StageTools[s]
BY BoundsAssumption DEF StageTools, Tools

\* A repair round grants no tool the stage does not have.
LEMMA RepairGrantsNoMore ==
    \A s \in Stage : RepairTools[s] \subseteq StageTools[s]
BY BoundsAssumption DEF StageTools, RepairTools

\* A message that is built from calls, and a call that moves in one.
LEMMA FunctionIsSeq ==
    ASSUME NEW S, NEW n \in Nat, NEW f \in [1..n -> S]
    PROVE  f \in Seq(S) /\ Len(f) = n /\ DOMAIN f = 1..n
BY SeqDef

LEMMA CallMoves ==
    ASSUME CallTypes, NEW i \in DOMAIN calls, NEW c \in Call, c.tool = calls[i].tool,
           Moves(i, c), stage' = stage
    PROVE  /\ CallTypes' /\ DOMAIN calls' = DOMAIN calls
           /\ \A j \in DOMAIN calls : calls'[j] = IF j = i THEN c ELSE calls[j]
<1>1. DOMAIN calls = 1..Len(calls) /\ i \in 1..Len(calls)
  BY LenProperties DEF CallTypes
<1>2. /\ calls' \in Seq(Call) /\ Len(calls') = Len(calls)
      /\ \A j \in 1..Len(calls) : calls'[j] = IF j = i THEN c ELSE calls[j]
  BY <1>1, ExceptSeq DEF Moves, CallTypes
<1>3. DOMAIN calls' = 1..Len(calls)
  BY <1>2, LenProperties
<1> QED BY <1>1, <1>2, <1>3 DEF CallTypes

\* A call that has been made is a Call, and so is what becomes of it.
LEMMA CallFields ==
    ASSUME CallTypes, NEW i \in DOMAIN calls
    PROVE  /\ calls[i] \in Call
           /\ \A p \in {"asked", "checked", "running", "done"}, r \in Results, n \in Nat :
                  /\ [calls[i] EXCEPT !.pc = p] \in Call
                  /\ [calls[i] EXCEPT !.pc = p, !.result = r] \in Call
                  /\ [calls[i] EXCEPT !.pc = p, !.revision = n] \in Call
<1>1. DOMAIN calls = 1..Len(calls)
  BY LenProperties DEF CallTypes
<1>2. calls[i] \in Call
  BY <1>1, ElementOfSeq DEF CallTypes
<1> QED BY <1>2 DEF Call

\* The model's message: its calls are all only asked.
LEMMA AsksTypes ==
    ASSUME TurnTypes, Asks
    PROVE  CallTypes' /\ \A i \in DOMAIN calls' : calls'[i].pc = "asked"
<1>1. PICK n \in 1..MaxCalls :
          \E new \in [1..n -> {NewCall(t, a) : t \in allowed, a \in 0..MaxArg}] : calls' = new
  BY DEF Asks
<1>2. calls' \in [1..n -> {NewCall(t, a) : t \in allowed, a \in 0..MaxArg}]
  BY <1>1
<1>3. \A t \in allowed, a \in 0..MaxArg :
          NewCall(t, a) \in Call /\ NewCall(t, a).tool \in StageTools[stage] /\ NewCall(t, a).pc = "asked"
  BY ToolsOfStages DEF NewCall, Call, TurnTypes, Results
<1>4. calls' \in [1..n -> Call] /\ n \in Nat
  BY <1>2, <1>3, BoundsAssumption
<1>5. calls' \in Seq(Call) /\ DOMAIN calls' = 1..n
  BY <1>4, FunctionIsSeq
<1>6. \A i \in 1..n : calls'[i].tool \in StageTools[stage] /\ calls'[i].pc = "asked"
  BY <1>2, <1>3
<1>7. stage' = stage
  BY DEF Asks, given
<1> QED BY <1>5, <1>6, <1>7 DEF CallTypes

\* A step of one call replaces that call, by one with the same tool and argument
\* that is still open or has its result.
LEMMA ChecksMoves ==
    ASSUME TurnTypes, NEW i \in DOMAIN calls, Checks(i)
    PROVE  \E c \in Call :
              /\ Moves(i, c) /\ c.tool = calls[i].tool /\ calls[i].pc = "asked" /\ ReadsFirst(calls[i])
              /\ \/ c.pc = "done" /\ c.result = "failed"
                 \/ c.pc = "checked" /\ c.revision = Revision(c.tool) /\ c.result = calls[i].result
<1>1. calls[i] \in Call
  BY CallFields DEF TurnTypes
<1>2. Revision(calls[i].tool) \in Nat
  BY DEF Revision, TurnTypes
<1> DEFINE refusal == [calls[i] EXCEPT !.pc = "done", !.result = "failed"]
           passed  == [calls[i] EXCEPT !.pc = "checked", !.revision = Revision(calls[i].tool)]
<1>3. refusal \in Call /\ refusal.tool = calls[i].tool /\ refusal.pc = "done" /\ refusal.result = "failed"
  BY <1>1 DEF Call, Results
<1>4. /\ passed \in Call /\ passed.tool = calls[i].tool /\ passed.pc = "checked"
      /\ passed.result = calls[i].result /\ passed.revision = Revision(passed.tool)
  BY <1>1, <1>2 DEF Call
<1>5. Moves(i, refusal) \/ Moves(i, passed)
  BY DEF Checks
<1>6. calls[i].pc = "asked" /\ ReadsFirst(calls[i])
  BY DEF Checks, At
<1> QED BY <1>3, <1>4, <1>5, <1>6

\* The three outcomes of Enters.
Refuses(i) == /\ Moves(i, [calls[i] EXCEPT !.pc = "done", !.result = "failed"])
              /\ UNCHANGED ledger

TurnsAway(i) == /\ Deferred(calls[i]) \/ (calls[i].tool = "search" /\ CircuitOpen)
                /\ Moves(i, [calls[i] EXCEPT !.pc = "done",
                                             !.result = IF Deferred(calls[i]) THEN "failed" ELSE "open"])
                /\ ledger' = WithRecord(SignatureOf(calls[i]),
                                        [Records(SignatureOf(calls[i])) EXCEPT !.failed = @ + 1])

Admits(i) == /\ ~Equivalent(SignatureOf(calls[i]))
             /\ ~Deferred(calls[i]) /\ ~(calls[i].tool = "search" /\ CircuitOpen)
             /\ Moves(i, [calls[i] EXCEPT !.pc = "running"])
             /\ Start(SignatureOf(calls[i]))

LEMMA EntersCases ==
    ASSUME NEW i \in DOMAIN calls, Enters(i)
    PROVE  /\ Refuses(i) \/ TurnsAway(i) \/ Admits(i)
           /\ calls[i].pc = "checked" \/ (calls[i].pc = "asked" /\ ~ReadsFirst(calls[i]))
           /\ pc = "tools"
BY DEF Enters, Refuses, TurnsAway, Admits, At

LEMMA EntersMoves ==
    ASSUME TurnTypes, NEW i \in DOMAIN calls, Enters(i)
    PROVE  \E c \in Call :
              /\ Moves(i, c) /\ SignatureOf(c) = SignatureOf(calls[i])
              /\ c.tool = calls[i].tool /\ c.revision = calls[i].revision
              /\ \/ c.pc = "done" /\ c.result = "failed" /\ (Refuses(i) \/ TurnsAway(i))
                 \/ c.pc = "done" /\ c.result = "open" /\ TurnsAway(i) /\ ~Deferred(calls[i])
                 \/ c.pc = "running" /\ Admits(i) /\ c.result = calls[i].result
<1>1. calls[i] \in Call
  BY CallFields DEF TurnTypes
<1> DEFINE refusal == [calls[i] EXCEPT !.pc = "done", !.result = "failed"]
           opened  == [calls[i] EXCEPT !.pc = "done", !.result = "open"]
           running == [calls[i] EXCEPT !.pc = "running"]
<1>2. /\ refusal \in Call /\ refusal.tool = calls[i].tool /\ refusal.revision = calls[i].revision
      /\ refusal.pc = "done" /\ refusal.result = "failed"
  BY <1>1 DEF Call, Results
<1>3. /\ opened \in Call /\ opened.tool = calls[i].tool /\ opened.revision = calls[i].revision
      /\ opened.pc = "done" /\ opened.result = "open"
  BY <1>1 DEF Call, Results
<1>4. /\ running \in Call /\ running.tool = calls[i].tool /\ running.revision = calls[i].revision
      /\ running.pc = "running" /\ running.result = calls[i].result
  BY <1>1 DEF Call
<1>9. /\ SignatureOf(refusal) = SignatureOf(calls[i])
      /\ SignatureOf(opened) = SignatureOf(calls[i])
      /\ SignatureOf(running) = SignatureOf(calls[i])
  BY <1>1 DEF Call, SignatureOf
<1>5. CASE Refuses(i)
  BY <1>5, <1>2, <1>9 DEF Refuses
<1>6. CASE TurnsAway(i)
  BY <1>6, <1>2, <1>3, <1>9 DEF TurnsAway
<1>7. CASE Admits(i)
  BY <1>7, <1>4, <1>9 DEF Admits
<1> QED BY <1>5, <1>6, <1>7, EntersCases

LEMMA ReturnsMoves ==
    ASSUME TurnTypes, NEW i \in DOMAIN calls, Returns(i)
    PROVE  \E c \in Call :
              /\ Moves(i, c) /\ c.tool = calls[i].tool /\ calls[i].pc = "running" /\ c.pc = "done"
              /\ c.result # "open" /\ Effect(calls[i], c.result)
              /\ Finish(SignatureOf(calls[i]), c.result)
<1>1. calls[i] \in Call
  BY CallFields DEF TurnTypes
<1>2. PICK result \in {"ok", "failed", "external"} :
          /\ Effect(calls[i], result)
          /\ Finish(SignatureOf(calls[i]), result)
          /\ Moves(i, [calls[i] EXCEPT !.pc = "done", !.result = result])
  BY DEF Returns
<1> DEFINE c == [calls[i] EXCEPT !.pc = "done", !.result = result]
<1>3. c \in Call /\ c.tool = calls[i].tool /\ c.pc = "done" /\ c.result = result
  BY <1>1 DEF Call, Results
<1>4. calls[i].pc = "running"
  BY DEF Returns, At
<1> QED BY <1>2, <1>3, <1>4

-----------------------------------------------------------------------------
(* Types *)

LEMMA TypesStart == Init => TurnTypes
<1> SUFFICES ASSUME Init PROVE TurnTypes
  OBVIOUS
<1>1. <<>> \in Seq(Message) /\ <<>> \in Seq(Call) /\ DOMAIN <<>> = {}
  OBVIOUS
<1> QED BY <1>1 DEF Init, TurnTypes, CallTypes

\* A step of a call keeps the types.
LEMMA CallStepTypes ==
    ASSUME TurnTypes, NEW i \in DOMAIN calls, Checks(i) \/ Enters(i) \/ Returns(i)
    PROVE  TurnTypes'
<1>1. UNCHANGED <<given, worker, msgs>>
  BY DEF Checks, Enters, Returns
<1>2. stage' = stage /\ allowed' = allowed /\ round' = round /\ msgs' = msgs
  BY <1>1 DEF given, worker
<1>3. CallTypes'
  <2>1. PICK c \in Call : Moves(i, c) /\ c.tool = calls[i].tool
    BY ChecksMoves, EntersMoves, ReturnsMoves
  <2> QED BY <2>1, <1>2, CallMoves DEF TurnTypes
<1>4. research' \in Nat /\ batch' \in Nat
  <2>1. CASE Checks(i) \/ Enters(i)
    BY <2>1 DEF Checks, Enters, files, TurnTypes
  <2>2. CASE Returns(i)
    <3>1. PICK c \in Call : Effect(calls[i], c.result)
      BY <2>2, ReturnsMoves
    <3>2. calls[i].arg \in Nat
      <4>1. calls[i] \in Call
        BY CallFields DEF TurnTypes
      <4> QED BY <4>1, BoundsAssumption DEF Call
    <3> QED BY <3>1, <3>2 DEF Effect, TurnTypes
  <2> QED BY <2>1, <2>2
<1> QED BY <1>2, <1>3, <1>4 DEF TurnTypes

LEMMA CollectsTypes ==
    ASSUME TurnTypes, Collects
    PROVE  /\ [i \in DOMAIN calls |-> [tool |-> calls[i].tool, result |-> calls[i].result]] \in Seq(Message)
           /\ DOMAIN calls = 1..Len(calls) /\ Len(calls) \in Nat
           /\ TurnTypes'
<1>1. DOMAIN calls = 1..Len(calls) /\ Len(calls) \in Nat
  BY LenProperties DEF CallTypes, TurnTypes
<1>2. \A i \in DOMAIN calls : [tool |-> calls[i].tool, result |-> calls[i].result] \in Message
  BY CallFields DEF Call, Message, TurnTypes
<1>3. [i \in DOMAIN calls |-> [tool |-> calls[i].tool, result |-> calls[i].result]] \in Seq(Message)
  <2>1. [i \in DOMAIN calls |-> [tool |-> calls[i].tool, result |-> calls[i].result]]
            \in [1..Len(calls) -> Message]
    BY <1>1, <1>2
  <2> QED BY <1>1, <2>1, FunctionIsSeq
<1>4. msgs' \in Seq(Message)
  BY <1>3, ConcatProperties DEF Collects, TurnTypes
<1>5. CallTypes'
  <2>1. calls' = <<>> /\ <<>> \in Seq(Call) /\ DOMAIN <<>> = {}
    BY DEF Collects
  <2> QED BY <2>1 DEF CallTypes
<1> QED BY <1>1, <1>3, <1>4, <1>5 DEF Collects, given, files, TurnTypes

\* Every other step leaves the calls alone, but for the message of the model.
LEMMA TypesStep ==
    ASSUME TurnTypes, [Next]_vars
    PROVE  TurnTypes'
<1>1. ASSUME UNCHANGED <<stage, allowed, round, research, batch, msgs, calls>>
      PROVE  TurnTypes'
  BY <1>1 DEF TurnTypes, CallTypes
<1> USE DEF given, worker, files
<1>2. CASE NotDelegated
  BY <1>2, <1>1 DEF NotDelegated, EndTurn
<1>3. CASE Stopped
  BY <1>3, <1>1 DEF Stopped, EndTurn
<1>4. CASE Asks
  BY <1>4, AsksTypes DEF Asks, TurnTypes
<1>5. CASE GivesUp
  <2>1. CASE msgs' = Append(msgs, [tool |-> "correction", result |-> "ok"])
    <3>1. [tool |-> "correction", result |-> "ok"] \in Message
      BY DEF Message, Results
    <3>2. msgs' \in Seq(Message)
      BY <2>1, <3>1 DEF TurnTypes
    <3> QED BY <1>5, <2>1, <3>2 DEF GivesUp, EndTurn, TurnTypes, CallTypes
  <2>2. CASE UNCHANGED msgs
    BY <1>5, <2>2, <1>1 DEF GivesUp, EndTurn
  <2> QED BY <1>5, <2>1, <2>2 DEF GivesUp
<1>6. CASE TooLong
  <2>1. <<>> \in Seq(Message)
    OBVIOUS
  <2> QED BY <1>6, <2>1 DEF TooLong, Answer, TurnTypes, CallTypes
<1>7. CASE ModelFails
  BY <1>7, <1>1 DEF ModelFails, Answer
<1>8. CASE Replies
  BY <1>8, <1>1 DEF Replies
<1>9. ASSUME NEW i \in DOMAIN calls, Checks(i) \/ Enters(i) \/ Returns(i)
      PROVE  TurnTypes'
  BY <1>9, CallStepTypes
<1>10. ASSUME NEW i \in DOMAIN calls, Raises(i)
       PROVE  TurnTypes'
  BY <1>10, <1>1 DEF Raises, Answer
<1>11. CASE Collects
  BY <1>11, CollectsTypes
<1>12. CASE AfterTurn
  BY <1>12, <1>1 DEF AfterTurn, Answer
<1>13. CASE Validates
  <2>1. <<>> \in Seq(Message)
    OBVIOUS
  <2>2. RepairAllowed \subseteq StageTools[stage]
    BY RepairGrantsNoMore, ToolsOfStages DEF RepairAllowed, TurnTypes
  <2>3. UNCHANGED <<stage, research, batch, calls>>
    BY <1>13 DEF Validates
  <2>4. CASE UNCHANGED <<round, allowed, msgs>>
    BY <2>3, <2>4, <1>1
  <2>5. CASE round' = round + 1 /\ allowed' = RepairAllowed /\ msgs' = <<>>
    <3>1. round' \in Nat \ {0} /\ msgs' \in Seq(Message) /\ allowed' \subseteq StageTools[stage]
      BY <2>1, <2>2, <2>5 DEF TurnTypes
    <3> QED BY <2>3, <3>1 DEF TurnTypes, CallTypes
  <2>6. \/ UNCHANGED <<round, allowed, msgs>>
        \/ round' = round + 1 /\ allowed' = RepairAllowed /\ msgs' = <<>>
    BY <1>13 DEF Validates, Answer
  <2> QED BY <2>4, <2>5, <2>6
<1>14. CASE AttemptEnds
  BY <1>14, <1>1 DEF AttemptEnds
<1>15. CASE UNCHANGED vars
  BY <1>15, <1>1 DEF vars
<1> QED BY <1>2, <1>3, <1>4, <1>5, <1>6, <1>7, <1>8, <1>9, <1>10, <1>11, <1>12, <1>13, <1>14, <1>15
        DEF Next, WorkerStep

\* The variables of an attempt keep their types.
THEOREM TurnTypesInvariance == Spec => []TurnTypes
<1> QED BY TypesStart, TypesStep, PTL DEF Spec

-----------------------------------------------------------------------------
(* The invariants *)

Running(i) == calls[i].pc = "running"
Counts == [open : Nat, done : Nat, failed : Nat]

\* The open record of a signature belongs to one running call of the message.
LedgerInv ==
    /\ \A s \in DOMAIN ledger : ledger[s] \in Counts
    /\ OneRunPerCall
    /\ pc = "tools" =>
          /\ \A i \in DOMAIN calls : Running(i) =>
                SignatureOf(calls[i]) \in DOMAIN ledger /\ ledger[SignatureOf(calls[i])].open = 1
          /\ \A i, j \in DOMAIN calls :
                Running(i) /\ Running(j) /\ i # j => SignatureOf(calls[i]) # SignatureOf(calls[j])

\* A save that the ledger has admitted is in a message of saves only. One that
\* has read the research, and is not admitted yet, is either current or in a
\* message with an earlier phase, where it will be turned away.
Current(i) ==
    calls[i].tool = "save" =>
        /\ Running(i) => (\A j \in DOMAIN calls : calls[j].tool = "save") /\ calls[i].revision = research
        /\ calls[i].pc = "checked" =>
              (\E j \in DOMAIN calls : calls[j].tool # "save") \/ calls[i].revision = research

SaveInv == stage = "evidence" => \A i \in DOMAIN calls : Current(i)

HasSaved == \E i \in DOMAIN calls : calls[i].tool = "save" /\ calls[i].pc = "done" /\ calls[i].result = "ok"

\* In the first conversation a draft is on disk only with its success in sight:
\* in the messages, or among the results that are about to enter them.
DraftInv ==
    /\ pc \notin {"tools", "end"} => calls = <<>>
    /\ answer # "none" => pc = "end"
    /\ round = 1 /\ ~retried /\ candidate # "missing" => Succeeded("save") \/ HasSaved
    /\ DraftNotLost

TurnedAway == \E i \in DOMAIN msgs : msgs[i].result = "open"

\* A search was turned away only by an open circuit, and an open circuit lets no
\* search succeed, so it stays open for the conversation.
CircuitInv ==
    /\ TurnedAway => CircuitOpen
    /\ \A i \in DOMAIN calls : calls[i].pc = "done" /\ calls[i].result = "open" => CircuitOpen
    /\ CircuitOpen /\ pc = "tools" =>
          \A i \in DOMAIN calls : calls[i].tool = "search" =>
              ~Running(i) /\ (calls[i].pc = "done" => calls[i].result # "ok")

-----------------------------------------------------------------------------
(* One run of a call *)

LEMMA RecordsAreCounts ==
    ASSUME LedgerInv, NEW s
    PROVE  /\ Records(s) \in Counts
           /\ ~Equivalent(s) => Records(s).open = 0 /\ Records(s).done = 0
           /\ s \in DOMAIN ledger => Records(s) = ledger[s]
           /\ s \notin DOMAIN ledger => Records(s) = NoRecords
<1>1. NoRecords \in Counts
  BY DEF NoRecords, Counts
<1>2. Records(s) \in Counts
  BY <1>1 DEF LedgerInv, Records
<1> QED BY <1>2 DEF Equivalent, Records, Counts

\* The step that admits a call opens the only record of its signature.
LEMMA AdmitsOnce ==
    ASSUME TurnTypes, LedgerInv, pc = "tools", pc' = "tools", stage' = stage,
           NEW i \in DOMAIN calls, Admits(i), NEW c \in Call, Moves(i, c),
           c.tool = calls[i].tool, SignatureOf(c) = SignatureOf(calls[i])
    PROVE  LedgerInv'
<1> DEFINE s == SignatureOf(calls[i])
<1>1. /\ DOMAIN ledger' = DOMAIN ledger \cup {s}
      /\ \A t \in DOMAIN ledger \ {s} : ledger'[t] = ledger[t]
      /\ ledger'[s] = [Records(s) EXCEPT !.open = @ + 1]
  BY DEF Admits, Start, WithRecord
<1>2. Records(s) \in Counts /\ Records(s).open = 0 /\ Records(s).done = 0
  BY RecordsAreCounts DEF Admits
<1>3. /\ ledger'[s] \in Counts /\ ledger'[s].open = 1
      /\ ledger'[s].open + ledger'[s].done <= 1
  BY <1>1, <1>2 DEF Counts
<1>4. /\ DOMAIN calls' = DOMAIN calls
      /\ \A j \in DOMAIN calls : calls'[j] = IF j = i THEN c ELSE calls[j]
  BY CallMoves DEF TurnTypes
<1>5. \A j \in DOMAIN calls : SignatureOf(calls'[j]) = SignatureOf(calls[j])
  BY <1>4
<1>6. \A j \in DOMAIN calls : Running(j) => SignatureOf(calls[j]) # s
  <2> SUFFICES ASSUME NEW j \in DOMAIN calls, Running(j), SignatureOf(calls[j]) = s PROVE FALSE
    OBVIOUS
  <2>1. s \in DOMAIN ledger /\ ledger[s].open = 1
    BY DEF LedgerInv
  <2> QED BY <2>1, <1>2, RecordsAreCounts
<1>7. \A j \in DOMAIN calls' : Running(j)' => j = i \/ Running(j)
  BY <1>4 DEF Running
<1>8. \A t \in DOMAIN ledger' : ledger'[t] \in Counts /\ ledger'[t].open + ledger'[t].done <= 1
  <2>1. \A t \in DOMAIN ledger : ledger[t] \in Counts /\ ledger[t].open + ledger[t].done <= 1
    BY DEF LedgerInv, OneRunPerCall
  <2> QED BY <2>1, <1>1, <1>3
<1>9. ASSUME NEW j \in DOMAIN calls', Running(j)'
      PROVE  SignatureOf(calls'[j]) \in DOMAIN ledger' /\ ledger'[SignatureOf(calls'[j])].open = 1
  <2>1. CASE j = i
    BY <2>1, <1>1, <1>3, <1>4
  <2>2. CASE j # i
    <3>1. j \in DOMAIN calls /\ Running(j) /\ calls'[j] = calls[j]
      BY <2>2, <1>4, <1>7, <1>9
    <3>2. SignatureOf(calls[j]) \in DOMAIN ledger /\ ledger[SignatureOf(calls[j])].open = 1
      BY <3>1 DEF LedgerInv
    <3> QED BY <3>1, <3>2, <1>1, <1>6
  <2> QED BY <2>1, <2>2
<1>10. \A j, k \in DOMAIN calls' :
          Running(j)' /\ Running(k)' /\ j # k => SignatureOf(calls'[j]) # SignatureOf(calls'[k])
  BY <1>4, <1>5, <1>6, <1>7 DEF LedgerInv
<1> QED BY <1>8, <1>9, <1>10 DEF LedgerInv, OneRunPerCall

\* A record that becomes no open one leaves the others to their calls.
LEMMA RecordSettles ==
    ASSUME TurnTypes, LedgerInv, pc = "tools", stage' = stage,
           NEW i \in DOMAIN calls, NEW c \in Call, Moves(i, c), c.tool = calls[i].tool, c.pc # "running",
           NEW r \in Counts, ledger' = WithRecord(SignatureOf(calls[i]), r), r.open + r.done <= 1,
           Running(i) \/ r.open = Records(SignatureOf(calls[i])).open
    PROVE  LedgerInv'
<1> DEFINE s == SignatureOf(calls[i])
<1>1. /\ DOMAIN ledger' = DOMAIN ledger \cup {s}
      /\ \A t \in DOMAIN ledger \ {s} : ledger'[t] = ledger[t]
      /\ ledger'[s] = r
  BY DEF WithRecord
<1>2. /\ DOMAIN calls' = DOMAIN calls
      /\ \A j \in DOMAIN calls : calls'[j] = IF j = i THEN c ELSE calls[j]
  BY CallMoves DEF TurnTypes
<1>3. \A j \in DOMAIN calls' : Running(j)' => j \in DOMAIN calls /\ j # i /\ Running(j) /\ calls'[j] = calls[j]
  BY <1>2 DEF Running
<1>4. \A t \in DOMAIN ledger' : ledger'[t] \in Counts /\ ledger'[t].open + ledger'[t].done <= 1
  BY <1>1 DEF LedgerInv, OneRunPerCall
<1>5. ASSUME NEW j \in DOMAIN calls', Running(j)'
      PROVE  SignatureOf(calls'[j]) \in DOMAIN ledger' /\ ledger'[SignatureOf(calls'[j])].open = 1
  <2>1. j \in DOMAIN calls /\ j # i /\ Running(j) /\ calls'[j] = calls[j]
    BY <1>3, <1>5
  <2>2. SignatureOf(calls[j]) \in DOMAIN ledger /\ ledger[SignatureOf(calls[j])].open = 1
    BY <2>1 DEF LedgerInv
  <2>3. CASE SignatureOf(calls[j]) = s
    <3>1. ~Running(i)
      BY <2>1, <2>3 DEF LedgerInv
    <3> QED BY <3>1, <2>1, <2>2, <2>3, <1>1, RecordsAreCounts
  <2> QED BY <2>1, <2>2, <2>3, <1>1
<1>6. \A j, k \in DOMAIN calls' :
          Running(j)' /\ Running(k)' /\ j # k => SignatureOf(calls'[j]) # SignatureOf(calls'[k])
  BY <1>3 DEF LedgerInv
<1> QED BY <1>4, <1>5, <1>6 DEF LedgerInv, OneRunPerCall

\* A step of the calls that leaves the ledger alone settles the call it moves.
LEMMA LedgerUntouched ==
    ASSUME TurnTypes, LedgerInv, pc = "tools", stage' = stage, ledger' = ledger,
           NEW i \in DOMAIN calls, NEW c \in Call, Moves(i, c), c.tool = calls[i].tool, c.pc # "running"
    PROVE  LedgerInv'
<1>1. /\ DOMAIN calls' = DOMAIN calls
      /\ \A j \in DOMAIN calls : calls'[j] = IF j = i THEN c ELSE calls[j]
  BY CallMoves DEF TurnTypes
<1>2. \A j \in DOMAIN calls' : Running(j)' => j \in DOMAIN calls /\ Running(j) /\ calls'[j] = calls[j]
  BY <1>1 DEF Running
<1> QED BY <1>2 DEF LedgerInv, OneRunPerCall

\* The result of a running call closes its open record.
LEMMA FinishSettles ==
    ASSUME LedgerInv, pc = "tools", NEW i \in DOMAIN calls, Running(i),
           NEW result, Finish(SignatureOf(calls[i]), result)
    PROVE  \E r \in Counts : ledger' = WithRecord(SignatureOf(calls[i]), r) /\ r.open + r.done <= 1
<1> DEFINE s == SignatureOf(calls[i])
<1> HIDE DEF s
<1>1. s \in DOMAIN ledger /\ ledger[s].open = 1 /\ ledger[s] \in Counts /\ ledger[s].open + ledger[s].done <= 1
  BY DEF s, LedgerInv, OneRunPerCall
<1>2. Records(s) = ledger[s]
  BY <1>1 DEF Records
<1>3. Records(s) \in Counts /\ Records(s).open - 1 = 0 /\ Records(s).done + 1 = 1 /\ Records(s).done = 0
  BY <1>1, <1>2 DEF Counts
<1> DEFINE completed == [Records(s) EXCEPT !.open = 0, !.done = 1]
           failed == [Records(s) EXCEPT !.open = 0, !.failed = @ + 1]
<1>4. completed \in Counts /\ completed.open = 0 /\ completed.done = 1
  BY <1>3 DEF Counts
<1>5. failed \in Counts /\ failed.open = 0 /\ failed.done = 0
  <2>1. Records(s).failed + 1 \in Nat
    BY <1>3 DEF Counts
  <2> QED BY <1>3, <2>1 DEF Counts
<1>6. ledger' = WithRecord(s, completed) \/ ledger' = WithRecord(s, failed)
  BY <1>3 DEF s, Finish
<1> HIDE DEF completed, failed
<1> QED BY <1>4, <1>5, <1>6 DEF s

LEMMA LedgerCallStep ==
    ASSUME TurnTypes, LedgerInv, NEW i \in DOMAIN calls, Checks(i) \/ Enters(i) \/ Returns(i)
    PROVE  LedgerInv'
<1>1. pc = "tools" /\ pc' = "tools" /\ stage' = stage
  BY DEF Checks, Enters, Returns, At, given, worker
<1> DEFINE s == SignatureOf(calls[i])
<1>2. CASE Checks(i)
  <2>1. ledger' = ledger
    BY <1>2 DEF Checks, files
  <2>2. PICK c \in Call : Moves(i, c) /\ c.tool = calls[i].tool /\ c.pc # "running"
    BY <1>2, ChecksMoves
  <2> QED BY <1>1, <2>1, <2>2, LedgerUntouched
<1>3. CASE Enters(i)
  <2>1. PICK c \in Call :
            /\ Moves(i, c) /\ SignatureOf(c) = SignatureOf(calls[i]) /\ c.tool = calls[i].tool
            /\ \/ c.pc # "running" /\ (Refuses(i) \/ TurnsAway(i))
               \/ c.pc = "running" /\ Admits(i)
    BY <1>3, EntersMoves
  <2>2. CASE c.pc # "running" /\ Refuses(i)
    BY <1>1, <2>1, <2>2, LedgerUntouched DEF Refuses
  <2>3. CASE c.pc # "running" /\ TurnsAway(i)
    <3> DEFINE r == [Records(s) EXCEPT !.failed = @ + 1]
    <3>1. Records(s) \in Counts /\ Records(s).open + Records(s).done <= 1
      BY RecordsAreCounts DEF LedgerInv, OneRunPerCall, NoRecords
    <3>2. r \in Counts /\ r.open = Records(s).open /\ r.done = Records(s).done
      BY <3>1 DEF Counts
    <3>3. ledger' = WithRecord(s, r)
      BY <2>3 DEF TurnsAway
    <3> HIDE DEF r
    <3> QED BY <1>1, <2>1, <2>3, <3>1, <3>2, <3>3, RecordSettles
  <2>4. CASE c.pc = "running" /\ Admits(i)
    BY <2>4, <2>1, <1>1, AdmitsOnce
  <2> QED BY <2>1, <2>2, <2>3, <2>4
<1>4. CASE Returns(i)
  <2>1. PICK c \in Call :
            /\ Moves(i, c) /\ c.tool = calls[i].tool /\ Running(i) /\ c.pc = "done"
            /\ Finish(s, c.result)
    BY <1>4, ReturnsMoves DEF Running
  <2>2. PICK r \in Counts : ledger' = WithRecord(s, r) /\ r.open + r.done <= 1
    BY <1>1, <2>1, FinishSettles
  <2> QED BY <1>1, <2>1, <2>2, RecordSettles
<1> QED BY <1>2, <1>3, <1>4

LEMMA LedgerStarts == Init => LedgerInv
<1> SUFFICES ASSUME Init PROVE LedgerInv
  OBVIOUS
<1>1. DOMAIN ledger = {} /\ pc # "tools"
  BY DEF Init
<1> QED BY <1>1 DEF LedgerInv, OneRunPerCall

LEMMA LedgerStep ==
    ASSUME TurnTypes, LedgerInv, [Next]_vars
    PROVE  LedgerInv'
<1>1. ASSUME ledger' = ledger, calls' = calls, pc' = "tools" => pc = "tools"
      PROVE  LedgerInv'
  BY <1>1 DEF LedgerInv, OneRunPerCall, Running
<1> USE DEF given, worker, files
<1>2. CASE NotDelegated
  BY <1>2, <1>1 DEF NotDelegated, EndTurn
<1>3. CASE Stopped
  BY <1>3, <1>1 DEF Stopped, EndTurn
<1>4. CASE Asks
  <2>1. \A i \in DOMAIN calls' : ~Running(i)'
    BY <1>4, AsksTypes DEF Running
  <2>2. ledger' = ledger
    BY <1>4 DEF Asks
  <2> QED BY <2>1, <2>2 DEF LedgerInv, OneRunPerCall
<1>5. CASE GivesUp
  BY <1>5, <1>1 DEF GivesUp, EndTurn
<1>6. CASE TooLong
  BY <1>6, <1>1 DEF TooLong, Answer
<1>7. CASE ModelFails
  BY <1>7, <1>1 DEF ModelFails, Answer
<1>8. CASE Replies
  BY <1>8, <1>1 DEF Replies
<1>9. ASSUME NEW i \in DOMAIN calls, Checks(i) \/ Enters(i) \/ Returns(i)
      PROVE  LedgerInv'
  BY <1>9, LedgerCallStep
<1>10. ASSUME NEW i \in DOMAIN calls, Raises(i)
       PROVE  LedgerInv'
  <2>1. pc = "tools" /\ Running(i) /\ pc' = "end" /\ Finish(SignatureOf(calls[i]), "failed")
    BY <1>10 DEF Raises, At, Answer, Running
  <2>2. PICK r \in Counts : ledger' = WithRecord(SignatureOf(calls[i]), r) /\ r.open + r.done <= 1
    BY <2>1, FinishSettles
  <2> QED BY <2>1, <2>2 DEF WithRecord, LedgerInv, OneRunPerCall
<1>11. CASE Collects
  BY <1>11, <1>1 DEF Collects, LedgerInv, OneRunPerCall
<1>12. CASE AfterTurn
  BY <1>12, <1>1 DEF AfterTurn, Answer
<1>13. CASE Validates
  BY <1>13, <1>1 DEF Validates, Answer
<1>14. CASE AttemptEnds
  BY <1>14, <1>1 DEF AttemptEnds
<1>15. CASE UNCHANGED vars
  BY <1>15, <1>1 DEF vars
<1> QED BY <1>2, <1>3, <1>4, <1>5, <1>6, <1>7, <1>8, <1>9, <1>10, <1>11, <1>12, <1>13, <1>14, <1>15
        DEF Next, WorkerStep

\* OneRunPerCall: no two equivalent calls of an attempt run or have completed.
THEOREM CallsRunOnce == Spec => []OneRunPerCall
<1>1. LedgerInv => OneRunPerCall
  BY DEF LedgerInv
<1> QED BY <1>1, TypesStart, TypesStep, LedgerStarts, LedgerStep, PTL DEF Spec

-----------------------------------------------------------------------------
(* Phases and revisions of the evidence *)

\* A save that is not deferred is in a message of saves.
LEMMA SavesAlone ==
    ASSUME TurnTypes, stage = "evidence", NEW i \in DOMAIN calls, calls[i].tool = "save",
           ~Deferred(calls[i])
    PROVE  \A j \in DOMAIN calls : calls[j].tool = "save"
<1>1. \A j \in DOMAIN calls : calls[j].tool \in {"search", "fetch", "save"}
  BY DEF TurnTypes, CallTypes, StageTools
<1>2. \A j \in DOMAIN calls : ~(Phase[calls[j].tool] < 3)
  BY DEF Deferred, Phase
<1>3. Phase["search"] < 3 /\ Phase["fetch"] < 3
  BY DEF Phase
<1> QED BY <1>1, <1>2, <1>3

LEMMA SaveCallStep ==
    ASSUME TurnTypes, SaveInv, stage = "evidence",
           NEW i \in DOMAIN calls, Checks(i) \/ Enters(i) \/ Returns(i)
    PROVE  SaveInv'
<1>1. stage' = stage
  BY DEF Checks, Enters, Returns, given
<1>2. \A j \in DOMAIN calls : Current(j)
  BY DEF SaveInv
<1>3. ASSUME NEW c \in Call, Moves(i, c), c.tool = calls[i].tool
      PROVE  /\ DOMAIN calls' = DOMAIN calls
             /\ \A j \in DOMAIN calls : calls'[j] = IF j = i THEN c ELSE calls[j]
             /\ \A j \in DOMAIN calls : calls'[j].tool = calls[j].tool
  BY <1>1, <1>3, CallMoves DEF TurnTypes
<1>4. CASE Checks(i)
  <2>1. PICK c \in Call :
            /\ Moves(i, c) /\ c.tool = calls[i].tool
            /\ c.pc = "done" \/ (c.pc = "checked" /\ c.revision = Revision(c.tool))
    BY <1>4, ChecksMoves
  <2>2. research' = research
    BY <1>4 DEF Checks, files
  <2>3. c.tool = "save" => Revision(c.tool) = research
    BY DEF Revision
  <2> QED BY <1>1, <1>2, <1>3, <2>1, <2>2, <2>3 DEF SaveInv, Current, Running
<1>5. CASE Enters(i)
  <2>1. PICK c \in Call :
            /\ Moves(i, c) /\ c.tool = calls[i].tool /\ c.revision = calls[i].revision
            /\ c.pc = "done" \/ (c.pc = "running" /\ Admits(i))
    BY <1>5, EntersMoves
  <2>2. research' = research
    BY <1>5 DEF Enters
  <2>3. CASE c.tool = "save" /\ c.pc = "running"
    <3>1. calls[i].pc = "checked"
      BY <1>5, <2>1, <2>3, EntersCases DEF ReadsFirst
    <3>2. \A j \in DOMAIN calls : calls[j].tool = "save"
      BY <2>1, <2>3, SavesAlone DEF Admits
    <3>3. calls[i].revision = research
      BY <3>1, <3>2, <1>2 DEF Current
    <3> QED BY <1>1, <1>2, <1>3, <2>1, <2>2, <3>2, <3>3 DEF SaveInv, Current, Running
  <2>4. CASE c.tool # "save" \/ c.pc = "done"
    BY <1>1, <1>2, <1>3, <2>1, <2>2, <2>4 DEF SaveInv, Current, Running
  <2> QED BY <2>1, <2>3, <2>4
<1>6. CASE Returns(i)
  <2>1. PICK c \in Call :
            /\ Moves(i, c) /\ c.tool = calls[i].tool /\ c.pc = "done" /\ Effect(calls[i], c.result)
    BY <1>6, ReturnsMoves
  <2>2. CASE calls[i].tool = "save"
    <3>1. research' = research
      BY <2>1, <2>2 DEF Effect, TurnTypes
    <3> QED BY <1>1, <1>2, <1>3, <2>1, <3>1 DEF SaveInv, Current, Running
  <2>3. CASE calls[i].tool # "save"
    BY <1>1, <1>2, <1>3, <2>1, <2>3 DEF SaveInv, Current, Running
  <2> QED BY <2>2, <2>3
<1> QED BY <1>4, <1>5, <1>6

LEMMA SaveStep ==
    ASSUME TurnTypes, SaveInv, [Next]_vars
    PROVE  SaveInv'
<1>1. ASSUME stage' = stage, calls' = calls, research' = research
      PROVE  SaveInv'
  BY <1>1 DEF SaveInv, Current, Running
<1> USE DEF given, worker, files
<1>2. CASE NotDelegated \/ Stopped \/ GivesUp \/ TooLong \/ ModelFails \/ Replies
  BY <1>2, <1>1 DEF NotDelegated, Stopped, GivesUp, TooLong, ModelFails, Replies
<1>3. CASE Asks
  <2>1. \A i \in DOMAIN calls' : calls'[i].pc = "asked"
    BY <1>3, AsksTypes
  <2> QED BY <2>1 DEF SaveInv, Current, Running
<1>4. ASSUME NEW i \in DOMAIN calls, Checks(i) \/ Enters(i) \/ Returns(i)
      PROVE  SaveInv'
  <2>1. CASE stage = "evidence"
    BY <1>4, <2>1, SaveCallStep
  <2>2. CASE stage # "evidence"
    BY <1>4, <2>2 DEF Checks, Enters, Returns, SaveInv
  <2> QED BY <2>1, <2>2
<1>5. ASSUME NEW i \in DOMAIN calls, Raises(i)
      PROVE  SaveInv'
  BY <1>5, <1>1 DEF Raises
<1>6. CASE Collects
  <2>1. calls' = <<>> /\ DOMAIN <<>> = {}
    BY <1>6 DEF Collects
  <2> QED BY <2>1 DEF SaveInv
<1>7. CASE AfterTurn \/ Validates \/ AttemptEnds
  BY <1>7, <1>1 DEF AfterTurn, Validates, AttemptEnds
<1>8. CASE UNCHANGED vars
  BY <1>8, <1>1 DEF vars
<1> QED BY <1>2, <1>3, <1>4, <1>5, <1>6, <1>7, <1>8 DEF Next, WorkerStep

\* SaveSeesResearch: the research does not grow while a save of it runs.
THEOREM SavesSeeTheirResearch == Spec => []SaveSeesResearch
<1>1. Init => SaveInv
  <2> SUFFICES ASSUME Init PROVE SaveInv
    OBVIOUS
  <2>1. calls = <<>> /\ DOMAIN <<>> = {}
    BY DEF Init
  <2> QED BY <2>1 DEF SaveInv
<1>2. SaveInv => SaveSeesResearch
  BY DEF SaveInv, Current, SaveSeesResearch, Running
<1> QED BY <1>1, <1>2, TypesStart, TypesStep, SaveStep, PTL DEF Spec

-----------------------------------------------------------------------------
(* The first conversation and its draft *)

\* What a conversation has seen succeed stays in sight when it grows.
LEMMA SuccessStays ==
    ASSUME TurnTypes, NEW more \in Seq(Message), msgs' = msgs \o more, Succeeded("save")
    PROVE  Succeeded("save")'
<1>1. /\ DOMAIN msgs = 1..Len(msgs) /\ DOMAIN msgs' = 1..Len(msgs')
      /\ Len(msgs') = Len(msgs) + Len(more) /\ Len(msgs) \in Nat /\ Len(more) \in Nat
      /\ \A i \in 1..Len(msgs) : msgs'[i] = msgs[i]
  BY ConcatProperties, LenProperties DEF TurnTypes
<1>2. PICK i \in DOMAIN msgs : msgs[i].tool = "save" /\ msgs[i].result = "ok"
  BY DEF Succeeded, Of
<1>3. i \in DOMAIN msgs' /\ msgs'[i] = msgs[i]
  BY <1>1, <1>2
<1> QED BY <1>2, <1>3 DEF Succeeded, Of

\* The results of a message enter the conversation.
LEMMA CollectsSuccess ==
    ASSUME TurnTypes, Collects, HasSaved
    PROVE  Succeeded("save")'
<1> DEFINE more == [i \in DOMAIN calls |-> [tool |-> calls[i].tool, result |-> calls[i].result]]
<1>1. more \in Seq(Message) /\ DOMAIN calls = 1..Len(calls) /\ Len(calls) \in Nat /\ msgs' \in Seq(Message)
  BY CollectsTypes DEF TurnTypes
<1>2. PICK i \in DOMAIN calls : calls[i].tool = "save" /\ calls[i].result = "ok"
  BY DEF HasSaved
<1>3. DOMAIN more = DOMAIN calls /\ Len(more) = Len(calls) /\ more[i].tool = "save" /\ more[i].result = "ok"
  BY <1>1, <1>2, LenProperties
<1> HIDE DEF more
<1>4. msgs' = msgs \o more
  BY DEF Collects, more
<1>5. /\ DOMAIN msgs' = 1..Len(msgs') /\ Len(msgs) \in Nat
      /\ Len(msgs') = Len(msgs) + Len(more)
      /\ \A j \in 1..(Len(msgs) + Len(more)) :
            msgs'[j] = IF j <= Len(msgs) THEN msgs[j] ELSE more[j - Len(msgs)]
  BY <1>1, <1>4, ConcatProperties, LenProperties DEF TurnTypes
<1>6. Len(msgs) + i \in DOMAIN msgs' /\ msgs'[Len(msgs) + i] = more[i]
  BY <1>1, <1>2, <1>3, <1>5
<1> QED BY <1>3, <1>6 DEF Succeeded, Of

LEMMA DraftCallStep ==
    ASSUME TurnTypes, DraftInv, NEW i \in DOMAIN calls, Checks(i) \/ Enters(i) \/ Returns(i)
    PROVE  DraftInv'
<1>1. /\ pc = "tools" /\ pc' = "tools" /\ UNCHANGED <<stage, fresh, round, retried, answer, msgs>>
  BY DEF Checks, Enters, Returns, At, given, worker
<1>2. answer = "none"
  BY <1>1 DEF DraftInv
<1>3. calls[i].pc # "done"
  BY EntersCases DEF Checks, Returns, At
<1>4. PICK c \in Call :
          /\ Moves(i, c) /\ c.tool = calls[i].tool
          /\ candidate' = candidate \/ (c.tool = "save" /\ c.pc = "done" /\ c.result = "ok")
  <2>1. CASE Checks(i)
    BY <2>1, ChecksMoves DEF Checks, files
  <2>2. CASE Enters(i)
    BY <2>2, EntersMoves DEF Enters
  <2>3. CASE Returns(i)
    BY <2>3, ReturnsMoves DEF Effect
  <2> QED BY <2>1, <2>2, <2>3
<1>5. /\ DOMAIN calls' = DOMAIN calls
      /\ \A j \in DOMAIN calls : calls'[j] = IF j = i THEN c ELSE calls[j]
  BY <1>1, <1>4, CallMoves DEF TurnTypes
<1>6. HasSaved => HasSaved'
  BY <1>3, <1>5 DEF HasSaved
<1>7. Succeeded("save")' = Succeeded("save")
  BY <1>1 DEF Succeeded, Of
<1>8. candidate' # candidate => HasSaved'
  BY <1>4, <1>5 DEF HasSaved
<1> QED BY <1>1, <1>2, <1>6, <1>7, <1>8 DEF DraftInv, DraftNotLost

LEMMA DraftStep ==
    ASSUME TurnTypes, DraftInv, [Next]_vars
    PROVE  DraftInv'
<1>1. ASSUME UNCHANGED <<stage, fresh, pc, round, retried, answer, msgs, calls, candidate>>
      PROVE  DraftInv'
  BY <1>1 DEF DraftInv, DraftNotLost, HasSaved, Succeeded, Of
<1>2. ASSUME calls = <<>>, calls' = <<>>, answer' = "none", candidate' = candidate, round' = round,
             retried' = retried, Succeeded("save") => Succeeded("save")'
      PROVE  DraftInv'
  <2>1. ~HasSaved
    BY <1>2 DEF HasSaved
  <2> QED BY <1>2, <2>1 DEF DraftInv, DraftNotLost
<1>3. UNCHANGED msgs => Succeeded("save")' = Succeeded("save")
  BY DEF Succeeded, Of
<1>4. ASSUME UNCHANGED <<stage, fresh, round, retried, msgs, calls, candidate>>,
             pc' = "end", answer' # "missing"
      PROVE  DraftInv'
  BY <1>3, <1>4 DEF DraftInv, DraftNotLost, HasSaved
<1> USE DEF given, worker, files
<1>5. CASE NotDelegated \/ Stopped \/ Replies
  BY <1>5, <1>2, <1>3 DEF NotDelegated, Stopped, Replies, EndTurn, DraftInv
<1>6. CASE Asks
  <2>1. calls = <<>> /\ pc' = "tools" /\ UNCHANGED <<stage, fresh, round, retried, answer, msgs, candidate>>
    BY <1>6 DEF Asks, DraftInv
  <2>2. ~HasSaved
    BY <2>1 DEF HasSaved
  <2>3. answer = "none"
    BY <1>6 DEF Asks, DraftInv
  <2> QED BY <2>1, <2>2, <2>3, <1>3 DEF DraftInv, DraftNotLost
<1>7. CASE GivesUp
  <2>1. calls = <<>> /\ calls' = <<>> /\ answer = "none"
    BY <1>7 DEF GivesUp, DraftInv
  <2>2. Succeeded("save") => Succeeded("save")'
    <3> DEFINE sent == [tool |-> "correction", result |-> "ok"]
    <3>1. sent \in Message /\ <<sent>> \in Seq(Message)
      BY DEF Message, Results
    <3>2. UNCHANGED msgs \/ msgs' = Append(msgs, sent)
      BY <1>7 DEF GivesUp
    <3>3. Append(msgs, sent) = msgs \o <<sent>>
      BY <3>1 DEF TurnTypes
    <3> HIDE DEF sent
    <3> QED BY <3>1, <3>2, <3>3, <1>3, SuccessStays
  <2> QED BY <1>7, <1>2, <2>1, <2>2 DEF GivesUp, EndTurn
<1>8. CASE TooLong
  <2>1. CASE retried' = TRUE
    BY <1>8, <2>1 DEF TooLong, Answer, DraftInv, DraftNotLost
  <2>2. CASE Answer("failed") /\ UNCHANGED msgs
    BY <1>8, <2>2, <1>4 DEF TooLong, Answer
  <2> QED BY <1>8, <2>1, <2>2 DEF TooLong
<1>9. CASE ModelFails
  BY <1>9, <1>4 DEF ModelFails, Answer
<1>10. ASSUME NEW i \in DOMAIN calls, Checks(i) \/ Enters(i) \/ Returns(i)
       PROVE  DraftInv'
  BY <1>10, DraftCallStep
<1>11. ASSUME NEW i \in DOMAIN calls, Raises(i)
       PROVE  DraftInv'
  BY <1>11, <1>4 DEF Raises, Answer
<1>12. CASE Collects
  <2> DEFINE more == [i \in DOMAIN calls |-> [tool |-> calls[i].tool, result |-> calls[i].result]]
  <2>1. more \in Seq(Message) /\ msgs' = msgs \o more
    BY <1>12, CollectsTypes DEF Collects
  <2> HIDE DEF more
  <2>2. Succeeded("save") \/ HasSaved => Succeeded("save")'
    BY <1>12, <2>1, SuccessStays, CollectsSuccess
  <2>3. answer = "none"
    BY <1>12 DEF Collects, DraftInv
  <2> QED BY <1>12, <2>2, <2>3 DEF Collects, DraftInv, DraftNotLost
<1>13. CASE AfterTurn
  <2>1. calls = <<>> /\ answer = "none" /\ ~HasSaved
    BY <1>13 DEF AfterTurn, DraftInv, HasSaved
  <2>2. CASE \A tool \in Required : Payload(tool)
    BY <1>13, <2>1, <2>2, <1>2, <1>3 DEF AfterTurn
  <2>3. CASE \E tool \in Required : ~Payload(tool)
    <3>1. pc' = "end" /\ UNCHANGED <<stage, fresh, round, retried, msgs, calls, candidate>>
      BY <1>13, <2>3 DEF AfterTurn, Answer
    <3>2. round = 1
      BY <2>3 DEF Required, TurnTypes
    <3>3. stage = "extract" \/ (stage = "schema_build" /\ ~fresh) => ~Succeeded("save")
      BY <2>3 DEF Required, Payload
    <3> QED BY <2>1, <3>1, <3>2, <3>3, <1>3 DEF DraftInv, DraftNotLost
  <2> QED BY <2>2, <2>3
<1>14. CASE Validates
  <2>1. CASE pc' = "end"
    BY <1>14, <2>1, <1>4 DEF Validates, Answer
  <2>2. CASE pc' # "end"
    <3>1. /\ round' = round + 1 /\ pc' = "model" /\ UNCHANGED <<answer, calls>>
          /\ answer = "none" /\ calls = <<>>
      BY <1>14, <2>2 DEF Validates, Answer, DraftInv
    <3>2. round' # 1
      BY <3>1 DEF TurnTypes
    <3> QED BY <3>1, <3>2 DEF DraftInv, DraftNotLost
  <2> QED BY <2>1, <2>2
<1>15. CASE AttemptEnds \/ UNCHANGED vars
  BY <1>15, <1>1 DEF AttemptEnds, vars
<1> QED BY <1>5, <1>6, <1>7, <1>8, <1>9, <1>10, <1>11, <1>12, <1>13, <1>14, <1>15 DEF Next, WorkerStep

\* DraftNotLost: a required tool reported as not completed has left no draft.
THEOREM DraftsAreReported == Spec => []DraftNotLost
<1>1. Init => DraftInv
  BY DEF Init, DraftInv, DraftNotLost
<1>2. DraftInv => DraftNotLost
  BY DEF DraftInv
<1> QED BY <1>1, <1>2, TypesStart, TypesStep, DraftStep, PTL DEF Spec

-----------------------------------------------------------------------------
(* The circuit of the searches *)

LEMMA FailuresAreCounted ==
    ASSUME NEW seen \in Seq(Message)
    PROVE  ExternalFailures(seen) \in Nat
<1>1. DOMAIN seen = 1..Len(seen) /\ Len(seen) \in Nat
  BY LenProperties
<1>2. IsFiniteSet(DOMAIN seen)
  BY <1>1, FS_Interval
<1>3. IsFiniteSet({i \in DOMAIN seen :
        /\ seen[i].tool = "search" /\ seen[i].result = "external"
        /\ \A j \in DOMAIN seen : j > i /\ seen[j].tool = "search" => seen[j].result \notin {"ok"}})
  BY <1>2, FS_Subset
<1> QED BY <1>3, FS_CardinalityType DEF ExternalFailures, FailuresAfter

\* Without a success the failures only add up.
LEMMA FailuresAddUp ==
    ASSUME NEW seen \in Seq(Message), NEW more \in Seq(Message),
           \A i \in DOMAIN more : more[i].tool = "search" => more[i].result # "ok"
    PROVE  ExternalFailures(seen) <= ExternalFailures(seen \o more)
<1> DEFINE both == seen \o more
           Streak(s) == {i \in DOMAIN s :
              /\ s[i].tool = "search" /\ s[i].result = "external"
              /\ \A j \in DOMAIN s : j > i /\ s[j].tool = "search" => s[j].result \notin {"ok"}}
<1>1. /\ DOMAIN seen = 1..Len(seen) /\ Len(seen) \in Nat
      /\ DOMAIN more = 1..Len(more) /\ Len(more) \in Nat
      /\ DOMAIN both = 1..(Len(seen) + Len(more))
      /\ \A i \in 1..(Len(seen) + Len(more)) : both[i] = IF i <= Len(seen) THEN seen[i] ELSE more[i - Len(seen)]
  BY LenProperties, ConcatProperties
<1> HIDE DEF both
<1>2. Streak(seen) \subseteq Streak(both)
  <2> SUFFICES ASSUME NEW i \in Streak(seen) PROVE i \in Streak(both)
    OBVIOUS
  <2>1. i \in DOMAIN both /\ both[i] = seen[i]
    BY <1>1
  <2>2. ASSUME NEW j \in DOMAIN both, j > i, both[j].tool = "search"
        PROVE  both[j].result # "ok"
    <3>1. CASE j <= Len(seen)
      BY <1>1, <2>2, <3>1
    <3>2. CASE j > Len(seen)
      <4>1. j - Len(seen) \in DOMAIN more /\ both[j] = more[j - Len(seen)]
        BY <1>1, <3>2
      <4> QED BY <2>2, <4>1
    <3> QED BY <1>1, <3>1, <3>2
  <2> QED BY <2>1, <2>2
<1>3. IsFiniteSet(DOMAIN both)
  BY <1>1, FS_Interval
<1>4. IsFiniteSet(Streak(both))
  BY <1>3, FS_Subset
<1>5. Cardinality(Streak(seen)) <= Cardinality(Streak(both))
  BY <1>2, <1>4, FS_Subset
<1> QED BY <1>5 DEF ExternalFailures, FailuresAfter, both

\* The circuit stays open while the conversation grows without a success.
LEMMA CircuitHolds ==
    ASSUME TurnTypes, stage' = stage, NEW more \in Seq(Message), msgs' = msgs \o more,
           \A i \in DOMAIN more : more[i].tool = "search" => more[i].result # "ok",
           CircuitOpen
    PROVE  CircuitOpen'
<1>1. ExternalFailures(msgs) <= ExternalFailures(msgs \o more)
  BY FailuresAddUp DEF TurnTypes
<1>2. msgs \o more \in Seq(Message)
  BY ConcatProperties DEF TurnTypes
<1>3. ExternalFailures(msgs) \in Nat /\ ExternalFailures(msgs \o more) \in Nat /\ MaxExternal \in Nat
  BY <1>2, FailuresAreCounted, BoundsAssumption DEF TurnTypes
<1>4. ExternalFailures(msgs') >= MaxExternal
  BY <1>1, <1>3 DEF CircuitOpen
<1>5. stage' = "evidence"
  BY DEF CircuitOpen
<1> QED BY <1>4, <1>5 DEF CircuitOpen

\* What a grown conversation says was turned away.
LEMMA TurnedAwayBefore ==
    ASSUME TurnTypes, NEW more \in Seq(Message), msgs' = msgs \o more, TurnedAway'
    PROVE  TurnedAway \/ \E i \in DOMAIN more : more[i].result = "open"
<1>1. /\ DOMAIN msgs = 1..Len(msgs) /\ Len(msgs) \in Nat
      /\ DOMAIN more = 1..Len(more) /\ Len(more) \in Nat
      /\ DOMAIN msgs' = 1..(Len(msgs) + Len(more))
      /\ \A i \in 1..(Len(msgs) + Len(more)) : msgs'[i] = IF i <= Len(msgs) THEN msgs[i] ELSE more[i - Len(msgs)]
  BY LenProperties, ConcatProperties DEF TurnTypes
<1>2. PICK i \in DOMAIN msgs' : msgs'[i].result = "open"
  BY DEF TurnedAway
<1>3. CASE i <= Len(msgs)
  BY <1>1, <1>2, <1>3 DEF TurnedAway
<1>4. CASE i > Len(msgs)
  <2>1. i - Len(msgs) \in DOMAIN more /\ msgs'[i] = more[i - Len(msgs)]
    BY <1>1, <1>4
  <2> QED BY <1>2, <2>1
<1> QED BY <1>1, <1>3, <1>4

LEMMA CircuitCallStep ==
    ASSUME TurnTypes, CircuitInv, NEW i \in DOMAIN calls, Checks(i) \/ Enters(i) \/ Returns(i)
    PROVE  CircuitInv'
<1>1. pc = "tools" /\ pc' = "tools" /\ UNCHANGED <<stage, msgs>>
  BY DEF Checks, Enters, Returns, At, given, worker
<1>2. CircuitOpen' = CircuitOpen /\ TurnedAway' = TurnedAway
  BY <1>1 DEF CircuitOpen, TurnedAway
<1>3. PICK c \in Call :
          /\ Moves(i, c) /\ c.tool = calls[i].tool
          /\ c.pc = "done" /\ c.result = "open" => CircuitOpen
          /\ c.tool = "search" /\ CircuitOpen => c.pc # "running" /\ (c.pc = "done" => c.result # "ok")
  <2>1. CASE Checks(i)
    BY <2>1, ChecksMoves
  <2>2. CASE Enters(i)
    BY <2>2, EntersMoves DEF TurnsAway, Admits
  <2>3. CASE Returns(i)
    <3>1. CircuitOpen => calls[i].tool # "search"
      BY <2>3, <1>1, ReturnsMoves DEF CircuitInv, Running
    <3> QED BY <2>3, <3>1, ReturnsMoves
  <2> QED BY <2>1, <2>2, <2>3
<1>4. /\ DOMAIN calls' = DOMAIN calls
      /\ \A j \in DOMAIN calls : calls'[j] = IF j = i THEN c ELSE calls[j]
  BY <1>1, <1>3, CallMoves DEF TurnTypes
<1> QED BY <1>1, <1>2, <1>3, <1>4 DEF CircuitInv, Running

LEMMA CircuitCollects ==
    ASSUME TurnTypes, CircuitInv, Collects
    PROVE  CircuitInv'
<1> DEFINE more == [i \in DOMAIN calls |-> [tool |-> calls[i].tool, result |-> calls[i].result]]
<1>1. more \in Seq(Message) /\ DOMAIN more = DOMAIN calls
  BY CollectsTypes
<1>2. \A i \in DOMAIN calls : /\ more[i].tool = calls[i].tool /\ more[i].result = calls[i].result
                              /\ calls[i].pc = "done"
  BY DEF Collects
<1>3. msgs' = msgs \o more /\ stage' = stage /\ calls' = <<>> /\ pc' = "model" /\ pc = "tools"
  BY DEF Collects, given
<1> HIDE DEF more
<1>4. CircuitOpen => CircuitOpen'
  <2>1. CircuitOpen => \A i \in DOMAIN more : more[i].tool = "search" => more[i].result # "ok"
    BY <1>1, <1>2, <1>3 DEF CircuitInv
  <2> QED BY <2>1, <1>1, <1>3, CircuitHolds
<1>5. TurnedAway' => CircuitOpen
  BY <1>1, <1>2, <1>3, TurnedAwayBefore DEF CircuitInv
<1>6. DOMAIN calls' = {}
  BY <1>3
<1> QED BY <1>3, <1>4, <1>5, <1>6 DEF CircuitInv

LEMMA CircuitStep ==
    ASSUME TurnTypes, DraftInv, CircuitInv, [Next]_vars
    PROVE  CircuitInv'
<1>1. ASSUME stage' = stage, msgs' = msgs, calls' = calls, pc' = "tools" => pc = "tools"
      PROVE  CircuitInv'
  BY <1>1 DEF CircuitInv, CircuitOpen, TurnedAway, Running
<1>2. ASSUME msgs' = <<>>, calls' = calls, pc \notin {"tools", "end"}
      PROVE  CircuitInv'
  <2>1. DOMAIN msgs' = {} /\ DOMAIN calls' = {}
    BY <1>2 DEF DraftInv
  <2> QED BY <2>1 DEF CircuitInv, TurnedAway
<1> USE DEF given, worker, files
<1>3. CASE NotDelegated \/ Stopped \/ Replies
  BY <1>3, <1>1 DEF NotDelegated, Stopped, Replies, EndTurn
<1>4. CASE Asks
  <2>1. \A i \in DOMAIN calls' : calls'[i].pc = "asked"
    BY <1>4, AsksTypes
  <2>2. stage' = stage /\ msgs' = msgs
    BY <1>4 DEF Asks
  <2> QED BY <2>1, <2>2 DEF CircuitInv, CircuitOpen, TurnedAway, Running
<1>5. CASE GivesUp
  <2> DEFINE sent == [tool |-> "correction", result |-> "ok"]
  <2>1. CASE msgs' = msgs
    BY <1>5, <2>1, <1>1 DEF GivesUp, EndTurn
  <2>2. CASE msgs' = Append(msgs, sent)
    <3>1. sent \in Message /\ <<sent>> \in Seq(Message)
      BY DEF Message, Results
    <3>2. msgs' = msgs \o <<sent>>
      BY <2>2, <3>1 DEF TurnTypes
    <3>3. \A i \in DOMAIN <<sent>> : <<sent>>[i] = sent
      OBVIOUS
    <3>4. stage' = stage /\ calls' = calls /\ pc = "model" /\ calls = <<>>
      BY <1>5 DEF GivesUp, DraftInv
    <3>5. \A i \in DOMAIN <<sent>> : <<sent>>[i].tool # "search" /\ <<sent>>[i].result # "open"
      BY <3>3
    <3> HIDE DEF sent
    <3>6. CircuitOpen => CircuitOpen'
      BY <3>1, <3>2, <3>4, <3>5, CircuitHolds
    <3>7. TurnedAway' => CircuitOpen
      BY <3>1, <3>2, <3>5, TurnedAwayBefore DEF CircuitInv
    <3>8. DOMAIN calls' = {}
      BY <3>4
    <3> QED BY <3>6, <3>7, <3>8 DEF CircuitInv
  <2> QED BY <1>5, <2>1, <2>2 DEF GivesUp
<1>6. CASE TooLong
  BY <1>6, <1>1, <1>2 DEF TooLong, Answer
<1>7. CASE ModelFails
  BY <1>7, <1>1 DEF ModelFails, Answer
<1>8. ASSUME NEW i \in DOMAIN calls, Checks(i) \/ Enters(i) \/ Returns(i)
      PROVE  CircuitInv'
  BY <1>8, CircuitCallStep
<1>9. ASSUME NEW i \in DOMAIN calls, Raises(i)
      PROVE  CircuitInv'
  BY <1>9, <1>1 DEF Raises, Answer
<1>10. CASE Collects
  BY <1>10, CircuitCollects
<1>11. CASE AfterTurn
  BY <1>11, <1>1 DEF AfterTurn, Answer
<1>12. CASE Validates
  BY <1>12, <1>1, <1>2 DEF Validates, Answer
<1>13. CASE AttemptEnds \/ UNCHANGED vars
  BY <1>13, <1>1 DEF AttemptEnds, vars
<1> QED BY <1>3, <1>4, <1>5, <1>6, <1>7, <1>8, <1>9, <1>10, <1>11, <1>12, <1>13 DEF Next, WorkerStep

\* What CircuitStaysOpen says of a step.
NoSearchAdmitted ==
    \A i \in DOMAIN calls :
        /\ i \in DOMAIN calls' /\ calls[i].pc # "running" /\ calls'[i].pc = "running"
        /\ calls[i].tool = "search"
        => \A j \in DOMAIN msgs : msgs[j].result # "open"

\* Only Enters starts a call, and it admits no search once one was turned away.
LEMMA OpenCircuitAdmitsNone ==
    ASSUME TurnTypes, CircuitInv, [Next]_vars
    PROVE  NoSearchAdmitted
<1>1. ASSUME \A i \in DOMAIN calls' : calls'[i].pc = "running" => i \in DOMAIN calls /\ calls[i].pc = "running"
      PROVE  NoSearchAdmitted
  BY <1>1 DEF NoSearchAdmitted
<1>2. CASE calls' = calls
  BY <1>2, <1>1
<1>3. CASE Asks
  BY <1>3, <1>1, AsksTypes
<1>4. CASE Collects
  <2>1. calls' = <<>> /\ DOMAIN <<>> = {}
    BY <1>4 DEF Collects
  <2> QED BY <2>1, <1>1
<1>5. ASSUME NEW i \in DOMAIN calls, Checks(i) \/ Enters(i) \/ Returns(i)
      PROVE  NoSearchAdmitted
  <2>1. PICK c \in Call :
            /\ Moves(i, c) /\ c.tool = calls[i].tool
            /\ c.pc = "running" => ~(calls[i].tool = "search" /\ CircuitOpen)
    BY <1>5, ChecksMoves, EntersMoves, ReturnsMoves DEF Admits
  <2>2. stage' = stage
    BY <1>5 DEF Checks, Enters, Returns, given
  <2>3. /\ DOMAIN calls' = DOMAIN calls
        /\ \A j \in DOMAIN calls : calls'[j] = IF j = i THEN c ELSE calls[j]
    BY <2>1, <2>2, CallMoves DEF TurnTypes
  <2> QED BY <2>1, <2>3 DEF NoSearchAdmitted, CircuitInv, TurnedAway
<1>6. ASSUME NEW i \in DOMAIN calls, Raises(i)
      PROVE  calls' = calls
  BY <1>6 DEF Raises
<1>7. CASE NotDelegated \/ Stopped \/ GivesUp \/ TooLong \/ ModelFails \/ Replies \/ AfterTurn
           \/ Validates \/ AttemptEnds \/ UNCHANGED vars
  BY <1>7, <1>2 DEF NotDelegated, Stopped, GivesUp, TooLong, ModelFails, Replies, AfterTurn, Validates,
                    AttemptEnds, vars
<1> QED BY <1>2, <1>3, <1>4, <1>5, <1>6, <1>7 DEF Next, WorkerStep

\* CircuitStaysOpen: a conversation whose search was turned away starts no other.
THEOREM SearchesStayTurnedAway == Spec => CircuitStaysOpen
<1>1. Init => DraftInv /\ CircuitInv
  <2> SUFFICES ASSUME Init PROVE DraftInv /\ CircuitInv
    OBVIOUS
  <2>1. DOMAIN msgs = {} /\ DOMAIN calls = {}
    BY DEF Init
  <2> QED BY <2>1 DEF Init, DraftInv, DraftNotLost, CircuitInv, TurnedAway
<1>2. TurnTypes /\ CircuitInv /\ [Next]_vars => [NoSearchAdmitted]_vars
  BY OpenCircuitAdmitsNone
<1> QED BY <1>1, <1>2, TypesStart, TypesStep, DraftStep, CircuitStep, PTL
        DEF Spec, CircuitStaysOpen, NoSearchAdmitted
=============================================================================
